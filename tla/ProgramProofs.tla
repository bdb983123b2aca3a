---------------------------- MODULE ProgramProofs ----------------------------
(***************************************************************************)
(* Proofs about the programs.  Init never has two sessions on a terminal,  *)
(* and whoever is logged in has the identity that /etc/passwd and          *)
(* /etc/group give, for any size of the process table, any number of       *)
(* terminals and any files.  The shell connects the commands of any        *)
(* pipeline to the right pipes, as long as no pipe() fails.  The cursor    *)
(* of the editor is always in the text and a key changes no other          *)
(* line, for every size of the screen and of the buffer.  The streams of   *)
(* libc lose no byte and keep their order, for any number of streams and   *)
(* any size of their buffers; its environment holds what was set, for any  *)
(* variables, and its allocator never gives out storage twice or loses it, *)
(* for any size of the heap.                                               *)
(***************************************************************************)
EXTENDS ShellSessions, Editor, Libc, FiniteSetTheorems, FunctionTheorems, SequenceTheorems, WellFoundedInduction, TLAPS

(* The first of a set of numbers that is not empty is one of them.          *)
LEMMA Lowest == ASSUME NEW S \in SUBSET Nat, S # {} PROVE Min(S) \in S /\ \A y \in S : Min(S) <= y
<1> DEFINE Below == {ss \in Nat \X Nat : ss[1] < ss[2]}
<1>1. IsWellFoundedOn(Below, Nat)
  BY NatLessThanWellFounded DEF OpToRel
<1>2. PICK x \in S : \A y \in S : ~(<<y, x>> \in Below)
  <2> HIDE DEF Below
  <2> QED BY <1>1, WFMin
<1>3. ASSUME NEW y \in S PROVE x =< y
  <2>1. x \in Nat /\ y \in Nat
    OBVIOUS
  <2>2. ~(y < x)
    BY <1>2, <2>1
  <2> QED BY <2>1, <2>2
<1> QED BY <1>3 DEF Min

(* The lesser of two numbers.                                               *)
LEMMA Lesser ==
    ASSUME NEW a \in Int, NEW b \in Int
    PROVE  Min({a, b}) = IF a <= b THEN a ELSE b
<1>1. \E x \in {a, b} : \A y \in {a, b} : x <= y
  OBVIOUS
<1>2. Min({a, b}) \in {a, b} /\ \A y \in {a, b} : Min({a, b}) <= y
  BY <1>1 DEF Min
<1> QED BY <1>2

-----------------------------------------------------------------------------
(* The sessions of init.                                                    *)
Used(p) == proc[p].state # "null"

(* The variables that init and the kernel share have their types.           *)
Programs == {"none", "sh", "getty", "login", "setgroups", "setuid"}
Process ==
    [state : {"null", "run", "zombie"}, pid : Int, parent : Int, prog : Programs, tty : Ttys, leader : BOOLEAN]
Typed ==
    /\ proc \in [Slots -> Process] /\ ttys \in [Ttys -> Int]
    /\ nextpid \in Int /\ pid \in Int /\ t \in Nat \ {0}

(* No two processes have the same pid, and none has one that is yet to be   *)
(* given out.                                                               *)
PidsDiffer ==
    /\ nextpid > 0
    /\ \A p \in Slots : Used(p) => 0 < proc[p].pid /\ proc[p].pid < nextpid
    /\ \A p, q \in Slots : Used(p) /\ Used(q) /\ p # q => proc[p].pid # proc[q].pid

(* The first process of a session is a child of init.                       *)
LeadersAdopted == \A p \in Slots : proc[p].leader => Used(p) /\ proc[p].parent = INIT

(* While init looks for terminals to serve, the process that it collected   *)
(* is gone for good; when it had no children, there are sessions on the     *)
(* terminals that it has already been to, and on no other.                  *)
Collected ==
    at = "serve" =>
        /\ pid < nextpid
        /\ \A p \in Slots : Used(p) => proc[p].pid # pid
        /\ pid = -1 => \A p \in Slots : proc[p].leader => proc[p].tty < t

IndInv == Typed /\ PidsDiffer /\ LeadersAdopted /\ Collected /\ OneSession

-----------------------------------------------------------------------------
(* fork() gives a process an entry that was free.                           *)
LEMMA FreshSlot == ASSUME SLOTS \in Nat, CanFork PROVE Slot \in Slots /\ ~Used(Slot)
<1> DEFINE S == {p \in Slots : proc[p].state = "null"}
<1>1. S \in SUBSET Slots /\ S # {}
  BY DEF CanFork
<1>2. Min(S) \in S
  <2> HIDE DEF S
  <2> QED BY <1>1, Lowest DEF Slots
<1> QED BY <1>2 DEF Slot, Used

(* What fork() does to the table of processes: one entry is new, with a pid *)
(* that no other has.                                                       *)
LEMMA ForkStep ==
    ASSUME SLOTS \in Nat, IndInv, CanFork, NEW new \in Process, proc' = [proc EXCEPT ![Slot] = new]
    PROVE  \E s \in Slots :
             /\ ~Used(s) /\ proc' \in [Slots -> Process]
             /\ proc'[s] = new /\ \A p \in Slots : p # s => proc'[p] = proc[p]
<1> DEFINE s == Slot
<1>1. s \in Slots /\ ~Used(s)
  BY FreshSlot
<1>2. proc \in [Slots -> Process] /\ proc' = [proc EXCEPT ![s] = new]
  BY DEF IndInv, Typed
<1> HIDE DEF s
<1> QED BY <1>1, <1>2

(* A fork() that starts no session keeps the invariant.                     *)
LEMMA ForkKeeps ==
    ASSUME SLOTS \in Nat, IndInv, CanFork, NEW new \in Process, proc' = [proc EXCEPT ![Slot] = new],
           new.state = "run", new.pid = nextpid, ~new.leader, nextpid' = nextpid + 1,
           UNCHANGED <<ttys, t>>, pid' \in Int, at' = "serve" => at = "serve" /\ pid' = pid
    PROVE  IndInv'
<1>1. PICK s \in Slots :
        /\ ~Used(s) /\ proc' \in [Slots -> Process]
        /\ proc'[s] = new /\ \A p \in Slots : p # s => proc'[p] = proc[p]
  BY ForkStep
<1> USE <1>1 DEF IndInv
<1>2. Typed'
  BY DEF Typed
<1>3. PidsDiffer'
  BY DEF PidsDiffer, Typed, Process, Used
<1>4. LeadersAdopted'
  BY DEF LeadersAdopted, Used
<1>5. Collected'
  BY DEF Collected, PidsDiffer, Typed, Process, Used
<1>6. OneSession'
  BY DEF OneSession
<1> QED BY <1>2, <1>3, <1>4, <1>5, <1>6

(* A step that starts no process keeps the invariant, if what init knows    *)
(* stays and every entry stays, is freed, or changes only its program, its  *)
(* state from running to zombie, or its parent to init.                     *)
LEMMA TableKeeps ==
    ASSUME IndInv, proc' \in [Slots -> Process], UNCHANGED <<ttys, nextpid>>, pid' \in Int, t' \in Nat \ {0},
           \A p \in Slots :
             \/ proc'[p] = NoProcess
             \/ /\ proc'[p].pid = proc[p].pid /\ proc'[p].tty = proc[p].tty /\ proc'[p].leader = proc[p].leader
                /\ proc'[p].parent \in {proc[p].parent, INIT}
                /\ proc'[p].state = "null" <=> proc[p].state = "null",
           at' = "serve" => at = "serve" /\ pid' = pid /\ t' >= t
    PROVE  IndInv'
<1> USE DEF IndInv
<1>1. \A p \in Slots :
        /\ Used(p)' => Used(p) /\ proc'[p].pid = proc[p].pid /\ proc'[p].leader = proc[p].leader
        /\ proc'[p].leader => Used(p)' /\ proc[p].leader /\ proc'[p].pid = proc[p].pid
                              /\ proc'[p].tty = proc[p].tty /\ proc'[p].parent = INIT
  BY DEF Used, NoProcess, LeadersAdopted
<1>2. Typed'
  BY DEF Typed
<1>3. PidsDiffer'
  BY <1>1 DEF PidsDiffer
<1>4. LeadersAdopted'
  BY <1>1 DEF LeadersAdopted
<1>5. Collected'
  <2> SUFFICES ASSUME at' = "serve" PROVE Collected'
    BY DEF Collected
  <2>1. \A p \in Slots : proc[p].tty \in Int
    BY DEF Typed, Process, Ttys
  <2>2. t \in Int
    BY DEF Typed
  <2> QED BY <1>1, <2>1, <2>2 DEF Collected
<1>6. OneSession'
  BY <1>1 DEF OneSession
<1> QED BY <1>2, <1>3, <1>4, <1>5, <1>6

(* A collected process leaves an empty entry.                               *)
LEMMA Emptied ==
    ASSUME NTTY \in Nat \ {0}, Typed, NEW z \in Slots, proc' = [proc EXCEPT ![z] = NoProcess]
    PROVE  /\ proc' \in [Slots -> Process] /\ proc'[z] = NoProcess
           /\ \A p \in Slots : p # z => proc'[p] = proc[p]
<1>1. 1 \in Ttys
  BY DEF Ttys
<1>2. 0 \in Int
  OBVIOUS
<1>3. NoProcess \in Process
  BY <1>1, <1>2, Zenon DEF NoProcess, Process, Programs, INIT
<1> QED BY <1>3 DEF Typed

(* exit() makes a zombie, and init the parent of its children.              *)
LEMMA ExitKeeps ==
    ASSUME IndInv, NEW p \in Slots, proc[p].state = "run", proc' = Exited(p), UNCHANGED <<initVars, nextpid>>
    PROVE  IndInv'
<1>1. proc \in [Slots -> Process] /\ pid \in Int /\ t \in Nat \ {0}
  BY DEF IndInv, Typed
<1>2. ASSUME NEW q \in Slots
      PROVE  /\ proc'[q] \in Process
             /\ proc'[q].pid = proc[q].pid /\ proc'[q].tty = proc[q].tty /\ proc'[q].leader = proc[q].leader
             /\ proc'[q].parent \in {proc[q].parent, INIT}
             /\ proc'[q].state = "null" <=> proc[q].state = "null"
  <2>1. proc[q] \in Process
    BY <1>1
  <2>2. proc'[q] = IF q = p THEN [proc[p] EXCEPT !.state = "zombie"]
                   ELSE IF proc[q].state # "null" /\ proc[q].parent = p THEN [proc[q] EXCEPT !.parent = INIT]
                   ELSE proc[q]
    BY DEF Exited
  <2> QED BY <2>1, <2>2 DEF Process, INIT
<1>3. proc' \in [Slots -> Process]
  BY <1>2 DEF Exited
<1> QED BY <1>1, <1>2, <1>3, TableKeeps DEF initVars

(* exec() changes the program of a process, and nothing else of its entry.  *)
LEMMA ExecKeeps ==
    ASSUME IndInv, NEW p \in Slots, NEW prog \in Programs, proc' = [proc EXCEPT ![p].prog = prog],
           UNCHANGED <<initVars, nextpid>>
    PROVE  IndInv'
<1>1. proc \in [Slots -> Process] /\ pid \in Int /\ t \in Nat \ {0}
  BY DEF IndInv, Typed
<1>2. ASSUME NEW q \in Slots
      PROVE  /\ proc'[q] \in Process
             /\ proc'[q].pid = proc[q].pid /\ proc'[q].tty = proc[q].tty /\ proc'[q].leader = proc[q].leader
             /\ proc'[q].parent = proc[q].parent /\ proc'[q].state = proc[q].state
  <2>1. proc[q] \in Process
    BY <1>1
  <2>2. proc'[q] = IF q = p THEN [proc[q] EXCEPT !.prog = prog] ELSE proc[q]
    BY <1>1
  <2> QED BY <2>1, <2>2 DEF Process
<1>3. proc' \in [Slots -> Process]
  BY <1>1, <1>2
<1> QED BY <1>1, <1>2, <1>3, TableKeeps DEF initVars

-----------------------------------------------------------------------------
(* Wait: what init collected has a pid that no process has or will have; no *)
(* session is left when it has no children.                                 *)
LEMMA WaitStep == ASSUME NTTY \in Nat \ {0}, IndInv, Wait PROVE IndInv'
<1> USE DEF IndInv
<1>1. ASSUME NEW z \in Zombies(INIT), pid' = proc[z].pid, proc' = [proc EXCEPT ![z] = NoProcess] PROVE IndInv'
  <2>1. z \in Slots /\ Used(z)
    BY DEF Zombies, Used
  <2>2. /\ proc' \in [Slots -> Process] /\ proc'[z] = NoProcess
        /\ \A p \in Slots : p # z => proc'[p] = proc[p]
    BY <1>1, <2>1, Emptied
  <2>3. Typed'
    BY <1>1, <2>1, <2>2 DEF Typed, Process, Wait
  <2>4. PidsDiffer' /\ LeadersAdopted' /\ OneSession'
    BY <2>2 DEF PidsDiffer, LeadersAdopted, OneSession, Used, NoProcess, Wait
  <2>5. pid' < nextpid' /\ \A p \in Slots : Used(p)' => proc'[p].pid # pid'
    BY <1>1, <2>1, <2>2 DEF PidsDiffer, Used, NoProcess, Wait
  <2>6. pid' = -1 => \A p \in Slots : proc'[p].leader => proc'[p].tty < t'
    <3>1. 0 < proc[z].pid /\ proc[z].pid \in Int
      BY <2>1 DEF PidsDiffer, Typed, Process
    <3>2. pid' # -1
      BY <1>1, <3>1
    <3> QED BY <3>2
  <2> QED BY <2>3, <2>4, <2>5, <2>6 DEF Collected
<1>2. ASSUME Childless(INIT), pid' = -1, UNCHANGED proc PROVE IndInv'
  <2>1. \A p \in Slots : ~proc[p].leader
    BY <1>2 DEF LeadersAdopted, Childless, Used
  <2> QED BY <1>2, <2>1 DEF Wait, Typed, PidsDiffer, LeadersAdopted, Collected, OneSession, Used
<1> QED BY <1>1, <1>2 DEF Wait

(* Serve: the terminal that gets a getty had no session, as the process     *)
(* init has collected was it, or as there was none at all.                  *)
LEMMA ServeStep == ASSUME SLOTS \in Nat, NTTY \in Nat \ {0}, IndInv, Serve PROVE IndInv'
<1> USE DEF IndInv
<1>1. t \in Ttys /\ at = "serve" /\ at' = "serve"
  BY DEF Serve, AtTty, Typed, Ttys, Collected
<1>2. \A p \in Slots : proc[p].leader => proc[p].tty # t
  <2> SUFFICES ASSUME NEW p \in Slots, proc[p].leader, proc[p].tty = t PROVE FALSE
    OBVIOUS
  <2>1. Used(p) /\ ttys[t] = proc[p].pid
    BY DEF LeadersAdopted, OneSession
  <2>2. CASE pid = -1
    BY <1>1, <2>2 DEF Collected, Typed, Process, Ttys
  <2>3. CASE pid # -1
    BY <1>1, <2>1, <2>3 DEF Serve, Serves, Collected
  <2> QED BY <2>2, <2>3
<1> DEFINE r == [state |-> "run", pid |-> nextpid, parent |-> INIT, prog |-> "getty", tty |-> t, leader |-> TRUE]
<1>3. PICK new : new = r
  OBVIOUS
<1>4. new \in Process
  <2>1. nextpid \in Int /\ INIT \in Int
    BY DEF Typed, INIT
  <2> QED BY <1>1, <1>3, <2>1, Zenon DEF Process, Programs
<1>5. proc' = [proc EXCEPT ![Slot] = new] /\ nextpid' = nextpid + 1 /\ CanFork
  BY <1>3 DEF Serve, Forked
<1>6. /\ new.state = "run" /\ new.pid = nextpid /\ new.parent = INIT
      /\ new.tty = t /\ new.leader
  BY <1>3
<1> HIDE DEF r
<1>7. PICK s \in Slots :
        /\ ~Used(s) /\ proc' \in [Slots -> Process]
        /\ proc'[s] = new /\ \A p \in Slots : p # s => proc'[p] = proc[p]
  BY <1>4, <1>5, ForkStep
<1>8. /\ ttys' = [ttys EXCEPT ![t] = nextpid] /\ t' = t + 1 /\ pid' = pid
  BY DEF Serve
<1>9. Typed'
  BY <1>1, <1>5, <1>7, <1>8 DEF Typed
<1>10. PidsDiffer'
  BY <1>5, <1>6, <1>7 DEF PidsDiffer, Typed, Process, Used
<1>11. LeadersAdopted'
  BY <1>6, <1>7 DEF LeadersAdopted, Used
<1>12. Collected'
  <2>1. pid' < nextpid' /\ \A p \in Slots : Used(p)' => proc'[p].pid # pid'
    BY <1>1, <1>5, <1>6, <1>7, <1>8 DEF Collected, Typed, Used
  <2>2. ASSUME pid' = -1, NEW p \in Slots, proc'[p].leader PROVE proc'[p].tty < t'
    <3>1. CASE p = s
      BY <1>6, <1>7, <1>8, <3>1 DEF Typed
    <3>2. CASE p # s
      <4>1. proc'[p] = proc[p] /\ t' = t + 1 /\ pid = -1
        BY <1>7, <1>8, <2>2, <3>2
      <4>2. proc[p].tty < t
        BY <1>1, <2>2, <4>1 DEF Collected
      <4>3. proc[p].tty \in Int /\ t \in Int
        BY DEF Typed, Process, Ttys
      <4> QED BY <4>1, <4>2, <4>3
    <3> QED BY <3>1, <3>2
  <2> QED BY <2>1, <2>2 DEF Collected
<1>13. OneSession'
  <2> SUFFICES ASSUME NEW p \in Slots, proc'[p].leader PROVE ttys'[proc'[p].tty] = proc'[p].pid
    BY DEF OneSession
  <2>1. CASE p = s
    BY <1>1, <1>6, <1>7, <1>8, <2>1 DEF Typed
  <2>2. CASE p # s
    BY <1>1, <1>2, <1>7, <1>8, <2>2 DEF OneSession, Typed, Process
  <2> QED BY <2>1, <2>2
<1> QED BY <1>9, <1>10, <1>11, <1>12, <1>13

(* The other steps of init, and those of the other processes.               *)
LEMMA NextStep == ASSUME SLOTS \in Nat, NTTY \in Nat \ {0}, IndInv, [Next]_vars PROVE IndInv'
<1> USE DEF IndInv
<1>1. proc \in [Slots -> Process] /\ pid \in Int /\ t \in Nat \ {0} /\ nextpid \in Int /\ INIT \in Int
  BY DEF Typed, INIT
<1>2. CASE Single
  <2>1. PICK new : new = [state |-> "run", pid |-> nextpid, parent |-> INIT, prog |-> "sh", tty |-> 1, leader |-> FALSE]
    OBVIOUS
  <2>2. 1 \in Ttys
    BY DEF Ttys
  <2>3. new \in Process
    BY <1>1, <2>1, <2>2, Zenon DEF Process, Programs
  <2>4. proc' = [proc EXCEPT ![Slot] = new] /\ nextpid' = nextpid + 1 /\ CanFork
    BY <1>2, <2>1 DEF Single, Forked
  <2> QED BY <1>1, <1>2, <2>1, <2>3, <2>4, ForkKeeps DEF Single
<1>3. CASE SingleWait
  <2>1. PICK z \in Zombies(INIT) : proc' = [proc EXCEPT ![z] = NoProcess]
    BY <1>3 DEF SingleWait
  <2>2. z \in Slots
    BY DEF Zombies
  <2> QED BY <1>1, <1>3, <2>1, <2>2, Emptied, TableKeeps DEF SingleWait
<1>4. CASE ServeNot
  BY <1>1, <1>4, TableKeeps DEF ServeNot
<1>5. CASE Served
  BY <1>1, <1>5, TableKeeps DEF Served
<1>6. ASSUME NEW p \in Slots, Getty(p) \/ Initgroups(p) \/ Setuid(p) PROVE IndInv'
  <2>1. PICK prog \in Programs : proc' = [proc EXCEPT ![p].prog = prog]
    BY <1>6 DEF Getty, Initgroups, Setuid, Programs
  <2> QED BY <1>6, <2>1, ExecKeeps DEF Getty, Initgroups, Setuid
<1>7. ASSUME NEW p \in Slots, Password(p) PROVE IndInv'
  <2>1. CASE proc' = [proc EXCEPT ![p].prog = "setgroups"]
    BY <1>7, <2>1, ExecKeeps DEF Password, Programs
  <2>2. CASE proc' = Exited(p)
    BY <1>7, <2>2, ExitKeeps DEF Password, Running
  <2> QED BY <1>7, <2>1, <2>2 DEF Password
<1>8. ASSUME NEW p \in Slots, RunLogin(p) PROVE IndInv'
  <2>1. PICK new : new = [state |-> "run", pid |-> nextpid, parent |-> p, prog |-> "login", tty |-> proc[p].tty,
                          leader |-> FALSE]
    OBVIOUS
  <2>2. p \in Int /\ proc[p].tty \in Ttys
    BY <1>1 DEF Slots, Process
  <2>3. new \in Process
    BY <1>1, <2>1, <2>2, Zenon DEF Process, Programs
  <2>4. proc' = [proc EXCEPT ![Slot] = new] /\ nextpid' = nextpid + 1 /\ CanFork
    BY <1>8, <2>1 DEF RunLogin, Forked
  <2> QED BY <1>1, <1>8, <2>1, <2>3, <2>4, ForkKeeps DEF RunLogin, initVars
<1>9. ASSUME NEW p \in Slots, Reap(p) PROVE IndInv'
  <2>1. PICK z \in Zombies(p) : proc' = [proc EXCEPT ![z] = NoProcess]
    BY <1>9 DEF Reap
  <2>2. z \in Slots
    BY DEF Zombies
  <2>3. /\ proc' \in [Slots -> Process] /\ proc'[z] = NoProcess
        /\ \A q \in Slots : q # z => proc'[q] = proc[q]
    BY <2>1, <2>2, Emptied
  <2>4. UNCHANGED <<at, ttys, pid, t, nextpid>>
    BY <1>9 DEF Reap, initVars
  <2> QED BY <1>1, <2>3, <2>4, TableKeeps
<1>10. ASSUME NEW p \in Slots, Exit(p) PROVE IndInv'
  BY <1>10, ExitKeeps DEF Exit
<1>11. CASE UNCHANGED vars
  BY <1>1, <1>11, TableKeeps DEF vars
<1> QED BY <1>2, <1>3, <1>4, <1>5, <1>6, <1>7, <1>8, <1>9, <1>10, <1>11, WaitStep, ServeStep DEF Next

(* At boot there are no processes but init.                                 *)
LEMMA InitHolds == ASSUME NTTY \in Nat \ {0}, Init PROVE IndInv
<1>1. 1 \in Ttys /\ 0 \in Int /\ -1 \in Int
  BY DEF Ttys
<1>2. NoProcess \in Process
  BY <1>1, Zenon DEF NoProcess, Process, Programs, INIT
<1>3. Typed
  BY <1>1, <1>2 DEF Init, Typed
<1>4. \A p \in Slots : ~Used(p) /\ ~proc[p].leader
  BY DEF Init, Used, NoProcess
<1> QED BY <1>3, <1>4 DEF IndInv, Init, PidsDiffer, LeadersAdopted, Collected, OneSession

(* The loop of multi() keeps one session on each terminal and its pid in    *)
(* ttys[], whatever the sessions do and whenever they and their orphans end. *)
THEOREM SessionsKnown ==
    ASSUME SLOTS \in Nat, NTTY \in Nat \ {0}
    PROVE  Spec => []OneSession
<1>1. Init => IndInv
  BY InitHolds
<1>2. IndInv /\ [Next]_vars => IndInv'
  BY NextStep
<1>3. IndInv => OneSession
  BY DEF IndInv
<1> QED BY <1>1, <1>2, <1>3, PTL DEF Spec

-----------------------------------------------------------------------------
(* Who is logged in.                                                        *)
(* The files that libc reads: /etc/passwd and /etc/group are lists, and so  *)
(* are the members of a group.                                              *)
FilesRead ==
    /\ Passwd \in Seq(Range(Passwd)) /\ Group \in Seq(Range(Group))
    /\ \A g \in DOMAIN Group : Group[g].mem \in Seq(Range(Group[g].mem))
    /\ NGROUPS \in Nat /\ NGROUPS > 1 /\ NGROUPMEMB \in Nat

-----------------------------------------------------------------------------
(* Of two places in /etc/group one is before the other, and the order is    *)
(* that of the file.                                                        *)
LEMMA PlacesOrdered ==
    ASSUME NEW P \in SUBSET (Nat \X Nat)
    PROVE  /\ \A x \in P : NotAfter(x, x)
           /\ \A x, y \in P : NotAfter(x, y) \/ NotAfter(y, x)
           /\ \A x, y \in P : NotAfter(x, y) /\ NotAfter(y, x) => x = y
           /\ \A x, y, z \in P : NotAfter(x, y) /\ NotAfter(y, z) => NotAfter(x, z)
<1>1. \A x \in P : x[1] \in Nat /\ x[2] \in Nat /\ x = <<x[1], x[2]>>
  OBVIOUS
<1> QED BY <1>1 DEF NotAfter

(* Each place where the user is listed has a number, and each number up to  *)
(* that of the last place belongs to one.                                   *)
LEMMA PlacesNumbered ==
    ASSUME NEW P \in SUBSET (Nat \X Nat), IsFiniteSet(P)
    PROVE  /\ Cardinality(P) \in Nat
           /\ \A k \in 1 .. Cardinality(P) : Nth(P, k) \in P
           /\ \A l \in P : \E k \in 1 .. Cardinality(P) : Nth(P, k) = l
<1> DEFINE upto(l) == {x \in P : NotAfter(x, l)}
           rank == [l \in P |-> Cardinality(upto(l))]
           N == Cardinality(P)
<1>1. N \in Nat
  BY FS_CardinalityType
<1>2. /\ \A x \in P : NotAfter(x, x)
      /\ \A x, y \in P : NotAfter(x, y) \/ NotAfter(y, x)
      /\ \A x, y \in P : NotAfter(x, y) /\ NotAfter(y, x) => x = y
      /\ \A x, y, z \in P : NotAfter(x, y) /\ NotAfter(y, z) => NotAfter(x, z)
  BY PlacesOrdered
<1>3. \A x \in P : upto(x) \in SUBSET P /\ IsFiniteSet(upto(x)) /\ rank[x] \in 1 .. N
  <2> TAKE x \in P
  <2>1. upto(x) \in SUBSET P /\ x \in upto(x)
    BY <1>2
  <2> HIDE DEF upto
  <2>2. IsFiniteSet(upto(x)) /\ Cardinality(upto(x)) \in Nat /\ Cardinality(upto(x)) <= N /\ Cardinality(upto(x)) # 0
    BY <2>1, FS_Subset, FS_CardinalityType, FS_EmptySet
  <2> QED BY <1>1, <2>1, <2>2
<1>4. \A x, y \in P : rank[x] = rank[y] /\ NotAfter(x, y) => x = y
  <2> SUFFICES ASSUME NEW x \in P, NEW y \in P, rank[x] = rank[y], NotAfter(x, y) PROVE x = y
    OBVIOUS
  <2>1. upto(x) \in SUBSET upto(y) /\ y \in upto(y) /\ (y \in upto(x) => NotAfter(y, x))
    BY <1>2
  <2>2. IsFiniteSet(upto(y)) /\ Cardinality(upto(x)) = Cardinality(upto(y))
    BY <1>3
  <2> HIDE DEF upto
  <2>3. upto(y) = upto(x)
    BY <2>1, <2>2, FS_Subset
  <2> QED BY <1>2, <2>1, <2>3
<1>5. rank \in Injection(P, 1 .. N)
  <2>1. rank \in [P -> 1 .. N]
    BY <1>3
  <2>2. \A x, y \in P : rank[x] = rank[y] => x = y
    <3> HIDE DEF rank
    <3> QED BY <1>2, <1>4
  <2> HIDE DEF rank
  <2> QED BY <2>1, <2>2 DEF Injection, IsInjective
<1>6. IsFiniteSet(1 .. N) /\ Cardinality(1 .. N) = N
  BY <1>1, FS_Interval
<1>7. rank \in Surjection(P, 1 .. N)
  <2> HIDE DEF rank
  <2> QED BY <1>5, <1>6, FS_Injection
<1>8. \A n \in 1 .. N : \E l \in P : rank[l] = n
  <2> HIDE DEF rank
  <2> QED BY <1>7 DEF Surjection
<1>9. \A n \in 1 .. N : Nth(P, n) = CHOOSE l \in P : rank[l] = n
  <2>1. \A l \in P : Cardinality({x \in P : NotAfter(x, l)}) = rank[l]
    OBVIOUS
  <2> QED BY <2>1 DEF Nth
<1>10. \A n \in 1 .. N : Nth(P, n) \in P /\ rank[Nth(P, n)] = n
  <2> HIDE DEF rank
  <2> QED BY <1>8, <1>9
<1>11. ASSUME NEW l \in P PROVE \E k \in 1 .. N : Nth(P, k) = l
  <2>1. rank[l] \in 1 .. N
    BY <1>3
  <2>2. rank[Nth(P, rank[l])] = rank[l] /\ Nth(P, rank[l]) \in P
    <3> HIDE DEF rank
    <3> QED BY <1>10, <2>1
  <2>3. Nth(P, rank[l]) = l
    <3> HIDE DEF rank
    <3> QED BY <1>5, <2>2 DEF Injection, IsInjective
  <2> QED BY <2>1, <2>3
<1> QED BY <1>1, <1>10, <1>11

(* The places of a user in /etc/group are pairs of numbers, finitely many.  *)
LEMMA ListedPlaces ==
    ASSUME FilesRead, NEW name
    PROVE  Listed(name) \in SUBSET (Nat \X Nat) /\ IsFiniteSet(Listed(name))
<1>1. IsFiniteSet(1 .. Len(Group)) /\ IsFiniteSet(1 .. NGROUPMEMB) /\ DOMAIN Group = 1 .. Len(Group)
  BY FS_Interval DEF FilesRead
<1>2. IsFiniteSet((1 .. Len(Group)) \X (1 .. NGROUPMEMB))
  BY <1>1, FS_Product
<1>3. Listed(name) \in SUBSET ((1 .. Len(Group)) \X (1 .. NGROUPMEMB))
  BY <1>1 DEF Listed
<1>4. IsFiniteSet(Listed(name))
  BY <1>2, <1>3, FS_Subset
<1>5. 1 .. Len(Group) \subseteq Nat /\ 1 .. NGROUPMEMB \subseteq Nat
  BY DEF FilesRead
<1> QED BY <1>3, <1>4, <1>5

(* getgrouplist(): the group of the entry first, then groups of the user    *)
(* only, and all of them when the list is not full.                         *)
LEMMA GroupsFound ==
    ASSUME FilesRead, NEW name, NEW base
    PROVE  LET gs == getgrouplist(name, base)
               mine == {g \in Range(Group) : \E m \in DOMAIN g.mem : m <= NGROUPMEMB /\ g.mem[m] = name}
           IN /\ gs[1] = base /\ Len(gs) <= NGROUPS
              /\ Range(Tail(gs)) \subseteq {g.gid : g \in mine}
              /\ Len(gs) < NGROUPS => {g.gid : g \in mine} \subseteq Range(gs)
<1> DEFINE P == Listed(name)
           N == Cardinality(P)
           gs == getgrouplist(name, base)
           mine == {g \in Range(Group) : \E m \in DOMAIN g.mem : m <= NGROUPMEMB /\ g.mem[m] = name}
           L == Min({NGROUPS, 1 + N})
<1>1. P \in SUBSET (Nat \X Nat) /\ IsFiniteSet(P)
  BY ListedPlaces
<1>2. /\ N \in Nat /\ \A k \in 1 .. N : Nth(P, k) \in P
      /\ \A l \in P : \E k \in 1 .. N : Nth(P, k) = l
  <2> HIDE DEF P
  <2> QED BY <1>1, PlacesNumbered
<1>3. NGROUPS \in Nat /\ NGROUPS > 1 /\ NGROUPMEMB \in Nat /\ Group \in Seq(Range(Group))
  BY DEF FilesRead
<1>4. L = IF NGROUPS <= 1 + N THEN NGROUPS ELSE 1 + N
  <2> HIDE DEF N
  <2> QED BY <1>2, <1>3, Lesser
<1>5. L \in Nat /\ 1 <= L /\ L <= NGROUPS /\ L <= 1 + N /\ (L < NGROUPS => L = 1 + N)
  <2> HIDE DEF N, L
  <2> QED BY <1>2, <1>3, <1>4
<1>6. gs = [k \in 1 .. L |-> IF k = 1 THEN base ELSE Group[Nth(P, k - 1)[1]].gid]
  BY DEF getgrouplist, GroupList
<1>7. ASSUME NEW l \in P PROVE l[1] \in DOMAIN Group /\ Group[l[1]] \in mine
  <2>1. /\ l[1] \in DOMAIN Group /\ l[2] \in 1 .. NGROUPMEMB
        /\ l[2] \in DOMAIN Group[l[1]].mem /\ Group[l[1]].mem[l[2]] = name
    BY DEF Listed
  <2>2. Group[l[1]] \in Range(Group)
    BY <2>1 DEF Range
  <2> QED BY <1>3, <2>1, <2>2
<1>8. ASSUME NEW g \in mine PROVE \E l \in P : Group[l[1]] = g
  <2>1. PICK d \in DOMAIN Group : Group[d] = g
    BY DEF Range
  <2>2. PICK m \in DOMAIN g.mem : m <= NGROUPMEMB /\ g.mem[m] = name
    OBVIOUS
  <2>3. g.mem \in Seq(Range(g.mem))
    BY <2>1 DEF FilesRead
  <2>4. m \in 1 .. NGROUPMEMB
    BY <1>3, <2>2, <2>3
  <2>5. <<d, m>> \in P
    BY <2>1, <2>2, <2>4 DEF Listed
  <2> QED BY <2>1, <2>5
<1> HIDE DEF P, N, L, mine, gs
<1> DEFINE S == {base} \cup {g.gid : g \in mine}
<1>9. ASSUME NEW k \in 2 .. L PROVE gs[k] \in {g.gid : g \in mine}
  <2>1. k - 1 \in 1 .. N /\ k # 1 /\ k \in 1 .. L
    BY <1>2, <1>5
  <2>2. Nth(P, k - 1) \in P
    BY <1>2, <2>1
  <2> QED BY <1>6, <1>7, <2>1, <2>2
<1>10. gs[1] = base
  BY <1>5, <1>6
<1>11. gs \in Seq(S) /\ Len(gs) = L
  <2>1. \A k \in 1 .. L : k = 1 \/ k \in 2 .. L
    BY <1>5
  <2>2. \A k \in 1 .. L : gs[k] \in S
    BY <1>9, <1>10, <2>1
  <2>3. gs \in [1 .. L -> S]
    BY <1>6, <2>2
  <2> HIDE DEF S
  <2> QED BY <1>5, <2>3
<1>12. Range(Tail(gs)) \subseteq {g.gid : g \in mine}
  <2> SUFFICES ASSUME NEW j \in DOMAIN Tail(gs) PROVE Tail(gs)[j] \in {g.gid : g \in mine}
    BY DEF Range
  <2>1. Tail(gs) \in Seq(S) /\ Len(Tail(gs)) = L - 1 /\ \A x \in 1 .. L - 1 : Tail(gs)[x] = gs[x + 1]
    <3> HIDE DEF S
    <3> QED BY <1>5, <1>11
  <2>2. j \in 1 .. L - 1
    <3> HIDE DEF S
    <3> QED BY <1>5, <2>1
  <2>3. j + 1 \in 2 .. L
    BY <1>5, <2>2
  <2> QED BY <1>9, <2>1, <2>2, <2>3
<1>13. ASSUME L < NGROUPS, NEW g \in mine PROVE g.gid \in Range(gs)
  <2>1. PICK l \in P : Group[l[1]] = g
    BY <1>8
  <2>2. PICK k \in 1 .. N : Nth(P, k) = l
    BY <1>2
  <2>3. k + 1 \in 1 .. L /\ k + 1 # 1 /\ (k + 1) - 1 = k
    BY <1>2, <1>5, <1>13, <2>2
  <2>4. gs[k + 1] = g.gid
    BY <1>6, <2>1, <2>2, <2>3
  <2>5. k + 1 \in DOMAIN gs
    BY <1>6, <2>3
  <2> QED BY <2>4, <2>5 DEF Range
<1> QED BY <1>5, <1>10, <1>11, <1>12, <1>13 DEF gs, mine
-----------------------------------------------------------------------------
(* The entry that getpwnam() finds is the first of the name.                *)
LEMMA FirstEntry ==
    ASSUME FilesRead, NEW name, Entries(name) # {}
    PROVE  getpwnam(name) = Passwd[CHOOSE e \in DOMAIN Passwd :
             Passwd[e].name = name /\ \A d \in DOMAIN Passwd : d < e => Passwd[d].name # name]
<1> DEFINE first(e) == Passwd[e].name = name /\ \A d \in DOMAIN Passwd : d < e => Passwd[d].name # name
           E == Entries(name)
<1>1. DOMAIN Passwd \subseteq Nat
  BY DEF FilesRead
<1>2. E \in SUBSET Nat /\ E # {}
  BY <1>1 DEF Entries
<1>3. Min(E) \in E /\ \A y \in E : Min(E) <= y
  <2> HIDE DEF E
  <2> QED BY <1>2, Lowest
<1>4. \A d \in DOMAIN Passwd : d \in E <=> Passwd[d].name = name
  BY DEF Entries
<1>5. Min(E) \in DOMAIN Passwd
  BY <1>3 DEF Entries
<1> HIDE DEF E
<1>6. first(Min(E))
  BY <1>1, <1>3, <1>4, <1>5
<1>7. ASSUME NEW e \in DOMAIN Passwd, first(e) PROVE e = Min(E)
  <2>1. e \in E /\ e \in Nat /\ Min(E) \in Nat
    BY <1>1, <1>4, <1>5, <1>7
  <2>2. ~(Min(E) < e)
    BY <1>3, <1>4, <1>5, <1>7
  <2> QED BY <1>3, <2>1, <2>2
<1>8. Min(E) = CHOOSE e \in DOMAIN Passwd : first(e)
  <2> HIDE DEF first
  <2> QED BY <1>5, <1>6, <1>7
<1> QED BY <1>8 DEF getpwnam, E

(* What login has found out about the user by the time that it sets the     *)
(* groups, and what they are then.                                          *)
Proven(c) ==
    Entries(c.name) # {} /\ getpwnam(c.name).passwd = Crypt[c.key] /\ c.gid = getpwnam(c.name).gid
Grouped(c) == c.groups = c.from \/ c.groups = getgrouplist(c.name, getpwnam(c.name).gid)

(* How far the credentials of a process are those of the user, by the place *)
(* where it is in login.                                                    *)
Known(p) ==
    /\ Running(p, "login") => cred[p].groups = cred[p].from
    /\ Running(p, "setgroups") => Proven(cred[p]) /\ cred[p].groups = cred[p].from
    /\ Running(p, "setuid") => Proven(cred[p]) /\ Grouped(cred[p])
    /\ Running(p, "sh") /\ cred[p].name # "" =>
         Proven(cred[p]) /\ Grouped(cred[p]) /\ cred[p].uid = getpwnam(cred[p].name).uid

Fields == {"uid", "gid", "groups", "name", "key", "from"}
IsCred(c) == c = [f \in Fields |-> c[f]]
CredTyped == cred = [p \in Slots |-> cred[p]] /\ \A p \in Slots : IsCred(cred[p])

CredInv == CredTyped /\ \A p \in Slots : Known(p)

(* A process that goes on as it was, or that no longer runs, keeps what is  *)
(* known of it.                                                             *)
LEMMA KnownKept ==
    ASSUME NEW p \in Slots, Known(p), cred'[p] = cred[p],
           proc'[p].state = "run" => proc[p].state = "run" /\ proc'[p].prog = proc[p].prog
    PROVE  Known(p)'
BY DEF Known, Running, Proven, Grouped

(* A step that leaves the credentials alone, and every program that runs.   *)
LEMMA CredsKept ==
    ASSUME CredInv, UNCHANGED cred,
           \A p \in Slots : proc'[p].state = "run" => proc[p].state = "run" /\ proc'[p].prog = proc[p].prog
    PROVE  CredInv'
<1>1. CredTyped'
  BY DEF CredInv, CredTyped
<1>2. \A p \in Slots : Known(p)'
  BY KnownKept DEF CredInv
<1> QED BY <1>1, <1>2 DEF CredInv

(* fork(): the new process has the credentials that are given for it.       *)
LEMMA CredsForked ==
    ASSUME SLOTS \in Nat, IndInv, CredInv, CanFork, NEW new \in Process, NEW who, IsCred(who),
           proc' = [proc EXCEPT ![Slot] = new], cred' = [cred EXCEPT ![Slot] = who],
           new.prog = "login" => who.groups = who.from,
           new.prog \in {"login", "getty"} \/ (new.prog = "sh" /\ who.name = "")
    PROVE  CredInv'
<1> DEFINE s == Slot
<1>1. s \in Slots
  BY FreshSlot
<1>2. proc \in [Slots -> Process] /\ proc' = [proc EXCEPT ![s] = new] /\ cred' = [cred EXCEPT ![s] = who]
  BY DEF IndInv, Typed
<1>3. cred = [p \in Slots |-> cred[p]] /\ \A p \in Slots : IsCred(cred[p]) /\ Known(p)
  BY DEF CredInv, CredTyped
<1> HIDE DEF s
<1>4. proc'[s] = new /\ cred'[s] = who /\ cred' = [p \in Slots |-> cred'[p]]
      /\ \A p \in Slots : p # s => proc'[p] = proc[p] /\ cred'[p] = cred[p]
  BY <1>1, <1>2, <1>3
<1>5. CredTyped'
  <2>1. \A p \in Slots : IsCred(cred'[p])
    BY <1>1, <1>3, <1>4
  <2> QED BY <1>4, <2>1 DEF CredTyped
<1>6. ASSUME NEW p \in Slots PROVE Known(p)'
  <2>1. CASE p = s
    BY <1>4, <2>1 DEF Known, Running
  <2>2. CASE p # s
    BY <1>3, <1>4, <2>2, KnownKept
  <2> QED BY <2>1, <2>2
<1> QED BY <1>5, <1>6 DEF CredInv

(* A process changes its own program and credentials.                       *)
LEMMA CredsSet ==
    ASSUME IndInv, CredInv, NEW p \in Slots, NEW prog, NEW c, IsCred(c),
           proc' = [proc EXCEPT ![p].prog = prog], cred' = [cred EXCEPT ![p] = c],
           \/ prog = "login" /\ c.groups = c.from
           \/ prog = "setgroups" /\ Proven(c) /\ c.groups = c.from
           \/ prog = "setuid" /\ Proven(c) /\ Grouped(c)
           \/ prog = "sh" /\ Proven(c) /\ Grouped(c) /\ c.uid = getpwnam(c.name).uid
    PROVE  CredInv'
<1>1. proc \in [Slots -> Process]
  BY DEF IndInv, Typed
<1>2. cred = [q \in Slots |-> cred[q]] /\ \A q \in Slots : IsCred(cred[q]) /\ Known(q)
  BY DEF CredInv, CredTyped
<1>3. cred'[p] = c /\ cred' = [q \in Slots |-> cred'[q]]
      /\ \A q \in Slots : q # p => proc'[q] = proc[q] /\ cred'[q] = cred[q]
  BY <1>1, <1>2
<1>4. proc'[p].prog = prog
  <2>1. proc[p] \in Process
    BY <1>1
  <2>2. proc'[p] = [proc[p] EXCEPT !.prog = prog]
    BY <1>1
  <2> QED BY <2>1, <2>2 DEF Process
<1>5. CredTyped'
  <2>1. \A q \in Slots : IsCred(cred'[q])
    BY <1>2, <1>3
  <2> QED BY <1>3, <2>1 DEF CredTyped
<1>6. ASSUME NEW q \in Slots PROVE Known(q)'
  <2>1. CASE q = p
    <3>1. cred'[q] = c /\ proc'[q].prog = prog
      BY <1>3, <1>4, <2>1
    <3> QED BY <3>1 DEF Known, Running, Proven, Grouped
  <2>2. CASE q # p
    BY <1>2, <1>3, <2>2, KnownKept
  <2> QED BY <2>1, <2>2
<1> QED BY <1>5, <1>6 DEF CredInv

(* Credentials with some fields replaced are credentials.                   *)
LEMMA NamedIs ==
    ASSUME NEW c, IsCred(c), NEW name
    PROVE  IsCred(Named(c, name)) /\ Named(c, name).groups = Named(c, name).from
BY DEF IsCred, Named, Fields

(* The steps of login and its like keep what is known of every process.     *)
LEMMA CredStep == ASSUME SLOTS \in Nat, NTTY \in Nat \ {0}, IndInv, CredInv, [Next]_vars PROVE CredInv'
<1>1. proc \in [Slots -> Process] /\ t \in Nat \ {0} /\ nextpid \in Int /\ INIT \in Int
  BY DEF IndInv, Typed, INIT
<1>2. cred = [q \in Slots |-> cred[q]] /\ \A q \in Slots : IsCred(cred[q]) /\ Known(q)
  BY DEF CredInv, CredTyped
<1>3. IsCred(Root) /\ Root.name = ""
  BY DEF IsCred, Fields, Root
<1>4. CASE Single
  <2>1. PICK new : new = [state |-> "run", pid |-> nextpid, parent |-> INIT, prog |-> "sh", tty |-> 1, leader |-> FALSE]
    OBVIOUS
  <2>2. 1 \in Ttys
    BY DEF Ttys
  <2>3. new \in Process
    BY <1>1, <2>1, <2>2, Zenon DEF Process, Programs
  <2>4. proc' = [proc EXCEPT ![Slot] = new] /\ cred' = [cred EXCEPT ![Slot] = Root] /\ CanFork
    BY <1>4, <2>1 DEF Single, Forked
  <2>5. new.prog = "sh"
    BY <2>1
  <2> QED BY <1>3, <2>3, <2>4, <2>5, CredsForked
<1>5. CASE Serve
  <2>1. PICK new : new = [state |-> "run", pid |-> nextpid, parent |-> INIT,
                          prog |-> "getty", tty |-> t, leader |-> TRUE]
    OBVIOUS
  <2>2. t \in Ttys
    BY <1>1, <1>5 DEF Ttys, Serve, AtTty
  <2>3. new \in Process
    BY <1>1, <2>1, <2>2, Zenon DEF Process, Programs
  <2>4. proc' = [proc EXCEPT ![Slot] = new] /\ cred' = [cred EXCEPT ![Slot] = Root] /\ CanFork
    BY <1>5, <2>1 DEF Serve, Forked
  <2>5. new.prog = "getty"
    BY <2>1
  <2> QED BY <1>3, <2>3, <2>4, <2>5, CredsForked
<1>6. ASSUME NEW p \in Slots, RunLogin(p) PROVE CredInv'
  <2>1. PICK new : new = [state |-> "run", pid |-> nextpid, parent |-> p, prog |-> "login", tty |-> proc[p].tty,
                          leader |-> FALSE]
    OBVIOUS
  <2>2. p \in Int /\ proc[p].tty \in Ttys
    BY <1>1 DEF Slots, Process
  <2>3. new \in Process
    BY <1>1, <2>1, <2>2, Zenon DEF Process, Programs
  <2>4. PICK name \in LoginNames :
          proc' = [proc EXCEPT ![Slot] = new] /\ cred' = [cred EXCEPT ![Slot] = Named(cred[p], name)] /\ CanFork
    BY <1>6, <2>1 DEF RunLogin, Forked
  <2>5. IsCred(Named(cred[p], name)) /\ Named(cred[p], name).groups = Named(cred[p], name).from
    BY <1>2, NamedIs
  <2>6. new.prog = "login"
    BY <2>1
  <2> QED BY <2>3, <2>4, <2>5, <2>6, CredsForked
<1>7. ASSUME NEW z \in Slots, proc' = [proc EXCEPT ![z] = NoProcess], UNCHANGED cred PROVE CredInv'
  <2>1. \A p \in Slots : proc'[p].state = "run" => proc'[p] = proc[p]
    BY <1>1, <1>7 DEF NoProcess
  <2> QED BY <1>7, <2>1, CredsKept
<1>8. ASSUME UNCHANGED <<proc, cred>> PROVE CredInv'
  BY <1>8, CredsKept
<1>9. ASSUME NEW p \in Slots, proc' = Exited(p), UNCHANGED cred PROVE CredInv'
  <2>1. ASSUME NEW q \in Slots, proc'[q].state = "run" PROVE proc[q].state = "run" /\ proc'[q].prog = proc[q].prog
    <3>1. proc[q] \in Process
      BY <1>1
    <3>2. proc'[q] = IF q = p THEN [proc[p] EXCEPT !.state = "zombie"]
                     ELSE IF proc[q].state # "null" /\ proc[q].parent = p THEN [proc[q] EXCEPT !.parent = INIT]
                     ELSE proc[q]
      BY <1>9 DEF Exited
    <3> QED BY <2>1, <3>1, <3>2 DEF Process
  <2> QED BY <1>9, <2>1, CredsKept
<1>10. CASE SingleWait \/ Wait
  BY <1>7, <1>8, <1>10 DEF SingleWait, Wait, Zombies
<1>11. CASE ServeNot \/ Served
  BY <1>8, <1>11 DEF ServeNot, Served
<1>12. ASSUME NEW p \in Slots, Reap(p) PROVE CredInv'
  BY <1>7, <1>12 DEF Reap, Zombies
<1>13. ASSUME NEW p \in Slots, Exit(p) PROVE CredInv'
  BY <1>9, <1>13 DEF Exit
<1>14. ASSUME NEW p \in Slots, Getty(p) PROVE CredInv'
  <2>1. PICK name \in LoginNames : cred' = [cred EXCEPT ![p] = Named(cred[p], name)]
    BY <1>14 DEF Getty
  <2>2. IsCred(Named(cred[p], name)) /\ Named(cred[p], name).groups = Named(cred[p], name).from
    BY <1>2, NamedIs
  <2>3. proc' = [proc EXCEPT ![p].prog = "login"]
    BY <1>14 DEF Getty
  <2> QED BY <2>1, <2>2, <2>3, CredsSet
<1>15. ASSUME NEW p \in Slots, Password(p) PROVE CredInv'
  <2>1. CASE proc' = Exited(p) /\ UNCHANGED cred
    BY <1>9, <2>1
  <2>2. ASSUME NEW key \in Passwords, Matches(cred[p].name, key), proc' = [proc EXCEPT ![p].prog = "setgroups"],
               cred' = [cred EXCEPT ![p].key = key, ![p].gid = getpwnam(cred[p].name).gid]
        PROVE  CredInv'
    <3>1. PICK c : c = [cred[p] EXCEPT !.key = key, !.gid = getpwnam(cred[p].name).gid]
      OBVIOUS
    <3>2. /\ IsCred(c) /\ c.name = cred[p].name /\ c.key = key /\ c.gid = getpwnam(cred[p].name).gid
          /\ c.groups = cred[p].groups /\ c.from = cred[p].from
      BY <1>2, <3>1 DEF IsCred, Fields
    <3>3. cred' = [cred EXCEPT ![p] = c]
      BY <1>2, <2>2, <3>1
    <3>4. Proven(c)
      BY <2>2, <3>2 DEF Matches, Proven
    <3>5. c.groups = c.from
      BY <1>2, <1>15, <3>2 DEF Known, Password
    <3> QED BY <2>2, <3>2, <3>3, <3>4, <3>5, CredsSet
  <2> QED BY <1>15, <2>1, <2>2 DEF Password
<1>16. ASSUME NEW p \in Slots, Initgroups(p) PROVE CredInv'
  <2>1. Proven(cred[p]) /\ cred[p].groups = cred[p].from /\ IsCred(cred[p])
    BY <1>2, <1>16 DEF Known, Initgroups
  <2>2. PICK c : c = IF UNCHANGED cred THEN cred[p]
                     ELSE [cred[p] EXCEPT !.groups = getgrouplist(cred[p].name, getpwnam(cred[p].name).gid)]
    OBVIOUS
  <2>3. cred' = [cred EXCEPT ![p] = c]
    BY <1>2, <1>16, <2>2 DEF Initgroups
  <2>4. /\ IsCred(c) /\ c.name = cred[p].name /\ c.key = cred[p].key /\ c.gid = cred[p].gid /\ c.from = cred[p].from
        /\ c.groups \in {cred[p].groups, getgrouplist(c.name, getpwnam(c.name).gid)}
    BY <2>1, <2>2 DEF IsCred, Fields
  <2>5. Proven(c) /\ Grouped(c)
    BY <2>1, <2>4 DEF Proven, Grouped
  <2>6. proc' = [proc EXCEPT ![p].prog = "setuid"]
    BY <1>16 DEF Initgroups
  <2> QED BY <2>3, <2>4, <2>5, <2>6, CredsSet
<1>17. ASSUME NEW p \in Slots, Setuid(p) PROVE CredInv'
  <2>1. Proven(cred[p]) /\ Grouped(cred[p]) /\ IsCred(cred[p])
    BY <1>2, <1>17 DEF Known, Setuid
  <2>2. PICK c : c = [cred[p] EXCEPT !.uid = getpwnam(cred[p].name).uid]
    OBVIOUS
  <2>3. cred' = [cred EXCEPT ![p] = c]
    BY <1>2, <1>17, <2>2 DEF Setuid
  <2>4. /\ IsCred(c) /\ c.name = cred[p].name /\ c.key = cred[p].key /\ c.gid = cred[p].gid /\ c.from = cred[p].from
        /\ c.groups = cred[p].groups /\ c.uid = getpwnam(c.name).uid
    BY <2>1, <2>2 DEF IsCred, Fields
  <2>5. Proven(c) /\ Grouped(c)
    BY <2>1, <2>4 DEF Proven, Grouped
  <2>6. proc' = [proc EXCEPT ![p].prog = "sh"]
    BY <1>17 DEF Setuid
  <2> QED BY <2>3, <2>4, <2>5, <2>6, CredsSet
<1>18. CASE UNCHANGED vars
  BY <1>8, <1>18 DEF vars
<1> QED BY <1>4, <1>5, <1>6, <1>10, <1>11, <1>12, <1>13, <1>14, <1>15, <1>16, <1>17, <1>18 DEF Next

(* What is known of a shell is what Identified says.                        *)
LEMMA KnownIdentified == ASSUME FilesRead, CredInv PROVE Identified
<1> SUFFICES ASSUME NEW p \in Slots, Running(p, "sh"), cred[p].name # ""
             PROVE  LET me == cred[p]
                        entry == getpwnam(me.name)
                        mine == {g \in Range(Group) : \E m \in DOMAIN g.mem : m <= NGROUPMEMB /\ g.mem[m] = me.name}
                    IN /\ entry.passwd = Crypt[me.key] /\ me.uid = entry.uid /\ me.gid = entry.gid
                       /\ \/ me.groups = me.from
                          \/ /\ me.groups[1] = entry.gid /\ Len(me.groups) <= NGROUPS
                             /\ Range(Tail(me.groups)) \subseteq {g.gid : g \in mine}
                             /\ Len(me.groups) < NGROUPS => {g.gid : g \in mine} \subseteq Range(me.groups)
  <2>1. \A p \in Slots : Running(p, "sh") /\ cred[p].name # "" => Entries(cred[p].name) # {}
    BY DEF CredInv, Known, Proven
  <2> QED BY <2>1, FirstEntry, ZenonT(40) DEF Identified
<1>1. Proven(cred[p]) /\ Grouped(cred[p]) /\ cred[p].uid = getpwnam(cred[p].name).uid
  BY DEF CredInv, Known
<1> DEFINE gid == getpwnam(cred[p].name).gid
           gs == getgrouplist(cred[p].name, gid)
           mine == {g \in Range(Group) : \E m \in DOMAIN g.mem : m <= NGROUPMEMB /\ g.mem[m] = cred[p].name}
<1>2. /\ gs[1] = gid /\ Len(gs) <= NGROUPS
      /\ Range(Tail(gs)) \subseteq {g.gid : g \in mine}
      /\ Len(gs) < NGROUPS => {g.gid : g \in mine} \subseteq Range(gs)
  BY GroupsFound, Zenon
<1>3. cred[p].groups = cred[p].from \/ cred[p].groups = gs
  BY <1>1 DEF Grouped
<1> HIDE DEF gs, mine, gid
<1>4. \/ cred[p].groups = cred[p].from
      \/ /\ cred[p].groups[1] = gid /\ Len(cred[p].groups) <= NGROUPS
         /\ Range(Tail(cred[p].groups)) \subseteq {g.gid : g \in mine}
         /\ Len(cred[p].groups) < NGROUPS => {g.gid : g \in mine} \subseteq Range(cred[p].groups)
  BY <1>2, <1>3, Zenon
<1> QED BY <1>1, <1>4, Zenon DEF Proven, gid, mine

(* A shell that login started has the rights of the user whose password was *)
(* given, and no others, for any /etc/passwd and /etc/group, whatever the   *)
(* other processes do.                                                      *)
THEOREM UsersIdentified ==
    ASSUME SLOTS \in Nat, NTTY \in Nat \ {0}, FilesRead
    PROVE  Spec => []Identified
<1>1. Init => IndInv /\ CredInv
  <2> SUFFICES ASSUME Init PROVE IndInv /\ CredInv
    OBVIOUS
  <2>1. \A p \in Slots : proc[p].state = "null" /\ cred[p] = Root
    BY DEF Init, NoProcess
  <2>2. IsCred(Root)
    BY DEF IsCred, Fields, Root
  <2>3. CredInv
    BY <2>1, <2>2 DEF CredInv, CredTyped, Known, Running, Init
  <2> QED BY <2>3, InitHolds
<1>2. IndInv /\ CredInv /\ [Next]_vars => IndInv' /\ CredInv'
  BY NextStep, CredStep
<1>3. CredInv => Identified
  BY KnownIdentified
<1> QED BY <1>1, <1>2, <1>3, PTL DEF Spec

-----------------------------------------------------------------------------
(* The shell.                                                               *)
Everyone == {R!Sh} \cup R!Children

(* The descriptors of the shell in exec_pipeline(), and those a child has   *)
(* from it: the terminal, then both ends of each pipe in their order.       *)
Laid(tab, ps) ==
    /\ tab = [f \in R!Fds |-> tab[f]]
    /\ \E S : ps \in Seq(S)
    /\ 2 * Len(ps) + 3 <= NFILE
    /\ \A k \in 1 .. Len(ps) :
         /\ ps[k].r = 2 * k + 1 /\ ps[k].w = 2 * k + 2
         /\ tab[2 * k + 1] = R!R(ps[k].id) /\ tab[2 * k + 2] = R!W(ps[k].id)
    /\ \A f \in R!Fds : (f < 3 => tab[f] = R!Tty) /\ (f > 2 * Len(ps) + 2 => tab[f] = R!None)

(* What a child has as its input and output: the pipes, until it has come   *)
(* to the redirections, and then what these say.                            *)
FromPipe(j) == IF j.cmd > 1 THEN R!R(j.pipes[j.cmd - 1].id) ELSE R!Tty
ToPipe(j) == IF j.cmd < j.n THEN R!W(j.pipes[j.cmd].id) ELSE R!Tty
FromFile(j) == IF j.input THEN R!Input ELSE FromPipe(j)
ToFile(j) == IF j.output THEN R!Output ELSE ToPipe(j)

(* A table of descriptors that the child got from the shell, with another   *)
(* input and output.                                                        *)
Joined(tab, j, in, out) == \E u : Laid(u, j.pipes) /\ tab = [u EXCEPT ![0] = in, ![1] = out]

JobFields == {"cmd", "n", "pipes", "input", "output"}
IsJob(j) == j = [f \in JobFields |-> j[f]]
JobOk(j) ==
    /\ j.n \in Nat /\ j.cmd \in 1 .. j.n /\ Len(j.pipes) = j.n - 1 /\ 2 * j.n + 1 <= NFILE
    /\ j.input \in BOOLEAN /\ j.output \in BOOLEAN

ChildOk(c) ==
    /\ IsJob(job[c])
    /\ st[c] \in {"connect", "redirect", "exec", "run"} => JobOk(job[c])
    /\ st[c] = "connect" => Laid(fds[c], job[c].pipes)
    /\ st[c] = "redirect" => Joined(fds[c], job[c], FromPipe(job[c]), ToPipe(job[c]))
    /\ st[c] = "exec" => Joined(fds[c], job[c], FromFile(job[c]), ToFile(job[c]))
    /\ st[c] = "run" => fds[c] = [R!Terminal EXCEPT ![0] = FromFile(job[c]), ![1] = ToFile(job[c])]

LineOk ==
    /\ todo \in Seq(Seq(R!Commands))
    /\ \A k \in 1 .. Len(todo) : todo[k] # <<>>

ShellOk ==
    /\ pc \in {"pipe", "fork", "wait"} => todo # <<>>
    /\ pc # "exited" => Laid(fds[R!Sh], pipes)
    /\ pc \in {"prompt", "wait"} => Len(pipes) = 0
    /\ pc = "pipe" => Len(pipes) < Len(Head(todo))
    /\ pc = "fork" => i \in Nat \ {0} /\ Len(pipes) = Len(Head(todo)) - 1

ShTyped ==
    /\ fds = [c \in Everyone |-> fds[c]]
    /\ st \in [R!Children -> {"free", "connect", "redirect", "exec", "run", "zombie"}]
    /\ job = [c \in R!Children |-> job[c]]

ShInv == ShTyped /\ LineOk /\ ShellOk /\ \A c \in R!Children : ChildOk(c)

-----------------------------------------------------------------------------
(* open() and pipe() take the lowest descriptor that is not in use.         *)
LEMMA LowestFree ==
    ASSUME NFILE \in Nat, NEW tab, NEW n \in R!Fds, tab[n] = R!None, \A f \in R!Fds : f < n => tab[f] # R!None
    PROVE  R!Lowest(tab) = n
<1> DEFINE S == {f \in R!Fds : tab[f] = R!None}
<1>1. S \in SUBSET Nat /\ n \in S /\ \A y \in S : n <= y
  BY DEF R!Fds
<1>2. Min(S) \in S /\ \A y \in S : Min(S) <= y
  <2> HIDE DEF S
  <2> QED BY <1>1, Lowest
<1>3. Min(S) = n
  <2> HIDE DEF S
  <2>1. Min(S) \in Nat /\ n \in Nat
    BY <1>1, <1>2
  <2>2. Min(S) <= n /\ n <= Min(S)
    BY <1>1, <1>2
  <2> QED BY <2>1, <2>2
<1> QED BY <1>3 DEF R!Lowest, R!Unused, R!Min, Min

(* A descriptor above the terminal's is an end of one pipe.                 *)
LEMMA EndOf ==
    ASSUME NEW m \in Nat, NEW f \in Nat, f > 2, f <= 2 * m + 2
    PROVE  \E k \in 1 .. m : f = 2 * k + 1 \/ f = 2 * k + 2
<1> DEFINE k == (f - 1) \div 2
<1>1. k \in Int /\ (f - 1 = 2 * k \/ f - 1 = 2 * k + 1)
  OBVIOUS
<1> HIDE DEF k
<1>2. k \in 1 .. m
  BY <1>1
<1> QED BY <1>1, <1>2

(* The values that descriptors have are different.                          *)
LEMMA Different ==
    ASSUME NEW k
    PROVE  R!R(k) # R!None /\ R!W(k) # R!None /\ R!Tty # R!None /\ R!Input # R!None /\ R!Output # R!None
BY DEF R!R, R!W, R!None, R!Tty, R!Input, R!Output

(* The first free descriptor is behind the ends of the pipes.               *)
LEMMA FreeBehind ==
    ASSUME NFILE \in Nat, NEW tab, NEW ps, Laid(tab, ps)
    PROVE  /\ Len(ps) \in Nat /\ 2 * Len(ps) + 2 \in R!Fds
           /\ \A f \in R!Fds : tab[f] = R!None <=> f > 2 * Len(ps) + 2
           /\ R!Ends(ps) = 3 .. 2 * Len(ps) + 2
<1>1. PICK S : ps \in Seq(S)
  BY DEF Laid
<1>2. Len(ps) \in Nat /\ DOMAIN ps = 1 .. Len(ps) /\ R!Fds \subseteq Nat
  BY <1>1 DEF R!Fds
<1>3. 2 * Len(ps) + 2 \in R!Fds
  BY <1>2 DEF Laid, R!Fds
<1>4. ASSUME NEW f \in R!Fds, f <= 2 * Len(ps) + 2 PROVE tab[f] # R!None
  <2>1. CASE f < 3
    BY <2>1, Different DEF Laid
  <2>2. CASE ~(f < 3)
    <3>1. f \in Nat /\ f > 2
      BY <1>2, <2>2
    <3>2. PICK k \in 1 .. Len(ps) : f = 2 * k + 1 \/ f = 2 * k + 2
      BY <1>2, <1>4, <3>1, EndOf
    <3>3. tab[2 * k + 1] = R!R(ps[k].id) /\ tab[2 * k + 2] = R!W(ps[k].id)
      BY DEF Laid
    <3>4. R!R(ps[k].id) # R!None /\ R!W(ps[k].id) # R!None
      BY Different
    <3> QED BY <3>2, <3>3, <3>4
  <2> QED BY <2>1, <2>2
<1>5. \A f \in R!Fds : tab[f] = R!None <=> f > 2 * Len(ps) + 2
  BY <1>2, <1>4 DEF Laid
<1>6. R!Ends(ps) \subseteq 3 .. 2 * Len(ps) + 2
  <2> SUFFICES ASSUME NEW k \in 1 .. Len(ps) PROVE ps[k].r \in 3 .. 2 * Len(ps) + 2 /\ ps[k].w \in 3 .. 2 * Len(ps) + 2
    BY <1>2 DEF R!Ends
  <2>1. ps[k].r = 2 * k + 1 /\ ps[k].w = 2 * k + 2
    BY DEF Laid
  <2> QED BY <1>2, <2>1
<1>7. ASSUME NEW f \in 3 .. 2 * Len(ps) + 2 PROVE f \in R!Ends(ps)
  <2>1. PICK k \in 1 .. Len(ps) : f = 2 * k + 1 \/ f = 2 * k + 2
    <3>1. f \in Nat /\ f > 2 /\ f <= 2 * Len(ps) + 2
      BY <1>2
    <3> QED BY <1>2, <3>1, EndOf
  <2>2. f \in {ps[k].r, ps[k].w}
    BY <2>1 DEF Laid
  <2> QED BY <1>2, <2>2 DEF R!Ends
<1> QED BY <1>2, <1>3, <1>5, <1>6, <1>7

(* pipe(): its ends are the next two descriptors.                           *)
LEMMA PipeLaid ==
    ASSUME NFILE \in Nat, NEW tab, NEW ps, Laid(tab, ps), 2 * Len(ps) + 5 <= NFILE, NEW id
    PROVE  LET r == R!Lowest(tab)
               w == R!Lowest(R!Open(tab, R!R(id)))
           IN Laid(R!Open(R!Open(tab, R!R(id)), R!W(id)), Append(ps, [id |-> id, r |-> r, w |-> w]))
<1> DEFINE L == Len(ps)
           r == R!Lowest(tab)
           u == R!Open(tab, R!R(id))
           w == R!Lowest(u)
           v == R!Open(u, R!W(id))
           new == [id |-> id, r |-> r, w |-> w]
           qs == Append(ps, new)
<1>1. L \in Nat /\ \A f \in R!Fds : tab[f] = R!None <=> f > 2 * L + 2
  BY FreeBehind
<1>2. 2 * L + 3 \in R!Fds /\ 2 * L + 4 \in R!Fds /\ R!Fds \subseteq Nat /\ tab = [f \in R!Fds |-> tab[f]]
  BY <1>1 DEF R!Fds, Laid
<1> HIDE DEF L
<1>3. r = 2 * L + 3
  BY <1>1, <1>2, LowestFree
<1>4. u = [tab EXCEPT ![2 * L + 3] = R!R(id)]
  BY <1>3 DEF R!Open
<1>5. \A f \in R!Fds : u[f] = IF f = 2 * L + 3 THEN R!R(id) ELSE tab[f]
  BY <1>2, <1>4
<1>6. u = [f \in R!Fds |-> u[f]]
  BY <1>2, <1>4
<1> HIDE DEF u, r
<1>7. w = 2 * L + 4
  <2>1. u[2 * L + 4] = R!None
    BY <1>1, <1>2, <1>5
  <2>2. \A f \in R!Fds : f < 2 * L + 4 => u[f] # R!None
    BY <1>1, <1>2, <1>5, Different
  <2> QED BY <1>2, <2>1, <2>2, LowestFree
<1>8. v = [u EXCEPT ![2 * L + 4] = R!W(id)]
  BY <1>7 DEF R!Open
<1>9. /\ v = [f \in R!Fds |-> v[f]]
      /\ \A f \in R!Fds : v[f] = IF f = 2 * L + 4 THEN R!W(id) ELSE IF f = 2 * L + 3 THEN R!R(id) ELSE tab[f]
  BY <1>2, <1>5, <1>6, <1>8
<1> HIDE DEF v, w
<1>10. PICK S : ps \in Seq(S)
  BY DEF Laid
<1>11. qs \in Seq(S \cup {new}) /\ Len(qs) = L + 1 /\ qs[L + 1] = new /\ \A k \in 1 .. L : qs[k] = ps[k]
  <2> HIDE DEF new
  <2> QED BY <1>10 DEF L
<1>12. ASSUME NEW k \in 1 .. L + 1
       PROVE  /\ qs[k].r = 2 * k + 1 /\ qs[k].w = 2 * k + 2
              /\ v[2 * k + 1] = R!R(qs[k].id) /\ v[2 * k + 2] = R!W(qs[k].id)
  <2>1. CASE k = L + 1
    <3>1. 2 * k + 1 = 2 * L + 3 /\ 2 * k + 2 = 2 * L + 4 /\ 2 * L + 3 # 2 * L + 4
      BY <1>1, <2>1
    <3> HIDE DEF qs
    <3> QED BY <1>2, <1>3, <1>7, <1>9, <1>11, <2>1, <3>1
  <2>2. CASE k \in 1 .. L
    <3>1. /\ 2 * k + 1 \in R!Fds /\ 2 * k + 2 \in R!Fds
          /\ 2 * k + 1 < 2 * L + 3 /\ 2 * k + 2 < 2 * L + 3
      BY <1>1, <1>2, <2>2, SMTT(30) DEF R!Fds
    <3>2. v[2 * k + 1] = tab[2 * k + 1] /\ v[2 * k + 2] = tab[2 * k + 2]
      <4>1. ASSUME NEW f \in R!Fds, f \in Nat, f < 2 * L + 3 PROVE v[f] = tab[f]
        <5>1. f # 2 * L + 4 /\ f # 2 * L + 3
          BY <1>1, <4>1
        <5> QED BY <1>9, <5>1
      <4>2. 2 * k + 1 \in Nat /\ 2 * k + 2 \in Nat
        BY <2>2
      <4> QED BY <3>1, <4>1, <4>2
    <3>3. qs[k] = ps[k]
      BY <1>11, <2>2
    <3> HIDE DEF qs
    <3> QED BY <2>2, <3>2, <3>3 DEF Laid, L
  <2>3. k = L + 1 \/ k \in 1 .. L
    BY <1>1
  <2> QED BY <2>1, <2>2, <2>3
<1>13. \A f \in R!Fds : (f < 3 => v[f] = R!Tty) /\ (f > 2 * (L + 1) + 2 => v[f] = R!None)
  <2>1. \A f \in R!Fds : f < 3 => tab[f] = R!Tty
    BY DEF Laid
  <2> QED BY <1>1, <1>2, <1>9, <2>1
<1>14. 2 * (L + 1) + 3 <= NFILE
  BY <1>1 DEF L
<1> HIDE DEF qs, new
<1>15. Laid(v, qs)
  <2>1. \E T : qs \in Seq(T)
    BY <1>11
  <2> QED BY <1>9, <1>11, <1>12, <1>13, <1>14, <2>1 DEF Laid
<1> QED BY <1>15 DEF v, u, w, r, qs, new

(* dup2() of an end of a pipe, or of nothing.                               *)
LEMMA Connected ==
    ASSUME NFILE \in Nat, NEW tab, NEW j, JobOk(j), Laid(tab, j.pipes)
    PROVE  LET in == IF j.cmd > 1 THEN R!Dup2(tab, j.pipes[j.cmd - 1].r, 0) ELSE tab
               out == IF j.cmd < j.n THEN R!Dup2(in, j.pipes[j.cmd].w, 1) ELSE in
           IN Joined(out, j, FromPipe(j), ToPipe(j))
<1> DEFINE in == IF j.cmd > 1 THEN R!Dup2(tab, j.pipes[j.cmd - 1].r, 0) ELSE tab
           out == IF j.cmd < j.n THEN R!Dup2(in, j.pipes[j.cmd].w, 1) ELSE in
           ps == j.pipes
<1>1. /\ j.n \in Nat /\ j.cmd \in 1 .. j.n /\ Len(ps) = j.n - 1 /\ 2 * j.n + 1 <= NFILE
      /\ tab = [f \in R!Fds |-> tab[f]]
  BY DEF JobOk, Laid
<1>2. \A k \in 1 .. j.n - 1 :
        /\ ps[k].r = 2 * k + 1 /\ ps[k].w = 2 * k + 2
        /\ tab[2 * k + 1] = R!R(ps[k].id) /\ tab[2 * k + 2] = R!W(ps[k].id)
  BY <1>1 DEF Laid
<1>3. 0 \in R!Fds /\ 1 \in R!Fds /\ tab[0] = R!Tty /\ tab[1] = R!Tty
  <2>1. 0 \in R!Fds /\ 1 \in R!Fds
    BY <1>1 DEF R!Fds
  <2> QED BY <2>1 DEF Laid
<1>4. in = [tab EXCEPT ![0] = FromPipe(j)]
  <2>1. CASE j.cmd > 1
    <3>1. j.cmd - 1 \in 1 .. j.n - 1
      <4>1. j.n \in Nat /\ j.cmd \in 1 .. j.n
        BY <1>1
      <4> QED BY <2>1, <4>1
    <3>2. ps[j.cmd - 1].r = 2 * (j.cmd - 1) + 1 /\ tab[2 * (j.cmd - 1) + 1] = R!R(ps[j.cmd - 1].id)
      BY <1>2, <3>1
    <3>3. 2 * (j.cmd - 1) + 1 # -1
      BY <3>1
    <3>4. R!R(ps[j.cmd - 1].id) # R!None
      BY Different
    <3> QED BY <2>1, <3>2, <3>3, <3>4 DEF R!Dup2, FromPipe
  <2>2. CASE ~(j.cmd > 1)
    BY <1>1, <1>3, <2>2 DEF FromPipe
  <2> QED BY <2>1, <2>2
<1>5. in = [f \in R!Fds |-> IF f = 0 THEN FromPipe(j) ELSE tab[f]]
  BY <1>1, <1>3, <1>4
<1> HIDE DEF in
<1>6. out = [in EXCEPT ![1] = ToPipe(j)]
  <2>1. CASE j.cmd < j.n
    <3>1. j.cmd \in 1 .. j.n - 1 /\ 2 * j.cmd + 2 \in R!Fds /\ 2 * j.cmd + 2 # 0
      BY <1>1, <2>1, SMTT(30) DEF R!Fds
    <3>2. ps[j.cmd].w = 2 * j.cmd + 2 /\ tab[2 * j.cmd + 2] = R!W(ps[j.cmd].id)
      BY <1>2, <3>1
    <3>3. in[2 * j.cmd + 2] = R!W(ps[j.cmd].id) /\ 2 * j.cmd + 2 # -1
      BY <1>5, <3>1, <3>2
    <3>4. R!W(ps[j.cmd].id) # R!None
      BY Different
    <3> QED BY <2>1, <3>2, <3>3, <3>4 DEF R!Dup2, ToPipe
  <2>2. CASE ~(j.cmd < j.n)
    <3>1. in[1] = R!Tty /\ out = in /\ ToPipe(j) = R!Tty
      BY <1>3, <1>5, <2>2 DEF ToPipe
    <3> QED BY <1>5, <3>1
  <2> QED BY <2>1, <2>2
<1>7. out = [tab EXCEPT ![0] = FromPipe(j), ![1] = ToPipe(j)]
  BY <1>4, <1>6
<1> QED BY <1>7 DEF Joined, in

(* What is in a table of descriptors that a child has.                      *)
LEMMA JoinedHas ==
    ASSUME NFILE \in Nat, NEW tab, NEW j, JobOk(j), NEW in, NEW out, Joined(tab, j, in, out)
    PROVE  /\ tab = [f \in R!Fds |-> tab[f]] /\ 0 \in R!Fds /\ 1 \in R!Fds
           /\ tab[0] = in /\ tab[1] = out
           /\ \A f \in R!Fds \ {0, 1} : tab[f] = R!None <=> f > 2 * j.n
           /\ tab[2] = R!Tty
           /\ R!Ends(j.pipes) = 3 .. 2 * j.n
<1>1. PICK u : Laid(u, j.pipes) /\ tab = [u EXCEPT ![0] = in, ![1] = out]
  BY DEF Joined
<1>2. u = [f \in R!Fds |-> u[f]] /\ j.n \in Nat /\ j.n >= 1 /\ Len(j.pipes) = j.n - 1 /\ 2 * j.n + 1 <= NFILE
  BY <1>1 DEF Laid, JobOk
<1>3. 0 \in R!Fds /\ 1 \in R!Fds /\ 2 \in R!Fds
  BY <1>2 DEF R!Fds
<1>4. tab = [f \in R!Fds |-> IF f = 0 THEN in ELSE IF f = 1 THEN out ELSE u[f]]
  BY <1>1, <1>2, <1>3
<1>5. /\ \A f \in R!Fds : u[f] = R!None <=> f > 2 * Len(j.pipes) + 2
      /\ R!Ends(j.pipes) = 3 .. 2 * Len(j.pipes) + 2
  BY <1>1, FreeBehind
<1>6. 2 * Len(j.pipes) + 2 = 2 * j.n
  BY <1>2
<1>7. u[2] = R!Tty
  BY <1>1, <1>3 DEF Laid
<1> QED BY <1>3, <1>4, <1>5, <1>6, <1>7

(* open(), dup2() and close() of a redirection put the file in the place of *)
(* the descriptor, and leave the others.                                    *)
LEMMA OntoFile ==
    ASSUME NFILE \in Nat, NEW tab, NEW j, JobOk(j), NEW in, NEW out, Joined(tab, j, in, out),
           in # R!None, out # R!None, NEW onto, onto # R!None, NEW std \in {0, 1}, R!Unused(tab) # {}
    PROVE  R!Onto(tab, onto, std) = [tab EXCEPT ![std] = onto]
<1> DEFINE fd == 2 * j.n + 1
<1>1. /\ tab = [f \in R!Fds |-> tab[f]] /\ 0 \in R!Fds /\ 1 \in R!Fds
      /\ tab[0] = in /\ tab[1] = out
      /\ \A f \in R!Fds \ {0, 1} : tab[f] = R!None <=> f > 2 * j.n
  BY JoinedHas
<1>2. j.n \in Nat /\ j.n >= 1 /\ fd # 0 /\ fd # 1 /\ fd > 2 * j.n /\ fd # -1
  <2>1. j.n \in Nat /\ j.cmd \in 1 .. j.n
    BY DEF JobOk
  <2>2. j.n >= 1
    BY <2>1
  <2> QED BY <2>1, <2>2
<1>0. fd \in R!Fds
  <2>1. PICK f \in R!Fds : tab[f] = R!None
    BY DEF R!Unused
  <2>2. f \notin {0, 1}
    BY <1>1, <2>1
  <2>3. f > 2 * j.n
    BY <1>1, <2>1, <2>2
  <2> QED BY <1>2, <2>3 DEF R!Fds
<1>3. tab[fd] = R!None
  BY <1>1, <1>2, <1>0
<1>4. \A f \in R!Fds : f < fd => tab[f] # R!None
  BY <1>1, <1>2 DEF R!Fds
<1> HIDE DEF fd
<1>5. R!Lowest(tab) = fd
  BY <1>1, <1>3, <1>4, <1>0, LowestFree
<1>6. R!Open(tab, onto) = [tab EXCEPT ![fd] = onto]
  BY <1>5 DEF R!Open
<1> DEFINE o == [tab EXCEPT ![fd] = onto]
           d == [o EXCEPT ![std] = onto]
<1>7. R!Dup2(o, fd, std) = d
  BY <1>1, <1>2, <1>0 DEF R!Dup2
<1>8. R!Close(d, {fd}) = [f \in R!Fds |-> IF f = fd THEN R!None ELSE IF f = std THEN onto ELSE tab[f]]
  BY <1>1, <1>2, <1>0 DEF R!Close
<1>9. R!Close(d, {fd}) = [tab EXCEPT ![std] = onto]
  <2> HIDE DEF d
  <2> QED BY <1>1, <1>2, <1>3, <1>8, <1>0
<1> QED BY <1>5, <1>6, <1>7, <1>9 DEF R!Onto

(* close() of all pipes leaves the terminal and what was put in its place.  *)
LEMMA ClosedToRun ==
    ASSUME NFILE \in Nat, NEW tab, NEW j, JobOk(j), NEW in, NEW out, Joined(tab, j, in, out)
    PROVE  R!Close(tab, R!Ends(j.pipes)) = [R!Terminal EXCEPT ![0] = in, ![1] = out]
<1>1. /\ tab = [f \in R!Fds |-> tab[f]] /\ 0 \in R!Fds /\ 1 \in R!Fds
      /\ tab[0] = in /\ tab[1] = out /\ tab[2] = R!Tty
      /\ \A f \in R!Fds \ {0, 1} : tab[f] = R!None <=> f > 2 * j.n
      /\ R!Ends(j.pipes) = 3 .. 2 * j.n
  BY JoinedHas
<1>2. j.n \in Nat /\ j.n >= 1
  BY DEF JobOk
<1>3. R!Terminal = [f \in R!Fds |-> IF f < 3 THEN R!Tty ELSE R!None]
  BY DEF R!Terminal, R!Std, R!Fds
<1>4. [R!Terminal EXCEPT ![0] = in, ![1] = out] =
        [f \in R!Fds |-> IF f = 0 THEN in ELSE IF f = 1 THEN out ELSE IF f < 3 THEN R!Tty ELSE R!None]
  BY <1>1, <1>3
<1>5. ASSUME NEW f \in R!Fds
      PROVE  (IF f \in 3 .. 2 * j.n THEN R!None ELSE tab[f]) =
               IF f = 0 THEN in ELSE IF f = 1 THEN out ELSE IF f < 3 THEN R!Tty ELSE R!None
  <2>1. f \in Nat
    BY DEF R!Fds
  <2> QED BY <1>1, <1>2, <2>1
<1> QED BY <1>1, <1>4, <1>5 DEF R!Close

(* The same for the shell, which has nothing in the place of the terminal.  *)
LEMMA ClosedToWait ==
    ASSUME NFILE \in Nat, NEW tab, NEW ps, Laid(tab, ps)
    PROVE  R!Close(tab, R!Ends(ps)) = R!Terminal
<1>1. /\ Len(ps) \in Nat
      /\ \A f \in R!Fds : tab[f] = R!None <=> f > 2 * Len(ps) + 2
      /\ R!Ends(ps) = 3 .. 2 * Len(ps) + 2
  BY FreeBehind
<1>2. \A f \in R!Fds : f < 3 => tab[f] = R!Tty
  BY DEF Laid
<1>3. R!Terminal = [f \in R!Fds |-> IF f < 3 THEN R!Tty ELSE R!None]
  BY DEF R!Terminal, R!Std, R!Fds
<1>4. R!Fds \subseteq Nat
  BY DEF R!Fds
<1> QED BY <1>1, <1>2, <1>3, <1>4 DEF R!Close

(* The terminal alone, before there are pipes.                              *)
LEMMA LaidAlone ==
    ASSUME NFILE \in Nat, NFILE >= 3
    PROVE  Laid(R!Terminal, <<>>)
<1>1. R!Terminal = [f \in R!Fds |-> IF f < 3 THEN R!Tty ELSE R!None]
  BY DEF R!Terminal, R!Std, R!Fds
<1>2. <<>> \in Seq({}) /\ Len(<<>>) = 0
  OBVIOUS
<1>3. \E S : <<>> \in Seq(S)
  BY <1>2
<1>4. R!Fds \subseteq Nat
  BY DEF R!Fds
<1>5. R!Terminal = [f \in R!Fds |-> R!Terminal[f]]
  BY <1>1
<1> QED BY <1>1, <1>2, <1>3, <1>4, <1>5 DEF Laid

(* And the other way round.                                                 *)
LEMMA AloneIsTerminal ==
    ASSUME NFILE \in Nat, NEW tab, NEW ps, Laid(tab, ps), Len(ps) = 0
    PROVE  tab = R!Terminal
<1>1. R!Terminal = [f \in R!Fds |-> IF f < 3 THEN R!Tty ELSE R!None]
  BY DEF R!Terminal, R!Std, R!Fds
<1>2. tab = [f \in R!Fds |-> tab[f]] /\ \A f \in R!Fds : (f < 3 => tab[f] = R!Tty) /\ (f > 2 => tab[f] = R!None)
  BY DEF Laid
<1>3. R!Fds \subseteq Nat
  BY DEF R!Fds
<1> QED BY <1>1, <1>2, <1>3

-----------------------------------------------------------------------------
(* The shell is none of its children.                                       *)
LEMMA ShellApart == ASSUME NPROC \in Nat PROVE R!Sh \notin R!Children /\ R!Children \subseteq Nat
BY DEF R!Sh, R!Children

(* A child that nothing happens to.                                         *)
LEMMA ChildKept ==
    ASSUME NEW c \in R!Children, ChildOk(c), st'[c] = st[c], job'[c] = job[c], fds'[c] = fds[c]
    PROVE  ChildOk(c)'
BY DEF ChildOk

(* A step of the shell alone.                                               *)
LEMMA ShellStep ==
    ASSUME NPROC \in Nat, ShInv, UNCHANGED <<st, job>>, NEW tab, fds' = [fds EXCEPT ![R!Sh] = tab]
    PROVE  ShTyped' /\ fds'[R!Sh] = tab /\ \A c \in R!Children : ChildOk(c)'
<1>1. /\ fds = [c \in Everyone |-> fds[c]] /\ job = [c \in R!Children |-> job[c]]
      /\ st \in [R!Children -> {"free", "connect", "redirect", "exec", "run", "zombie"}]
  BY DEF ShInv, ShTyped
<1>2. /\ fds'[R!Sh] = tab /\ fds' = [c \in Everyone |-> fds'[c]] /\ \A c \in R!Children : fds'[c] = fds[c]
  BY <1>1, ShellApart DEF Everyone
<1>3. ShTyped'
  BY <1>1, <1>2 DEF ShTyped
<1>4. \A c \in R!Children : ChildOk(c)'
  BY <1>2, ChildKept DEF ShInv
<1> QED BY <1>2, <1>3, <1>4

(* The same when the shell leaves its descriptors alone.                    *)
LEMMA ShellKeeps ==
    ASSUME NPROC \in Nat, ShInv, UNCHANGED <<st, job, fds>>
    PROVE  ShTyped' /\ \A c \in R!Children : ChildOk(c)'
<1>1. ShTyped'
  BY DEF ShInv, ShTyped
<1>2. \A c \in R!Children : ChildOk(c)'
  BY ChildKept DEF ShInv
<1> QED BY <1>1, <1>2

(* A step of a child alone.                                                 *)
LEMMA ChildStep ==
    ASSUME NPROC \in Nat, ShInv, UNCHANGED <<pc, todo, pipes>>, i' = i \/ i' \in Nat \ {0},
           NEW c \in R!Children, NEW tab, NEW j,
           NEW x \in {"free", "connect", "redirect", "exec", "run", "zombie"}, IsJob(j),
           fds' = [fds EXCEPT ![c] = tab], st' = [st EXCEPT ![c] = x], job' = [job EXCEPT ![c] = j],
           x \in {"connect", "redirect", "exec", "run"} => JobOk(j),
           x = "connect" => Laid(tab, j.pipes),
           x = "redirect" => Joined(tab, j, FromPipe(j), ToPipe(j)),
           x = "exec" => Joined(tab, j, FromFile(j), ToFile(j)),
           x = "run" => tab = [R!Terminal EXCEPT ![0] = FromFile(j), ![1] = ToFile(j)]
    PROVE  ShInv'
<1>1. /\ fds = [d \in Everyone |-> fds[d]] /\ job = [d \in R!Children |-> job[d]]
      /\ st \in [R!Children -> {"free", "connect", "redirect", "exec", "run", "zombie"}]
  BY DEF ShInv, ShTyped
<1>2. /\ fds'[c] = tab /\ fds' = [d \in Everyone |-> fds'[d]] /\ \A d \in Everyone : d # c => fds'[d] = fds[d]
      /\ job'[c] = j /\ job' = [d \in R!Children |-> job'[d]] /\ \A d \in R!Children : d # c => job'[d] = job[d]
      /\ st'[c] = x /\ \A d \in R!Children : d # c => st'[d] = st[d]
      /\ st' \in [R!Children -> {"free", "connect", "redirect", "exec", "run", "zombie"}]
  BY <1>1 DEF Everyone
<1>3. ShTyped'
  BY <1>2 DEF ShTyped
<1>4. LineOk' /\ ShellOk'
  <2>1. fds'[R!Sh] = fds[R!Sh]
    BY <1>2, ShellApart DEF Everyone
  <2> QED BY <2>1 DEF ShInv, LineOk, ShellOk
<1>5. ASSUME NEW d \in R!Children PROVE ChildOk(d)'
  <2>1. CASE d = c
    BY <1>2, <2>1 DEF ChildOk
  <2>2. CASE d # c
    <3>1. d \in Everyone
      BY DEF Everyone
    <3> QED BY <1>2, <2>2, <3>1, ChildKept DEF ShInv
  <2> QED BY <2>1, <2>2
<1> QED BY <1>3, <1>4, <1>5 DEF ShInv

(* Fork: the child has the descriptors of the shell.                        *)
LEMMA ForkShell == ASSUME R!ShellAssumption, ShInv, R!Fork PROVE ShInv'
<1>1. NPROC \in Nat /\ NFILE \in Nat
  BY DEF R!ShellAssumption
<1> DEFINE c == R!Min(R!Free)
           j == [cmd |-> i, n |-> Len(Head(todo)), pipes |-> pipes,
                 input |-> R!Command.input, output |-> R!Command.output]
<1>2. c \in R!Children
  <2>1. R!Free \in SUBSET Nat /\ R!Free # {} /\ R!Free \subseteq R!Children
    BY <1>1, ShellApart DEF R!Free, R!Fork
  <2>2. Min(R!Free) \in R!Free
    BY <2>1, Lowest
  <2> QED BY <2>1, <2>2 DEF R!Min, Min
<1>3. /\ pc = "fork" /\ i <= Len(Head(todo)) /\ todo # <<>> /\ i \in Nat \ {0} /\ Len(pipes) = Len(Head(todo)) - 1
      /\ Laid(fds[R!Sh], pipes)
  BY DEF R!Fork, R!AtCommand, ShInv, ShellOk
<1>4. /\ Head(todo) \in Seq(R!Commands) /\ Len(Head(todo)) \in Nat /\ 2 * Len(Head(todo)) + 1 <= NFILE
  <2>1. todo \in Seq(Seq(R!Commands)) /\ Head(todo) = todo[1] /\ 1 \in 1 .. Len(todo)
    BY <1>3 DEF ShInv, LineOk
  <2>2. Head(todo) \in Seq(R!Commands)
    BY <2>1
  <2>3. Len(Head(todo)) \in Nat
    BY <2>2
  <2>4. 2 * Len(pipes) + 3 <= NFILE
    BY <1>3 DEF Laid
  <2> QED BY <1>1, <1>3, <2>2, <2>3, <2>4
<1>5. R!Command \in R!Commands
  BY <1>3, <1>4 DEF R!Command
<1>6. R!Command.input \in BOOLEAN /\ R!Command.output \in BOOLEAN
  BY <1>5 DEF R!Commands
<1>7. JobOk(j)
  BY <1>3, <1>4, <1>6 DEF JobOk
<1>8. IsJob(j) /\ j.pipes = pipes
  BY DEF IsJob, JobFields
<1>9. /\ fds' = [fds EXCEPT ![c] = fds[R!Sh]] /\ st' = [st EXCEPT ![c] = "connect"] /\ job' = [job EXCEPT ![c] = j]
      /\ UNCHANGED <<pc, todo, pipes>> /\ i' = i + 1
  BY DEF R!Fork
<1> HIDE DEF c, j
<1>10. i' \in Nat \ {0}
  BY <1>3, <1>9
<1> QED BY <1>1, <1>2, <1>3, <1>7, <1>8, <1>9, <1>10, ChildStep

(* A child on its way to exec().                                            *)
LEMMA ConnectStep == ASSUME R!ShellAssumption, ShInv, NEW c \in R!Children, R!Connect(c) PROVE ShInv'
<1> DEFINE j == job[c]
           in == IF j.cmd > 1 THEN R!Dup2(fds[c], j.pipes[j.cmd - 1].r, 0) ELSE fds[c]
           out == IF j.cmd < j.n THEN R!Dup2(in, j.pipes[j.cmd].w, 1) ELSE in
<1>1. NPROC \in Nat /\ NFILE \in Nat
  BY DEF R!ShellAssumption
<1>2. JobOk(j) /\ IsJob(j) /\ Laid(fds[c], j.pipes)
  BY DEF ShInv, ChildOk, R!Connect
<1>3. Joined(out, j, FromPipe(j), ToPipe(j))
  BY <1>1, <1>2, Connected
<1>4. /\ fds' = [fds EXCEPT ![c] = out] /\ st' = [st EXCEPT ![c] = "redirect"] /\ UNCHANGED <<pc, todo, i, pipes, job>>
  BY DEF R!Connect
<1>5. job' = [job EXCEPT ![c] = j]
  BY <1>4 DEF ShInv, ShTyped
<1> HIDE DEF j, in, out
<1> QED BY <1>1, <1>2, <1>3, <1>4, <1>5, ChildStep

(* A child that opens the files of its redirections keeps the others as     *)
(* they are.                                                                *)
LEMMA RedirectStep ==
    ASSUME R!ShellAssumption, ShInv, NEW c \in R!Children, NEW failed, R!Redirect(c, failed)
    PROVE  ShInv'
<1> DEFINE j == job[c]
           tab == fds[c]
           in == IF j.input /\ 0 \notin failed THEN R!Onto(tab, R!Input, 0) ELSE tab
           out == IF j.output /\ 1 \notin failed THEN R!Onto(in, R!Output, 1) ELSE in
           k == [j EXCEPT !.input = @ /\ 0 \notin failed, !.output = @ /\ 1 \notin failed]
<1>1. NPROC \in Nat /\ NFILE \in Nat
  BY DEF R!ShellAssumption
<1>2. JobOk(j) /\ IsJob(j) /\ Joined(tab, j, FromPipe(j), ToPipe(j))
  BY DEF ShInv, ChildOk, R!Redirect
<1>3. /\ IsJob(k) /\ k.cmd = j.cmd /\ k.n = j.n /\ k.pipes = j.pipes
      /\ k.input = (j.input /\ 0 \notin failed) /\ k.output = (j.output /\ 1 \notin failed)
  <2>1. j = [f \in JobFields |-> j[f]]
    BY <1>2 DEF IsJob
  <2> HIDE DEF j
  <2> QED BY <2>1 DEF IsJob, JobFields
<1>4. JobOk(k)
  BY <1>2, <1>3 DEF JobOk
<1>5. FromPipe(j) # R!None /\ ToPipe(j) # R!None
  BY Different DEF FromPipe, ToPipe
<1>6. PICK u : Laid(u, j.pipes) /\ tab = [u EXCEPT ![0] = FromPipe(j), ![1] = ToPipe(j)]
  BY <1>2 DEF Joined
<1>7. u = [f \in R!Fds |-> u[f]] /\ 0 \in R!Fds /\ 1 \in R!Fds
  BY <1>1, <1>2, <1>6, JoinedHas DEF Laid
<1>8. FromFile(k) \in {R!Input, FromPipe(j)} /\ FromFile(k) # R!None
  BY <1>3, <1>5, Different DEF FromFile, FromPipe
<1>9. in = [u EXCEPT ![0] = FromFile(k), ![1] = ToPipe(j)]
  <2>1. CASE ~j.input \/ 0 \in failed
    BY <1>2, <1>3, <1>6, <2>1 DEF FromFile, FromPipe, JobOk
  <2>2. CASE ~(~j.input \/ 0 \in failed)
    <3>0. R!Unused(tab) # {} /\ R!Input # R!None
      BY <2>2, Different DEF R!Redirect
    <3>1. in = [tab EXCEPT ![0] = R!Input] /\ FromFile(k) = R!Input
      BY <1>1, <1>2, <1>3, <1>5, <2>2, <3>0, OntoFile DEF FromFile
    <3>2. tab = [f \in R!Fds |-> IF f = 0 THEN FromPipe(j) ELSE IF f = 1 THEN ToPipe(j) ELSE u[f]]
      BY <1>6, <1>7
    <3> HIDE DEF j, tab, k, in
    <3>3. in = [f \in R!Fds |-> IF f = 0 THEN R!Input ELSE IF f = 1 THEN ToPipe(j) ELSE u[f]]
      BY <1>7, <3>1, <3>2
    <3>4. [u EXCEPT ![0] = R!Input, ![1] = ToPipe(j)] =
            [f \in R!Fds |-> IF f = 0 THEN R!Input ELSE IF f = 1 THEN ToPipe(j) ELSE u[f]]
      BY <1>7
    <3> QED BY <3>1, <3>3, <3>4
  <2> QED BY <2>1, <2>2
<1>10. Joined(in, j, FromFile(k), ToPipe(j))
  BY <1>6, <1>9 DEF Joined
<1> HIDE DEF in
<1>11. out = [u EXCEPT ![0] = FromFile(k), ![1] = ToFile(k)]
  <2>1. CASE ~j.output \/ 1 \in failed
    BY <1>2, <1>3, <1>9, <2>1 DEF ToFile, ToPipe, JobOk
  <2>2. CASE ~(~j.output \/ 1 \in failed)
    <3>0. R!Unused(in) # {} /\ R!Output # R!None
      BY <2>2, Different DEF R!Redirect, in
    <3>1. out = [in EXCEPT ![1] = R!Output] /\ ToFile(k) = R!Output
      BY <1>1, <1>2, <1>3, <1>5, <1>8, <1>10, <2>2, <3>0, OntoFile DEF ToFile
    <3> QED BY <1>7, <1>9, <3>1
  <2> QED BY <2>1, <2>2
<1>12. Joined(out, k, FromFile(k), ToFile(k))
  BY <1>3, <1>6, <1>11 DEF Joined
<1>13. fds' = [fds EXCEPT ![c] = out]
  BY DEF R!Redirect, in
<1>14. job' = [job EXCEPT ![c] = k]
  <2>1. job = [d \in R!Children |-> job[d]]
    BY DEF ShInv, ShTyped
  <2>2. job' = [job EXCEPT ![c].input = @ /\ 0 \notin failed, ![c].output = @ /\ 1 \notin failed]
    BY DEF R!Redirect
  <2> QED BY <2>1, <2>2
<1>15. st' = [st EXCEPT ![c] = "exec"] /\ UNCHANGED <<pc, todo, i, pipes>>
  BY DEF R!Redirect
<1> HIDE DEF k, out
<1> QED BY <1>1, <1>3, <1>4, <1>12, <1>13, <1>14, <1>15, ChildStep

(* A child that closed both ends of every pipe runs its command.            *)
LEMMA ExecShell == ASSUME R!ShellAssumption, ShInv, NEW c \in R!Children, R!Exec(c) PROVE ShInv'
<1> DEFINE j == job[c]
           tab == R!Close(fds[c], R!Ends(j.pipes))
<1>1. NPROC \in Nat /\ NFILE \in Nat
  BY DEF R!ShellAssumption
<1>2. JobOk(j) /\ IsJob(j) /\ Joined(fds[c], j, FromFile(j), ToFile(j))
  BY DEF ShInv, ChildOk, R!Exec
<1>3. tab = [R!Terminal EXCEPT ![0] = FromFile(j), ![1] = ToFile(j)]
  BY <1>1, <1>2, ClosedToRun
<1>4. /\ fds' = [fds EXCEPT ![c] = tab] /\ st' = [st EXCEPT ![c] = "run"] /\ UNCHANGED <<pc, todo, i, pipes, job>>
  BY DEF R!Exec, R!ChildCloses
<1>5. job' = [job EXCEPT ![c] = j]
  BY <1>4 DEF ShInv, ShTyped
<1> HIDE DEF j, tab
<1> QED BY <1>1, <1>2, <1>3, <1>4, <1>5, ChildStep

(* waitpid() in the shell forgets a child that has exited.                  *)
LEMMA ReapShell == ASSUME R!ShellAssumption, ShInv, NEW c \in R!Children, R!Reap(c) PROVE ShInv'
<1>1. NPROC \in Nat
  BY DEF R!ShellAssumption
<1>2. /\ fds' = [fds EXCEPT ![c] = fds[c]] /\ st' = [st EXCEPT ![c] = "free"] /\ job' = [job EXCEPT ![c] = job[c]]
      /\ UNCHANGED <<pc, todo, i, pipes>>
  BY DEF R!Reap, ShInv, ShTyped, Everyone
<1>3. IsJob(job[c])
  BY DEF ShInv, ChildOk
<1> QED BY <1>1, <1>2, <1>3, ChildStep

(* The end of programs: those that do not end keep what they have.          *)
LEMMA DiesStep ==
    ASSUME NPROC \in Nat, ShInv, NEW cs \in SUBSET R!Children, R!Dies(cs)
    PROVE  ShTyped' /\ fds'[R!Sh] = fds[R!Sh] /\ \A c \in R!Children : ChildOk(c)'
<1>1. /\ fds = [d \in Everyone |-> fds[d]] /\ job = [d \in R!Children |-> job[d]]
      /\ st \in [R!Children -> {"free", "connect", "redirect", "exec", "run", "zombie"}]
  BY DEF ShInv, ShTyped
<1>2. DOMAIN fds = Everyone
  BY <1>1
<1>3. /\ st' = [c \in R!Children |-> IF c \in cs THEN "zombie" ELSE st[c]]
      /\ fds' = [c \in Everyone |-> IF c \in cs THEN R!NoFds ELSE fds[c]]
      /\ job' = [c \in R!Children |-> IF c \in cs THEN R!NoJob ELSE job[c]]
  BY <1>2 DEF R!Dies
<1>4. ShTyped'
  BY <1>1, <1>3 DEF ShTyped
<1>5. fds'[R!Sh] = fds[R!Sh]
  BY <1>3, ShellApart DEF Everyone
<1>6. IsJob(R!NoJob)
  BY DEF IsJob, JobFields, R!NoJob
<1>7. ASSUME NEW c \in R!Children PROVE ChildOk(c)'
  <2>1. CASE c \in cs
    BY <1>3, <1>6, <2>1 DEF ChildOk
  <2>2. CASE c \notin cs
    BY <1>3, <2>2, ChildKept DEF ShInv, Everyone
  <2> QED BY <2>1, <2>2
<1> QED BY <1>4, <1>5, <1>7

(* The next pipeline of the line, and the line after the last one.          *)
LEMMA NextPipelineOk ==
    ASSUME ShInv, pc = "wait", R!NextPipeline, UNCHANGED pipes, fds'[R!Sh] = fds[R!Sh]
    PROVE  LineOk' /\ ShellOk'
<1>1. todo \in Seq(Seq(R!Commands)) /\ todo # <<>> /\ Laid(fds[R!Sh], pipes) /\ Len(pipes) = 0
  BY DEF ShInv, LineOk, ShellOk
<1>2. /\ Tail(todo) \in Seq(Seq(R!Commands)) /\ Len(Tail(todo)) = Len(todo) - 1
      /\ \A k \in 1 .. Len(todo) - 1 : Tail(todo)[k] = todo[k + 1]
  BY <1>1
<1>3. Len(todo) \in Nat
  BY <1>1
<1>4. \A k \in 1 .. Len(todo) - 1 : Tail(todo)[k] # <<>>
  BY <1>2, <1>3 DEF ShInv, LineOk
<1>5. LineOk'
  BY <1>2, <1>4 DEF R!NextPipeline, LineOk
<1>6. Tail(todo) # <<>> => Len(Head(Tail(todo))) > 0
  <2> HAVE Tail(todo) # <<>>
  <2>1. Head(Tail(todo)) = Tail(todo)[1] /\ 1 \in 1 .. Len(todo) - 1
    BY <1>2, <1>3
  <2>2. Tail(todo)[1] \in Seq(R!Commands) /\ Tail(todo)[1] # <<>>
    <3>1. Tail(todo)[1] # <<>>
      BY <1>4, <2>1
    <3>2. Tail(todo)[1] \in Seq(R!Commands)
      <4> DEFINE rest == Tail(todo)
                 C == Seq(R!Commands)
      <4>1. rest \in Seq(C) /\ 1 \in 1 .. Len(rest)
        BY <1>2, <2>1
      <4> HIDE DEF rest, C
      <4>2. rest[1] \in C
        BY <4>1
      <4> QED BY <4>2 DEF rest, C
    <3> QED BY <3>1, <3>2
  <2> QED BY <2>1, <2>2
<1>7. ShellOk'
  BY <1>1, <1>6 DEF R!NextPipeline, ShellOk
<1> QED BY <1>5, <1>7

(* The steps of the shell itself.                                           *)
LEMMA OwnStep ==
    ASSUME R!ShellAssumption, ShInv,
           \/ \E l \in CmdLines : R!ReadLine(l)
           \/ R!Eof \/ R!InternalExit \/ R!MakePipe \/ R!PipesMade \/ R!Internal \/ R!ForkFails \/ R!ClosePipes
           \/ R!Waited
    PROVE  ShInv'
<1>1. NPROC \in Nat /\ NFILE \in Nat /\ NFILE >= 3
  BY DEF R!ShellAssumption
<1>2. todo \in Seq(Seq(R!Commands)) /\ \A k \in 1 .. Len(todo) : todo[k] # <<>>
  BY DEF ShInv, LineOk
<1>3. ASSUME todo # <<>>
      PROVE  Head(todo) \in Seq(R!Commands) /\ Len(Head(todo)) \in Nat
  <2>1. 1 \in 1 .. Len(todo) /\ Head(todo) = todo[1] /\ 1 \in DOMAIN todo
    BY <1>2, <1>3
  <2>2. Head(todo) \in Seq(R!Commands)
    BY <1>2, <2>1
  <2> QED BY <1>2, <2>1, <2>2
<1>4. ASSUME NEW l \in CmdLines, R!ReadLine(l) PROVE ShInv'
  <2>1. l \in Seq(Seq(R!Commands)) /\ l # <<>> /\ \A k \in DOMAIN l : l[k] # <<>>
    BY DEF R!ShellAssumption
  <2>2. LineOk'
    BY <1>4, <2>1 DEF R!ReadLine, LineOk
  <2>3. Len(Head(l)) > 0
    <3>1. Head(l) = l[1] /\ 1 \in DOMAIN l
      BY <2>1
    <3>2. l[1] \in Seq(R!Commands) /\ l[1] # <<>>
      BY <2>1, <3>1
    <3> QED BY <3>1, <3>2
  <2>4. ShellOk'
    BY <1>4, <2>1, <2>3 DEF R!ReadLine, ShInv, ShellOk
  <2> QED BY <1>1, <1>4, <2>2, <2>4, ShellKeeps DEF R!ReadLine, ShInv
<1>5. ASSUME R!Exit PROVE ShInv'
  <2>1. fds' = [fds EXCEPT ![R!Sh] = R!NoFds] /\ UNCHANGED <<todo, st, job>> /\ pc' = "exited"
    BY <1>5 DEF R!Exit
  <2>2. LineOk' /\ ShellOk'
    BY <2>1 DEF ShInv, LineOk, ShellOk
  <2> QED BY <1>1, <2>1, <2>2, ShellStep DEF ShInv
<1>6. CASE R!MakePipe
  <2> DEFINE id == R!Min(1 .. NFILE \ R!PipesInUse)
             tab == fds[R!Sh]
             r == R!Lowest(tab)
             w == R!Lowest(R!Open(tab, R!R(id)))
             v == R!Open(R!Open(tab, R!R(id)), R!W(id))
             qs == Append(pipes, [id |-> id, r |-> r, w |-> w])
  <2>1. /\ pc = "pipe" /\ Len(pipes) < Len(Head(todo)) - 1 /\ todo # <<>> /\ Laid(tab, pipes)
        /\ fds' = [fds EXCEPT ![R!Sh] = v] /\ pipes' = qs /\ UNCHANGED <<pc, todo, i, st, job>>
        /\ \E f, g \in R!Unused(tab) : f # g
    BY <1>6 DEF R!MakePipe, R!AtPipe, ShInv, ShellOk
  <2>2. Len(pipes) \in Nat /\ Len(Head(todo)) \in Nat
    BY <1>1, <1>3, <2>1, FreeBehind
  <2>3. Laid(v, qs)
    <3>1. 2 * Len(pipes) + 5 <= NFILE
      <4>1. PICK f, g \in R!Unused(tab) : f # g
        BY <2>1
      <4>2. f \in R!Fds /\ g \in R!Fds /\ tab[f] = R!None /\ tab[g] = R!None
        BY <4>1 DEF R!Unused
      <4>3. f > 2 * Len(pipes) + 2 /\ g > 2 * Len(pipes) + 2
        BY <1>1, <2>1, <4>2, FreeBehind
      <4> QED BY <1>1, <2>2, <4>1, <4>2, <4>3 DEF R!Fds
    <3> QED BY <1>1, <2>1, <3>1, PipeLaid
  <2>4. Len(qs) = Len(pipes) + 1
    <3>1. PICK S : pipes \in Seq(S)
      BY <2>1 DEF Laid
    <3> DEFINE new == [id |-> id, r |-> r, w |-> w]
    <3>2. Append(pipes, new) = qs
      OBVIOUS
    <3> HIDE DEF new, qs
    <3> QED BY <3>1, <3>2
  <2> HIDE DEF v, qs
  <2>5. ShTyped' /\ fds'[R!Sh] = v /\ \A c \in R!Children : ChildOk(c)'
    BY <1>1, <2>1, ShellStep
  <2>6. LineOk'
    BY <2>1 DEF ShInv, LineOk
  <2>7. ShellOk'
    BY <2>1, <2>2, <2>3, <2>4, <2>5 DEF ShellOk
  <2> QED BY <2>5, <2>6, <2>7 DEF ShInv
<1>7. CASE R!PipesMade \/ R!Internal \/ R!ForkFails
  <2>1. UNCHANGED <<todo, pipes, fds, st, job>> /\ pc' = "fork" /\ todo # <<>> /\ Laid(fds[R!Sh], pipes)
        /\ Len(pipes) = Len(Head(todo)) - 1 /\ i' \in Nat \ {0}
    BY <1>7 DEF R!PipesMade, R!Internal, R!ForkFails, R!AtCommand, ShInv, ShellOk
  <2>2. LineOk' /\ ShellOk'
    BY <2>1 DEF ShInv, LineOk, ShellOk
  <2> QED BY <1>1, <2>1, <2>2, ShellKeeps DEF ShInv
<1>8. CASE R!ClosePipes
  <2>1. /\ pc = "fork" /\ todo # <<>> /\ Laid(fds[R!Sh], pipes) /\ pc' = "wait" /\ pipes' = <<>>
        /\ fds' = [fds EXCEPT ![R!Sh] = R!Close(fds[R!Sh], R!Ends(pipes))] /\ UNCHANGED <<todo, i, st, job>>
    BY <1>8 DEF R!ClosePipes, ShInv, ShellOk
  <2>2. R!Close(fds[R!Sh], R!Ends(pipes)) = R!Terminal
    BY <1>1, <2>1, ClosedToWait
  <2>3. ShTyped' /\ fds'[R!Sh] = R!Terminal /\ \A c \in R!Children : ChildOk(c)'
    BY <1>1, <2>1, <2>2, ShellStep
  <2>4. LineOk' /\ ShellOk'
    BY <1>1, <2>1, <2>3, LaidAlone DEF ShInv, LineOk, ShellOk
  <2> QED BY <2>3, <2>4 DEF ShInv
<1>9. CASE R!Waited
  <2>1. LineOk' /\ ShellOk'
    BY <1>9, NextPipelineOk DEF R!Waited
  <2> QED BY <1>1, <1>9, <2>1, ShellKeeps DEF R!Waited, ShInv
<1> QED BY <1>4, <1>5, <1>6, <1>7, <1>8, <1>9 DEF R!Eof, R!InternalExit

(* The end of one program, and CTRL-c, which ends all that run.             *)
LEMMA EndStep ==
    ASSUME R!ShellAssumption, ShInv,
           (\E c \in R!Children : R!Finish(c)) \/ (\E ends \in BOOLEAN : R!Interrupt(ends))
    PROVE  ShInv'
<1>1. NPROC \in Nat
  BY DEF R!ShellAssumption
<1>2. PICK cs \in SUBSET R!Children :
        /\ R!Dies(cs) /\ UNCHANGED pipes
        /\ UNCHANGED <<pc, todo, i>> \/ (pc = "wait" /\ R!NextPipeline)
  BY DEF R!Finish, R!Interrupt
<1>3. ShTyped' /\ fds'[R!Sh] = fds[R!Sh] /\ \A c \in R!Children : ChildOk(c)'
  BY <1>1, <1>2, DiesStep
<1>4. LineOk' /\ ShellOk'
  <2>1. CASE UNCHANGED <<pc, todo, i>>
    BY <1>2, <1>3, <2>1 DEF ShInv, LineOk, ShellOk
  <2>2. CASE pc = "wait" /\ R!NextPipeline
    BY <1>2, <1>3, <2>2, NextPipelineOk
  <2> QED BY <1>2, <2>1, <2>2
<1> QED BY <1>3, <1>4 DEF ShInv

(* The invariant holds when the shell starts.                               *)
LEMMA ShellInit == ASSUME R!ShellAssumption, R!Init PROVE ShInv
<1>1. NPROC \in Nat /\ NFILE \in Nat /\ NFILE >= 3
  BY DEF R!ShellAssumption
<1>2. /\ fds = [c \in Everyone |-> IF c = R!Sh THEN R!Terminal ELSE R!NoFds] /\ fds[R!Sh] = R!Terminal
  BY DEF R!Init, Everyone
<1>3. ShTyped
  BY <1>2 DEF ShTyped, R!Init
<1>4. LineOk /\ ShellOk
  <2>1. Laid(R!Terminal, <<>>)
    BY <1>1, LaidAlone
  <2> QED BY <1>2, <2>1 DEF LineOk, ShellOk, R!Init
<1>5. IsJob(R!NoJob)
  BY DEF IsJob, JobFields, R!NoJob
<1>6. \A c \in R!Children : ChildOk(c)
  BY <1>5 DEF ChildOk, R!Init
<1> QED BY <1>3, <1>4, <1>6 DEF ShInv

(* A step keeps the invariant, or is a pipe() that fails.                   *)
LEMMA ShellNext == ASSUME R!ShellAssumption, broken \/ ShInv, [R!Next]_R!vars PROVE broken' \/ ShInv'
<1>1. CASE broken
  <2>1. broken' = broken \/ broken' = TRUE
    <3>1. ASSUME NEW l, R!ReadLine(l) PROVE broken' = broken
      BY <3>1 DEF R!ReadLine
    <3>2. CASE R!Eof \/ R!InternalExit
      BY <3>2 DEF R!Eof, R!InternalExit, R!Exit
    <3>3. CASE R!MakePipe \/ R!PipeFails
      BY <3>3 DEF R!MakePipe, R!PipeFails
    <3>4. CASE R!PipesMade \/ R!Internal \/ R!ForkFails \/ R!ClosePipes
      BY <3>4 DEF R!PipesMade, R!Internal, R!ForkFails, R!ClosePipes
    <3>5. CASE R!Fork \/ R!Waited
      BY <3>5 DEF R!Fork, R!Waited
    <3>6. ASSUME NEW c, R!Connect(c) \/ R!Exec(c) \/ R!Finish(c) \/ R!Reap(c) PROVE broken' = broken
      BY <3>6 DEF R!Connect, R!Exec, R!Finish, R!Reap
    <3>7. ASSUME NEW c, NEW failed, R!Redirect(c, failed) PROVE broken' = broken
      BY <3>7 DEF R!Redirect
    <3>8. ASSUME NEW ends, R!Interrupt(ends) PROVE broken' = broken
      BY <3>8 DEF R!Interrupt
    <3>9. CASE UNCHANGED R!vars
      BY <3>9 DEF R!vars
    <3> QED BY <3>1, <3>2, <3>3, <3>4, <3>5, <3>6, <3>7, <3>8, <3>9, Zenon DEF R!Next
  <2> QED BY <1>1, <2>1, Zenon
<1>2. CASE ShInv
  <2>1. CASE UNCHANGED R!vars
    BY <1>2, <2>1, ChildKept DEF R!vars, ShInv, ShTyped, LineOk, ShellOk
  <2>2. CASE R!PipeFails
    BY <2>2 DEF R!PipeFails
  <2>3. CASE R!Next /\ ~R!PipeFails
    BY <1>2, <2>3, OwnStep, EndStep, ForkShell, ConnectStep, RedirectStep, ExecShell, ReapShell DEF R!Next
  <2> QED BY <2>1, <2>2, <2>3
<1> QED BY <1>1, <1>2

(* Every program of a pipeline has the descriptors that it should, and no   *)
(* end of a pipe is left open in it or in the shell, for any lines, any     *)
(* number of processes and descriptors, whichever fork() and open() fail    *)
(* and whenever CTRL-c comes, as long as no pipe() of the shell fails.      *)
THEOREM DescriptorsWired == ASSUME R!ShellAssumption PROVE R!Spec => []PipesWired
<1>1. R!Init => broken \/ ShInv
  BY ShellInit
<1>2. (broken \/ ShInv) /\ [R!Next]_R!vars => (broken \/ ShInv)'
  BY ShellNext
<1>3. broken \/ ShInv => PipesWired
  <2> SUFFICES ASSUME ShInv PROVE R!PipesWired
    BY DEF PipesWired, R!PipesWired
  <2>1. NFILE \in Nat
    BY DEF R!ShellAssumption
  <2>2. pc \in {"wait", "prompt"} => fds[R!Sh] = R!Terminal
    BY <2>1, AloneIsTerminal DEF ShInv, ShellOk
  <2>3. \A c \in R!Children : st[c] = "run" =>
          fds[c] = [R!Terminal EXCEPT ![0] = FromFile(job[c]), ![1] = ToFile(job[c])]
    BY DEF ShInv, ChildOk
  <2> QED BY <2>2, <2>3 DEF R!PipesWired, FromFile, ToFile, FromPipe, ToPipe
<1> QED BY <1>1, <1>2, <1>3, PTL DEF R!Spec

-----------------------------------------------------------------------------
(* The editor.                                                              *)
Cursor == [row : Nat, col : Nat, want : Int, off : Nat]

(* The cursor is in a line that the window shows, and not behind its end.   *)
Inside(b, n, m, c) ==
    LET len == V!strlen(b[c.row])
    IN /\ c \in Cursor /\ c.row < n
       /\ c.off <= c.row /\ c.row <= c.off + ROWS - 2
       /\ c.col <= len
       /\ m = "Command" /\ len > 0 => c.col < len

ViInv ==
    /\ buffer = [r \in V!Rows |-> buffer[r]]
    /\ lines \in 1 .. MAX_ROWS /\ count \in Nat
    /\ Inside(buffer, lines, "any", cur)
    /\ mode \in {"Command", "CommandLine"} /\ ~past => Inside(buffer, lines, "Command", cur)

-----------------------------------------------------------------------------
(* The lesser and the greater of two numbers, as the editor computes them.  *)
LEMMA ViLesser ==
    ASSUME NEW x \in Int, NEW y \in Int
    PROVE  /\ V!Min({x, y}) = (IF x <= y THEN x ELSE y)
           /\ V!Max({x, y}) = (IF x >= y THEN x ELSE y)
<1>1. \E u \in {x, y} : \A v \in {x, y} : u <= v
  OBVIOUS
<1>2. \E u \in {x, y} : \A v \in {x, y} : u >= v
  OBVIOUS
<1>3. V!Min({x, y}) \in {x, y} /\ \A v \in {x, y} : V!Min({x, y}) <= v
  BY <1>1 DEF V!Min
<1>4. V!Max({x, y}) \in {x, y} /\ \A v \in {x, y} : V!Max({x, y}) >= v
  BY <1>2 DEF V!Max
<1> QED BY <1>3, <1>4

(* strlen(): the first "end" is the end of a line, and the array has one at *)
(* its own end.                                                             *)
LEMMA LengthOf ==
    ASSUME MAX_COLS \in Nat, NEW a
    PROVE  /\ V!strlen(a) \in 0 .. MAX_COLS
           /\ \A c \in V!Cols : c < V!strlen(a) => a[c] # "end"
           /\ V!strlen(a) < MAX_COLS => a[V!strlen(a)] = "end"
<1> DEFINE S == {c \in V!Cols : a[c] = "end"} \cup {MAX_COLS}
<1>1. S \in SUBSET Nat /\ S # {}
  BY DEF V!Cols
<1>2. V!strlen(a) = Min(S)
  BY DEF V!strlen, V!Min, Min
<1>3. Min(S) \in S /\ \A y \in S : Min(S) <= y
  <2> HIDE DEF S
  <2> QED BY <1>1, Lowest
<1>4. Min(S) \in 0 .. MAX_COLS
  <2>1. Min(S) \in Nat /\ MAX_COLS \in S
    BY <1>1, <1>3
  <2> QED BY <1>3, <2>1
<1>5. ASSUME NEW c \in V!Cols, c < Min(S), a[c] = "end" PROVE FALSE
  <2>1. c \in S /\ c \in Nat
    BY <1>5 DEF V!Cols
  <2>2. Min(S) <= c
    BY <1>3, <2>1
  <2> HIDE DEF S
  <2> QED BY <1>4, <1>5, <2>1, <2>2
<1>6. ASSUME Min(S) < MAX_COLS PROVE a[Min(S)] = "end"
  BY <1>3, <1>4, <1>6
<1> QED BY <1>2, <1>4, <1>5, <1>6

(* An array without "end" before a column is at least that long.            *)
LEMMA AtLeast ==
    ASSUME MAX_COLS \in Nat, NEW a, NEW n \in 0 .. MAX_COLS, \A c \in V!Cols : c < n => a[c] # "end"
    PROVE  V!strlen(a) >= n
<1>1. /\ V!strlen(a) \in 0 .. MAX_COLS
      /\ V!strlen(a) < MAX_COLS => a[V!strlen(a)] = "end"
  BY LengthOf
<1> SUFFICES ASSUME V!strlen(a) < n PROVE FALSE
  BY <1>1
<1>2. V!strlen(a) \in V!Cols /\ V!strlen(a) < MAX_COLS
  BY <1>1 DEF V!Cols
<1> QED BY <1>1, <1>2

(* move_cursor() leaves the cursor in the text, in the mode it is called    *)
(* in, wherever it is told to go.                                           *)
LEMMA MovedInside ==
    ASSUME V!Fit, cur \in Cursor, NEW b, NEW n \in Nat \ {0}, NEW m, NEW r0 \in Int, NEW c0 \in Int
    PROVE  Inside(b, n, m, V!Moved(b, n, m, r0, c0))
<1> DEFINE c == V!Max({0, c0})
           r == V!Max({0, r0})
           row == V!Min({r, n - 1})
           col == IF c = cur.col /\ cur.row # r /\ cur.want > c THEN cur.want ELSE c
           len == V!strlen(b[row])
           last == V!LastCol(m, len)
           new == V!Moved(b, n, m, r0, c0)
<1>1. /\ cur.row \in Nat /\ cur.col \in Nat /\ cur.want \in Int /\ cur.off \in Nat
      /\ ROWS \in Nat /\ ROWS > 2 /\ MAX_COLS \in Nat
  BY DEF Cursor, V!Fit
<1>2. c \in Nat /\ r \in Nat
  <2>1. c = (IF 0 >= c0 THEN 0 ELSE c0) /\ r = (IF 0 >= r0 THEN 0 ELSE r0)
    BY ViLesser
  <2> HIDE DEF c, r
  <2> QED BY <2>1
<1>3. row \in Nat /\ row < n
  <2> HIDE DEF r
  <2>1. row = IF r <= n - 1 THEN r ELSE n - 1
    BY <1>2, ViLesser
  <2> QED BY <1>2, <2>1
<1>4. len \in Nat
  BY <1>1, LengthOf
<1>5. col \in Nat
  <2> HIDE DEF c, r
  <2> QED BY <1>1, <1>2
<1> HIDE DEF row, col, len
<1>6. last \in Nat /\ last <= len /\ (m = "Command" /\ len > 0 => last < len)
  BY <1>4 DEF V!LastCol
<1>7. new = [row |-> row, col |-> V!Min({col, last}),
             want |-> IF col > last THEN col ELSE cur.want, off |-> V!Scrolled(row)]
  BY DEF V!Moved, row, col, len
<1> HIDE DEF last, new
<1>8. V!Min({col, last}) \in Nat /\ V!Min({col, last}) <= last
  BY <1>5, <1>6, ViLesser
<1>9. V!Scrolled(row) \in Nat /\ V!Scrolled(row) <= row /\ row <= V!Scrolled(row) + ROWS - 2
  BY <1>1, <1>3 DEF V!Scrolled
<1>10. (IF col > last THEN col ELSE cur.want) \in Int
  BY <1>1, <1>5
<1>11. new \in Cursor /\ new.row = row /\ new.col = V!Min({col, last}) /\ new.off = V!Scrolled(row)
  <2> DEFINE min == V!Min({col, last})
             scrolled == V!Scrolled(row)
             want == IF col > last THEN col ELSE cur.want
  <2>1. min \in Nat /\ scrolled \in Nat /\ want \in Int
    BY <1>8, <1>9, <1>10
  <2>2. new = [row |-> row, col |-> min, want |-> want, off |-> scrolled]
    BY <1>7
  <2> HIDE DEF min, scrolled, want
  <2>3. new \in Cursor /\ new.row = row /\ new.col = min /\ new.off = scrolled
    BY <1>3, <2>1, <2>2 DEF Cursor
  <2> QED BY <2>3 DEF min, scrolled
<1>12. len = V!strlen(b[new.row])
  BY <1>11 DEF len
<1> QED BY <1>3, <1>4, <1>6, <1>8, <1>9, <1>11, <1>12 DEF Inside, new

(* Where the cursor is inside in command mode, it is in the others.         *)
LEMMA InsideAny == ASSUME NEW b, NEW n, NEW m, NEW c, Inside(b, n, m, c) PROVE Inside(b, n, "any", c)
BY DEF Inside

(* A step that ends with move_cursor().                                     *)
LEMMA CursorMoved ==
    ASSUME V!Fit, ViInv, buffer' = [r \in V!Rows |-> buffer'[r]], lines' \in 1 .. MAX_ROWS, count' \in Nat,
           mode' # "CommandLine", NEW r0 \in Int, NEW c0 \in Int, V!cursor(r0, c0)
    PROVE  ViInv'
<1>1. cur \in Cursor /\ lines' \in Nat \ {0}
  BY DEF ViInv, Inside
<1>2. Inside(buffer', lines', mode', V!Moved(buffer', lines', mode', r0, c0))
  BY <1>1, MovedInside
<1>3. Inside(buffer', lines', mode', cur')
  BY <1>2 DEF V!cursor
<1>4. Inside(buffer', lines', "any", cur')
  BY <1>3, InsideAny
<1> QED BY <1>3, <1>4 DEF ViInv

(* A step that leaves the text and the cursor alone.                        *)
LEMMA TextKept ==
    ASSUME ViInv, UNCHANGED <<buffer, lines, cur>>, count' \in Nat,
           mode' \in {"Command", "CommandLine"} /\ ~past' => mode \in {"Command", "CommandLine"} /\ ~past
    PROVE  ViInv'
BY DEF ViInv

(* The motions of the cursor are by numbers.                                *)
LEMMA TargetsAre ==
    ASSUME V!Fit, ViInv, NEW c, c \in V!Motions
    PROVE  V!Target(c)[1] \in Int /\ V!Target(c)[2] \in Int
<1>1. /\ cur.row \in Int /\ cur.col \in Int /\ lines \in Int /\ ROWS \in Int /\ count \in Int
  BY DEF ViInv, Inside, Cursor, V!Fit
<1>2. V!Times \in Int
  <2>1. V!Times = IF 1 >= count THEN 1 ELSE count
    BY <1>1, ViLesser DEF V!Times
  <2> QED BY <1>1, <2>1
<1>3. V!Max({0, V!strlen(buffer[cur.row + cur.off]) - 1}) \in Int
  <2> DEFINE len == V!strlen(buffer[cur.row + cur.off])
  <2>1. len \in Int
    BY LengthOf DEF V!Fit
  <2> HIDE DEF len
  <2>2. len - 1 \in Int
    BY <2>1
  <2>3. V!Max({0, len - 1}) \in Int
    <3> DEFINE k == len - 1
    <3> HIDE DEF k
    <3>1. k \in Int
      BY <2>2 DEF k
    <3>2. V!Max({0, k}) = IF 0 >= k THEN 0 ELSE k
      BY <3>1, ViLesser
    <3>3. V!Max({0, k}) \in Int
      BY <3>1, <3>2
    <3> QED BY <3>3 DEF k
  <2> QED BY <2>3 DEF len
<1> DEFINE end == V!Max({0, V!strlen(buffer[cur.row + cur.off]) - 1})
           by == (ROWS - 1) * V!Times
<1>4. by \in Int
  BY <1>1, <1>2
<1>5. \/ c \in {<<"h">>, <<"esc", "[", "D">>}
      \/ c \in {<<"l">>, <<"esc", "[", "C">>}
      \/ c \in {<<"k">>, <<"esc", "[", "A">>}
      \/ c \in {<<"j">>, <<"esc", "[", "B">>}
      \/ c = <<"esc", "[", "5", "~">>
      \/ c = <<"esc", "[", "6", "~">>
      \/ c \in {<<"0">>, <<"esc", "[", "H">>}
      \/ c \in {<<"$">>, <<"esc", "[", "F">>}
      \/ c = <<"G">>
  BY DEF V!Motions
<1>6. V!Target(c) \in {<<cur.row, cur.col - V!Times>>, <<cur.row, cur.col + V!Times>>, <<cur.row - V!Times, cur.col>>,
                       <<cur.row + V!Times, cur.col>>, <<cur.row - by + 1, cur.col>>, <<cur.row + by - 1, cur.col>>,
                       <<cur.row, 0>>, <<cur.row, end>>, <<IF count # 0 THEN count - 1 ELSE lines - 1, cur.col>>}
  <2> HIDE DEF end, by
  <2> QED BY <1>5 DEF V!Target, end, by
<1> HIDE DEF end, by
<1> QED BY <1>1, <1>2, <1>3, <1>4, <1>6 DEF end

(* The commands of command mode.                                            *)
LEMMA RunCommand == ASSUME V!Fit, ViInv, mode = "Command", NEW c, V!run_command(c) PROVE ViInv'
<1>1. /\ cur.row \in Nat /\ cur.col \in Nat /\ lines \in 1 .. MAX_ROWS /\ count \in Nat /\ MAX_ROWS \in Nat
      /\ MAX_COLS \in Nat /\ cur.row \in V!Rows /\ buffer = [r \in V!Rows |-> buffer[r]]
  BY DEF ViInv, Inside, Cursor, V!Fit, V!Rows
<1>2. V!Times \in Nat \ {0}
  <2>1. V!Times = IF 1 >= count THEN 1 ELSE count
    BY <1>1, ViLesser DEF V!Times
  <2> QED BY <1>1, <2>1
<1>3. count' = 0 /\ past' = (past /\ V!Stays(c))
  BY DEF V!run_command
<1>4. \A a : V!Edited(a) = [r \in V!Rows |-> V!Edited(a)[r]]
  BY <1>1 DEF V!Edited
<1>5. CASE V!Motion(c)
  <2>1. V!Target(c)[1] \in Int /\ V!Target(c)[2] \in Int
    BY <1>5, TargetsAre DEF V!Motion
  <2> QED BY <1>1, <1>3, <1>5, <2>1, CursorMoved DEF V!Motion, V!Same
<1>6. CASE V!Insert(c)
  <2>1. CASE c = <<"a">>
    <3>1. cur.row \in Int /\ cur.col + 1 \in Int
      BY <1>1
    <3> QED BY <1>1, <1>3, <1>6, <2>1, <3>1, CursorMoved DEF V!Insert, V!Same
  <2>2. CASE c # <<"a">>
    BY <1>3, <1>6, <2>2, TextKept DEF V!Insert, V!Same, V!Stays
  <2> QED BY <2>1, <2>2
<1>7. CASE V!Replace(c)
  <2>1. PICK k \in Chars : c = <<"r", k>>
    BY <1>7 DEF V!Replace
  <2>2. c[1] = "r" /\ c[2] = k /\ k # "end"
    BY <2>1 DEF V!Fit
  <2>3. CASE V!TooFew
    <3>1. past => past'
      BY <1>3, <2>2 DEF V!Stays
    <3> QED BY <1>3, <1>7, <2>3, <3>1, TextKept DEF V!Replace
  <2>4. CASE ~V!TooFew
    <3> DEFINE a == [x \in V!Cols |-> IF x \in cur.col .. cur.col + V!Times - 1 THEN c[2] ELSE V!Line[x]]
    <3>1. buffer' = V!Edited(a) /\ UNCHANGED <<lines, cur, mode>>
      BY <1>7, <2>4 DEF V!Replace
    <3>2. buffer'[cur.row] = a
      BY <1>1, <3>1 DEF V!Edited
    <3>3. V!strlen(V!Line) \in 0 .. MAX_COLS /\ \A x \in V!Cols : x < V!strlen(V!Line) => V!Line[x] # "end"
      BY <1>1, LengthOf
    <3>4. V!strlen(a) >= V!strlen(V!Line)
      <4>1. \A x \in V!Cols : x < V!strlen(V!Line) => a[x] # "end"
        BY <2>2, <3>3
      <4> HIDE DEF a
      <4> QED BY <1>1, <3>3, <4>1, AtLeast
    <3>5. V!strlen(a) \in Nat
      BY <1>1, LengthOf
    <3>6. cur.col < V!strlen(V!Line)
      BY <1>1, <1>2, <2>4, <3>3 DEF V!TooFew
    <3> HIDE DEF a
    <3>7. cur.col < V!strlen(buffer'[cur.row])
      BY <1>1, <3>2, <3>3, <3>4, <3>5, <3>6
    <3>8. V!strlen(buffer'[cur.row]) \in Nat
      BY <3>2, <3>5
    <3>9. Inside(buffer', lines', "any", cur') /\ Inside(buffer', lines', "Command", cur')
      BY <1>1, <3>1, <3>7, <3>8 DEF Inside, ViInv
    <3>10. buffer' = [r \in V!Rows |-> buffer'[r]]
      BY <1>4, <3>1
    <3> QED BY <1>1, <1>3, <3>1, <3>9, <3>10 DEF ViInv
  <2> QED BY <2>3, <2>4
<1>8. CASE V!DeleteChars(c)
  <2>1. CASE V!TooFew
    <3>1. past => past'
      BY <1>3, <1>8, <2>1 DEF V!Stays, V!DeleteChars
    <3> QED BY <1>3, <1>8, <2>1, <3>1, TextKept DEF V!DeleteChars
  <2>2. CASE ~V!TooFew
    <3>1. buffer' = [r \in V!Rows |-> buffer'[r]] /\ V!cursor(cur.row, cur.col) /\ UNCHANGED <<lines, mode>>
      BY <1>4, <1>8, <2>2 DEF V!DeleteChars
    <3> QED BY <1>1, <1>3, <3>1, CursorMoved
  <2> QED BY <2>1, <2>2
<1>9. CASE V!DeleteLines(c)
  <2>1. buffer' = [r \in V!Rows |-> buffer'[r]]
    BY <1>1, <1>9 DEF V!DeleteLines, V!Deleted
  <2>2. lines' \in 1 .. MAX_ROWS
    <3>1. V!Max({1, lines - V!Times}) = IF 1 >= lines - V!Times THEN 1 ELSE lines - V!Times
      BY <1>1, <1>2, ViLesser, SMTT(30)
    <3>2. lines' = V!Left(V!Times)
      BY <1>9 DEF V!DeleteLines
    <3> QED BY <1>1, <1>2, <3>1, <3>2 DEF V!Left
  <2> QED BY <1>1, <1>3, <1>9, <2>1, <2>2, CursorMoved DEF V!DeleteLines
<1>10. CASE V!DeleteWord(c)
  <2>1. buffer' = [r \in V!Rows |-> buffer'[r]] /\ UNCHANGED lines /\ mode' # "CommandLine"
    BY <1>4, <1>10 DEF V!DeleteWord
  <2> QED BY <1>1, <1>3, <1>10, <2>1, CursorMoved DEF V!DeleteWord
<1>11. CASE V!Other(c)
  <2>1. CASE c = <<":">> /\ mode' = "CommandLine" /\ V!Same /\ UNCHANGED cur
    <3>1. past => past'
      <4>1. c[1] = ":"
        BY <2>1
      <4> QED BY <1>3, <4>1 DEF V!Stays
    <3> QED BY <1>3, <2>1, <3>1, TextKept DEF V!Same
  <2>2. CASE \E saved \in BOOLEAN : V!Leave(saved)
    BY <1>3, <2>2, TextKept DEF V!Leave
  <2> QED BY <1>11, <2>1, <2>2 DEF V!Other
<1>12. CASE ~V!Known(c) /\ V!Same /\ UNCHANGED <<cur, mode>>
  BY <1>3, <1>12, TextKept DEF V!Same, V!Stays
<1> QED BY <1>5, <1>6, <1>7, <1>8, <1>9, <1>10, <1>11, <1>12 DEF V!run_command

(* A key in command mode.                                                   *)
LEMMA CommandStep == ASSUME V!Fit, ViInv, NEW k, V!CommandKey(k) PROVE ViInv'
<1>1. CASE V!Digit(k)
  <2>1. count' \in Nat
    BY <1>1 DEF V!Digit, V!Value, ViInv
  <2> QED BY <1>1, <2>1, TextKept DEF V!Digit, V!Same
<1>2. CASE V!Prefix(k)
  <2>1. count' \in Nat
    BY <1>2 DEF V!Prefix, ViInv
  <2> QED BY <1>2, <2>1, TextKept DEF V!Prefix, V!Same
<1>3. CASE V!run_command(Append(cmd, k))
  BY <1>3, RunCommand DEF V!CommandKey
<1> QED BY <1>1, <1>2, <1>3 DEF V!CommandKey

(* A key in insert mode.                                                    *)
LEMMA InsertStep == ASSUME V!Fit, ViInv, NEW k, V!InsertKey(k) PROVE ViInv'
<1>1. /\ cur.row \in Nat /\ cur.col \in Nat /\ lines \in 1 .. MAX_ROWS /\ count' \in Nat /\ MAX_ROWS \in Nat
      /\ MAX_COLS \in Nat /\ cur.row \in V!Rows /\ buffer = [r \in V!Rows |-> buffer[r]] /\ mode = "Insert"
      /\ cur \in Cursor
  BY DEF ViInv, Inside, Cursor, V!Fit, V!Rows, V!InsertKey
<1>2. \A a : V!Edited(a) = [r \in V!Rows |-> V!Edited(a)[r]]
  BY <1>1 DEF V!Edited
<1>3. cur.row \in Int /\ cur.col - 1 \in Int /\ cur.row + 1 \in Int /\ 0 \in Int
  BY <1>1
<1>4. CASE V!Escape(k)
  BY <1>1, <1>3, <1>4, CursorMoved DEF V!Escape, V!Same
<1>5. CASE V!Backspace(k)
  <2>1. buffer' = [r \in V!Rows |-> buffer'[r]]
    BY <1>2, <1>5 DEF V!Backspace
  <2> QED BY <1>1, <1>3, <1>5, <2>1, CursorMoved DEF V!Backspace
<1>6. CASE V!Newline(k)
  <2>1. buffer' = [r \in V!Rows |-> buffer'[r]]
    BY <1>6 DEF V!Newline, V!Split
  <2>2. lines' \in 1 .. MAX_ROWS
    BY <1>1, <1>6 DEF V!Newline, V!InsertKey, V!WritesBeyond
  <2> QED BY <1>1, <1>3, <1>6, <2>1, <2>2, CursorMoved DEF V!Newline
<1>7. CASE V!Char(k)
  <2> DEFINE a == [c \in V!Cols |-> IF c = cur.col THEN k ELSE IF c > cur.col THEN V!Line[c - 1] ELSE V!Line[c]]
             len == V!strlen(V!Line)
  <2>1. /\ buffer' = V!Edited(a) /\ cur' = [cur EXCEPT !.col = @ + 1] /\ UNCHANGED <<lines, mode>>
        /\ k \in Chars /\ V!Typed(k)
    BY <1>7 DEF V!Char, V!Typed
  <2>2. len \in 0 .. MAX_COLS /\ len < MAX_COLS - 1 /\ cur.col <= len /\ k # "end" /\ \A c \in V!Cols : c < len => V!Line[c] # "end"
    BY <1>1, <2>1, LengthOf DEF ViInv, Inside, V!Line, V!Fit, V!InsertKey, V!WritesBeyond
  <2> HIDE DEF len
  <2>3. \A c \in V!Cols : c < cur.col + 1 => a[c] # "end"
    <3> TAKE c \in V!Cols
    <3> HAVE c < cur.col + 1
    <3>1. c \in Nat
      BY DEF V!Cols
    <3>2. c = cur.col \/ (c < cur.col /\ c < len)
      BY <1>1, <2>2, <3>1
    <3> QED BY <1>1, <2>2, <3>1, <3>2
  <2>4. buffer'[cur.row] = a /\ buffer' = [r \in V!Rows |-> buffer'[r]]
    BY <1>1, <1>2, <2>1 DEF V!Edited
  <2> HIDE DEF a
  <2>5. V!strlen(a) >= cur.col + 1
    BY <1>1, <2>1, <2>2, <2>3, AtLeast
  <2>6. V!strlen(a) \in Nat
    BY <1>1, LengthOf
  <2>7. cur' \in Cursor /\ cur'.row = cur.row /\ cur'.col = cur.col + 1 /\ cur'.off = cur.off
    BY <1>1, <2>1 DEF Cursor
  <2>8. cur'.col <= V!strlen(buffer'[cur'.row]) /\ V!strlen(buffer'[cur'.row]) \in Nat
    BY <1>1, <2>4, <2>5, <2>6, <2>7
  <2>9. Inside(buffer', lines', "any", cur')
    BY <2>1, <2>7, <2>8 DEF Inside, ViInv
  <2> QED BY <1>1, <2>1, <2>4, <2>9 DEF ViInv
<1> QED BY <1>4, <1>5, <1>6, <1>7 DEF V!InsertKey

(* load_file() leaves a text of at least one line, which fits.              *)
LEMMA FileLoaded ==
    ASSUME V!Fit, NEW b, NEW tab \in Files
    PROVE  /\ V!Loaded(b, tab) = [r \in V!Rows |-> V!Loaded(b, tab)[r]]
           /\ V!LinesOf(tab) \in 1 .. MAX_ROWS
<1>1. Len(tab) \in 0 .. MAX_ROWS /\ MAX_ROWS \in Nat \ {0}
  BY DEF V!Fit
<1>2. V!LinesOf(tab) = IF 1 >= Len(tab) THEN 1 ELSE Len(tab)
  <2>1. PICK n \in Int : n = Len(tab)
    BY <1>1
  <2>2. V!Max({1, n}) = IF 1 >= n THEN 1 ELSE n
    BY ViLesser
  <2> QED BY <2>1, <2>2 DEF V!LinesOf
<1> QED BY <1>1, <1>2 DEF V!Loaded

(* The command line.                                                        *)
LEMMA LineStep == ASSUME V!Fit, ViInv, V!CommandLine PROVE ViInv'
<1>1. count' \in Nat /\ mode = "CommandLine"
  BY DEF ViInv, V!CommandLine
<1>2. CASE V!Read
  <2>1. PICK tab \in Files :
          /\ buffer' = V!Loaded(buffer, tab) /\ lines' = V!LinesOf(tab)
          /\ cur' = V!Moved(buffer', lines', "CommandLine", 0, 0)
          /\ past' = (cur'.col > V!LastCol("Command", V!strlen(buffer'[0])))
    BY <1>2 DEF V!Read
  <2>2. buffer' = [r \in V!Rows |-> buffer'[r]] /\ lines' \in 1 .. MAX_ROWS /\ lines' \in Nat \ {0} /\ cur \in Cursor
    <3>1. buffer' = [r \in V!Rows |-> buffer'[r]] /\ lines' \in 1 .. MAX_ROWS
      BY <2>1, FileLoaded
    <3> QED BY <3>1 DEF ViInv, Inside
  <2>3. Inside(buffer', lines', "CommandLine", cur')
    BY <2>1, <2>2, MovedInside
  <2>4. cur'.row = 0
    <3>1. V!Max({0, 0}) = 0 /\ V!Min({0, lines' - 1}) = 0
      <4>1. lines' - 1 \in Int /\ 0 <= lines' - 1 /\ 0 \in Int
        BY <2>2
      <4>2. V!Max({0, 0}) = 0
        BY <4>1, ViLesser
      <4>3. V!Min({0, lines' - 1}) = 0
        BY <4>1, ViLesser
      <4> QED BY <4>2, <4>3
    <3> QED BY <2>1, <3>1 DEF V!Moved
  <2>5. V!strlen(buffer'[0]) \in Nat
    BY LengthOf DEF V!Fit
  <2>6. ~past' => Inside(buffer', lines', "Command", cur')
    <3> HAVE ~past'
    <3>1. cur'.col \in Nat
      BY <2>3 DEF Inside, Cursor
    <3>2. V!strlen(buffer'[0]) > 0 => cur'.col < V!strlen(buffer'[0])
      <4>1. ~(cur'.col > V!LastCol("Command", V!strlen(buffer'[0])))
        BY <2>1
      <4> QED BY <2>5, <3>1, <4>1 DEF V!LastCol
    <3> QED BY <2>3, <2>4, <3>2 DEF Inside
  <2> QED BY <1>1, <2>2, <2>3, <2>6, InsideAny DEF ViInv
<1>3. CASE V!Write
  BY <1>1, <1>3, TextKept DEF V!Write
<1>4. CASE V!Quit
  BY <1>1, <1>4, TextKept DEF V!Quit, V!Leave
<1>5. CASE V!LineEsc
  BY <1>1, <1>5, TextKept DEF V!LineEsc, V!Same
<1> QED BY <1>2, <1>3, <1>4, <1>5 DEF V!CommandLine

(* The editor starts at the first character of its file.                    *)
LEMMA ViStart == ASSUME V!Fit PROVE V!Init => ViInv
<1> SUFFICES ASSUME V!Init PROVE ViInv
  OBVIOUS
<1>1. buffer = [r \in V!Rows |-> buffer[r]] /\ lines \in 1 .. MAX_ROWS
  BY FileLoaded DEF V!Init
<1>2. cur \in Cursor /\ cur.row = 0 /\ cur.col = 0 /\ cur.off = 0 /\ count = 0
  BY DEF V!Init, Cursor
<1>3. V!strlen(buffer[cur.row]) \in Nat /\ ROWS \in Nat /\ ROWS > 2
  BY LengthOf DEF V!Fit
<1>4. Inside(buffer, lines, "any", cur) /\ Inside(buffer, lines, "Command", cur)
  BY <1>1, <1>2, <1>3 DEF Inside
<1> QED BY <1>1, <1>2, <1>4 DEF ViInv

(* A key keeps the cursor in the text.                                      *)
LEMMA ViStep == ASSUME V!Fit PROVE ViInv /\ [V!Next]_V!vars => ViInv'
<1> SUFFICES ASSUME ViInv, [V!Next]_V!vars PROVE ViInv'
  OBVIOUS
<1>1. CASE UNCHANGED V!vars
  BY <1>1 DEF V!vars, ViInv
<1>2. ASSUME NEW k, V!GoBeyond(k) PROVE ViInv'
  <2>1. UNCHANGED <<buffer, lines, cur, mode, count, past>>
    BY <1>2 DEF V!GoBeyond
  <2> QED BY <2>1 DEF ViInv
<1> QED BY <1>1, <1>2, CommandStep, InsertStep, LineStep DEF V!Next

(* move_cursor() keeps the cursor in the text and in the window, through    *)
(* any sequence of keys that stays in the arrays, for any screen and any    *)
(* files.                                                                   *)
THEOREM CursorKept == ASSUME V!Fit PROVE V!Spec => []CursorInText
<1>1. V!Init => ViInv
  BY ViStart
<1>2. ViInv /\ [V!Next]_V!vars => ViInv'
  BY ViStep
<1>3. ViInv => CursorInText
  <2> SUFFICES ASSUME ViInv PROVE V!CursorInText
    BY DEF CursorInText
  <2>1. cur.row \in Nat /\ cur.off \in Nat /\ ROWS \in Nat /\ lines \in 1 .. MAX_ROWS /\ MAX_ROWS \in Nat
    BY DEF ViInv, Inside, Cursor, V!Fit
  <2>2. cur.row < lines /\ cur.off <= cur.row /\ cur.row <= cur.off + ROWS - 2
        /\ cur.col <= V!strlen(buffer[cur.row])
    BY DEF ViInv, Inside
  <2>3. mode = "Command" /\ ~past /\ V!strlen(buffer[cur.row]) > 0 => cur.col < V!strlen(buffer[cur.row])
    BY DEF ViInv, Inside
  <2> QED BY <2>1, <2>2, <2>3 DEF V!CursorInText
<1> QED BY <1>1, <1>2, <1>3, PTL DEF V!Spec

(* Lines a to b of a text are found in another, k further.                  *)
Shifted(s, u, a, b, k) == \A x \in a .. b : s[x] = u[x + k]
Part(s, a, b) == SubSeq(s, a, b)

(* Parts of two texts are the same when their lines are.                    *)
LEMMA ShiftedSlices ==
    ASSUME NEW s, NEW u, NEW a \in Int, NEW b \in Int, NEW k \in Int, Shifted(s, u, a, b, k)
    PROVE  Part(s, a, b) = Part(u, a + k, b + k)
<1> DEFINE S == {s[x] : x \in a .. b} \cup {u[x] : x \in a + k .. b + k}
           p == SubSeq(s, a, b)
           q == SubSeq(u, a + k, b + k)
<1>1. (\A x \in a .. b : s[x] \in S) /\ (\A x \in a + k .. b + k : u[x] \in S)
  OBVIOUS
<1> HIDE DEF S
<1>2. /\ p \in Seq(S) /\ Len(p) = (IF a <= b THEN b - a + 1 ELSE 0)
      /\ \A x \in 1 .. b - a + 1 : p[x] = s[a + x - 1]
  BY <1>1, SubSeqProperties
<1>3. /\ q \in Seq(S) /\ Len(q) = (IF a <= b THEN b - a + 1 ELSE 0)
      /\ \A x \in 1 .. b - a + 1 : q[x] = u[a + k + x - 1]
  <2> DEFINE c == a + k
             d == b + k
  <2>1. c \in Int /\ d \in Int /\ d - c = b - a /\ (c <= d <=> a <= b)
    OBVIOUS
  <2> HIDE DEF c, d
  <2>2. \A x \in c .. d : u[x] \in S
    BY <1>1 DEF c, d
  <2>3. /\ SubSeq(u, c, d) \in Seq(S) /\ Len(SubSeq(u, c, d)) = (IF c <= d THEN d - c + 1 ELSE 0)
        /\ \A x \in 1 .. d - c + 1 : SubSeq(u, c, d)[x] = u[c + x - 1]
    BY <2>1, <2>2, SubSeqProperties
  <2>4. /\ SubSeq(u, c, d) \in Seq(S) /\ Len(SubSeq(u, c, d)) = (IF a <= b THEN b - a + 1 ELSE 0)
        /\ \A x \in 1 .. b - a + 1 : SubSeq(u, c, d)[x] = u[c + x - 1]
    BY <2>1, <2>3
  <2> QED BY <2>4 DEF c, d
<1>4. ASSUME NEW x \in 1 .. Len(p) PROVE p[x] = q[x]
  <2>1. a <= b /\ x \in 1 .. b - a + 1 /\ a + x - 1 \in a .. b /\ (a + x - 1) + k = a + k + x - 1
    BY <1>2
  <2>2. p[x] = s[a + x - 1] /\ q[x] = u[a + k + x - 1]
    BY <1>2, <1>3, <2>1
  <2>3. s[a + x - 1] = u[(a + x - 1) + k]
    BY <2>1 DEF Shifted
  <2> QED BY <2>1, <2>2, <2>3
<1> HIDE DEF p, q
<1>5. p = q
  BY <1>2, <1>3, <1>4, SeqEqual
<1> QED BY <1>5 DEF p, q, Part

(* The same, line by line.                                                  *)
LEMMA Slices ==
    ASSUME NEW s, NEW u, NEW a \in Int, NEW b \in Int, NEW k \in Int, \A x \in a .. b : s[x] = u[x + k]
    PROVE  SubSeq(s, a, b) = SubSeq(u, a + k, b + k)
<1>1. Shifted(s, u, a, b, k)
  BY DEF Shifted
<1>2. Part(s, a, b) = Part(u, a + k, b + k)
  BY <1>1, ShiftedSlices
<1> QED BY <1>2 DEF Part

(* The same part of both.                                                   *)
LEMMA SameSlice ==
    ASSUME NEW s, NEW u, NEW a \in Int, NEW b \in Int, \A x \in a .. b : s[x] = u[x]
    PROVE  SubSeq(s, a, b) = SubSeq(u, a, b)
<1>1. PICK k \in Int : k = 0
  OBVIOUS
<1>2. Shifted(s, u, a, b, k)
  BY <1>1 DEF Shifted
<1>3. Part(s, a, b) = Part(u, a + k, b + k)
  BY <1>2, ShiftedSlices
<1>4. a + k = a /\ b + k = b
  BY <1>1
<1>5. Part(s, a, b) = Part(u, a, b)
  BY <1>3, <1>4
<1> QED BY <1>5 DEF Part

(* The lines of the text before and after a step.                           *)
LEMMA ContentsAre ==
    /\ \A x \in 1 .. lines : V!Contents[x] = V!Text(buffer[x - 1])
    /\ \A x \in 1 .. lines' : V!Contents'[x] = V!Text(buffer'[x - 1])
BY DEF V!Contents, V!Text, V!strlen, V!Cols, V!Min

(* A key that changes no line but that of the cursor.                       *)
LEMMA LineEdited ==
    ASSUME V!Fit, ViInv, lines' = lines, \A r \in V!Rows : r # cur.row => buffer'[r] = buffer[r]
    PROVE  V!LinesKept
<1>1. cur.row \in Nat /\ cur.row < lines /\ lines \in Nat /\ lines <= MAX_ROWS /\ MAX_ROWS \in Nat
  BY DEF ViInv, Inside, Cursor, V!Fit
<1>2. ASSUME NEW x \in 1 .. lines, x # cur.row + 1 PROVE V!Contents'[x] = V!Contents[x]
  <2>1. x - 1 \in V!Rows /\ x - 1 # cur.row
    BY <1>1, <1>2 DEF V!Rows
  <2>2. buffer'[x - 1] = buffer[x - 1]
    BY <2>1
  <2> QED BY <2>2, ContentsAre
<1>3. SubSeq(V!Contents', 1, cur.row) = SubSeq(V!Contents, 1, cur.row)
  <2>1. \A x \in 1 .. cur.row : V!Contents'[x] = V!Contents[x]
    BY <1>1, <1>2
  <2> QED BY <1>1, <2>1, SameSlice
<1>4. SubSeq(V!Contents', cur.row + 1 + 1, lines) = SubSeq(V!Contents, cur.row + 1 + 1, lines)
  <2>1. PICK a \in Int : a = cur.row + 1 + 1
    BY <1>1
  <2>2. PICK b \in Int : b = lines
    BY <1>1
  <2>3. \A x \in a .. b : V!Contents'[x] = V!Contents[x]
    BY <1>1, <1>2, <2>1, <2>2
  <2>4. SubSeq(V!Contents', a, b) = SubSeq(V!Contents, a, b)
    BY <2>3, SameSlice
  <2> QED BY <2>1, <2>2, <2>4
<1>5. ~(lines' - lines > 0) /\ ~(lines' - lines < 0)
  BY <1>1
<1> QED BY <1>3, <1>4, <1>5, Zenon DEF V!LinesKept

(* The rows of the buffer are arrays.                                       *)
IsArray(a) == a = [c \in V!Cols |-> a[c]]
Arrays == \A r \in V!Rows : IsArray(buffer[r])

(* What a key does to the text: nothing, an edit of the line that the       *)
(* cursor is in, the deletion of lines, a line that is split, or another    *)
(* file.                                                                    *)
LEMMA TextChanged ==
    ASSUME V!Fit, ViInv, Arrays, [V!Next]_V!vars
    PROVE  \/ buffer' = buffer /\ lines' = lines
           \/ lines' = lines /\ \E a : IsArray(a) /\ buffer' = V!Edited(a)
           \/ buffer' = V!Deleted(V!Times) /\ lines' = V!Left(V!Times)
           \/ lines < MAX_ROWS /\ buffer' = V!Split(buffer) /\ lines' = lines + 1
           \/ mode = "CommandLine" /\ \E new \in Files : buffer' = V!Loaded(buffer, new)
<1>1. IsArray(V!Line)
  BY DEF ViInv, Inside, Cursor, V!Fit, V!Rows, V!Line, Arrays
<1>2. \A x, y : IsArray(V!Closed(V!Line, x, y))
  BY DEF IsArray, V!Closed
<1>3. \A x, y : IsArray([V!Line EXCEPT ![x] = y])
  BY <1>1 DEF IsArray
<1>4. ASSUME NEW c, V!run_command(c)
      PROVE  \/ buffer' = buffer /\ lines' = lines
             \/ lines' = lines /\ \E a : IsArray(a) /\ buffer' = V!Edited(a)
             \/ buffer' = V!Deleted(V!Times) /\ lines' = V!Left(V!Times)
  <2>1. CASE V!Motion(c) \/ V!Insert(c) \/ V!Other(c) \/ V!Same
    BY <2>1 DEF V!Motion, V!Insert, V!Other, V!Leave, V!Same
  <2>2. CASE V!Replace(c)
    <3> DEFINE a == [x \in V!Cols |-> IF x \in cur.col .. cur.col + V!Times - 1 THEN c[2] ELSE V!Line[x]]
    <3>1. IsArray(a)
      BY DEF IsArray
    <3> HIDE DEF a
    <3>2. lines' = lines /\ (buffer' = buffer \/ buffer' = V!Edited(a))
      BY <2>2 DEF V!Replace, a
    <3> QED BY <3>1, <3>2
  <2>3. CASE V!DeleteChars(c)
    <3>1. IsArray(V!Cut(V!Times))
      BY DEF IsArray, V!Cut
    <3> QED BY <2>3, <3>1 DEF V!DeleteChars
  <2>4. CASE V!DeleteLines(c)
    BY <2>4 DEF V!DeleteLines
  <2>5. CASE V!DeleteWord(c)
    BY <1>2, <2>5 DEF V!DeleteWord, V!WordDeleted
  <2> QED BY <1>4, <2>1, <2>2, <2>3, <2>4, <2>5 DEF V!run_command
<1>5. ASSUME NEW k, V!CommandKey(k)
      PROVE  \/ buffer' = buffer /\ lines' = lines
             \/ lines' = lines /\ \E a : IsArray(a) /\ buffer' = V!Edited(a)
             \/ buffer' = V!Deleted(V!Times) /\ lines' = V!Left(V!Times)
  BY <1>4, <1>5 DEF V!CommandKey, V!Digit, V!Prefix, V!Same
<1>6. ASSUME NEW k, V!InsertKey(k)
      PROVE  \/ buffer' = buffer /\ lines' = lines
             \/ lines' = lines /\ \E a : IsArray(a) /\ buffer' = V!Edited(a)
             \/ lines < MAX_ROWS /\ buffer' = V!Split(buffer) /\ lines' = lines + 1
  <2>1. CASE V!Escape(k)
    BY <2>1 DEF V!Escape, V!Same
  <2>2. CASE V!Backspace(k)
    BY <1>3, <2>2 DEF V!Backspace
  <2>3. CASE V!Newline(k)
    <3>1. lines < MAX_ROWS
      BY <1>6, <2>3 DEF V!Newline, V!InsertKey, V!WritesBeyond, ViInv, V!Fit
    <3> QED BY <2>3, <3>1 DEF V!Newline
  <2>4. CASE V!Char(k)
    <3> DEFINE a == [c \in V!Cols |-> IF c = cur.col THEN k ELSE IF c > cur.col THEN V!Line[c - 1] ELSE V!Line[c]]
    <3>1. IsArray(a)
      BY DEF IsArray
    <3>2. buffer' = V!Edited(a) /\ lines' = lines
      BY <2>4 DEF V!Char
    <3> HIDE DEF a
    <3> QED BY <3>1, <3>2
  <2> QED BY <1>6, <2>1, <2>2, <2>3, <2>4 DEF V!InsertKey
<1>7. ASSUME V!CommandLine
      PROVE  \/ buffer' = buffer /\ lines' = lines
             \/ mode = "CommandLine" /\ \E new \in Files : buffer' = V!Loaded(buffer, new)
  BY <1>7 DEF V!CommandLine, V!Read, V!Write, V!Quit, V!Leave, V!LineEsc, V!Same
<1>8. CASE UNCHANGED V!vars
  BY <1>8 DEF V!vars
<1>9. CASE V!Next
  <2>1. ASSUME NEW k \in Keys, V!CommandKey(k) \/ V!InsertKey(k)
        PROVE  \/ buffer' = buffer /\ lines' = lines
               \/ lines' = lines /\ \E a : IsArray(a) /\ buffer' = V!Edited(a)
               \/ buffer' = V!Deleted(V!Times) /\ lines' = V!Left(V!Times)
               \/ lines < MAX_ROWS /\ buffer' = V!Split(buffer) /\ lines' = lines + 1
    BY <1>5, <1>6, <2>1, Zenon
  <2>2. ASSUME NEW k \in Keys, V!GoBeyond(k) PROVE buffer' = buffer /\ lines' = lines
    BY <2>2 DEF V!GoBeyond
  <2> QED BY <1>7, <1>9, <2>1, <2>2, Zenon DEF V!Next
<1> QED BY <1>8, <1>9

(* They stay arrays.                                                        *)
LEMMA ArraysKept == ASSUME V!Fit, ViInv, Arrays, [V!Next]_V!vars PROVE Arrays'
<1>1. cur.row \in V!Rows /\ buffer = [r \in V!Rows |-> buffer[r]] /\ IsArray(V!Empty)
  BY DEF ViInv, Inside, Cursor, V!Fit, V!Rows, IsArray, V!Empty
<1>2. CASE buffer' = buffer
  BY <1>2 DEF Arrays
<1>3. ASSUME NEW a, IsArray(a), buffer' = V!Edited(a) PROVE Arrays'
  BY <1>1, <1>3 DEF Arrays, V!Edited
<1>4. CASE buffer' = V!Deleted(V!Times)
  <2>1. ASSUME NEW r \in V!Rows PROVE buffer'[r] = V!Empty \/ \E q \in V!Rows : buffer'[r] = buffer[q]
    <3>1. V!Times \in Nat \ {0} /\ lines \in 1 .. MAX_ROWS /\ MAX_ROWS \in Nat /\ r \in Nat
      <4>1. V!Times = (IF 1 >= count THEN 1 ELSE count) /\ count \in Nat
        BY ViLesser DEF V!Times, ViInv
      <4> QED BY <4>1 DEF ViInv, V!Fit, V!Rows
    <3>2. r + V!Times < lines => r + V!Times \in V!Rows
      BY <3>1 DEF V!Rows
    <3> QED BY <1>4, <3>2 DEF V!Deleted
  <2> QED BY <1>1, <2>1 DEF Arrays
<1>5. CASE buffer' = V!Split(buffer)
  <2>1. IsArray([V!Line EXCEPT ![cur.col] = "end"]) /\ \A s : IsArray(V!Array(s))
    BY <1>1 DEF Arrays, V!Line, IsArray, V!Array
  <2>2. ASSUME NEW r \in V!Rows PROVE IsArray(buffer'[r])
    <3>1. r \in Nat /\ cur.row \in Nat /\ (r > cur.row + 1 => r - 1 \in V!Rows)
      BY <1>1 DEF V!Rows, V!Fit
    <3>2. IsArray(buffer[r]) /\ (r > cur.row + 1 => IsArray(buffer[r - 1]))
      BY <3>1 DEF Arrays
    <3> QED BY <1>5, <2>1, <3>2 DEF V!Split
  <2> QED BY <2>2 DEF Arrays
<1>6. ASSUME NEW new, buffer' = V!Loaded(buffer, new) PROVE Arrays'
  BY <1>6 DEF Arrays, V!Loaded, IsArray
<1> QED BY <1>2, <1>3, <1>4, <1>5, <1>6, TextChanged

(* An array is as long as it has no "end" before.                           *)
LEMMA LengthIs ==
    ASSUME MAX_COLS \in Nat, NEW a, NEW n \in 0 .. MAX_COLS, \A c \in V!Cols : c < n => a[c] # "end",
           n < MAX_COLS => a[n] = "end"
    PROVE  V!strlen(a) = n
<1>1. /\ V!strlen(a) \in 0 .. MAX_COLS
      /\ \A c \in V!Cols : c < V!strlen(a) => a[c] # "end"
  BY LengthOf
<1>2. V!strlen(a) >= n
  BY AtLeast
<1>3. ~(n < V!strlen(a))
  <2> SUFFICES ASSUME n < V!strlen(a) PROVE FALSE
    OBVIOUS
  <2>1. n \in V!Cols /\ n < MAX_COLS
    BY <1>1 DEF V!Cols
  <2> QED BY <1>1, <2>1
<1> QED BY <1>1, <1>2, <1>3

(* A line that is copied into an array is its text.                         *)
LEMMA ArrayOf ==
    ASSUME MAX_COLS \in Nat, NEW s, Len(s) \in 0 .. MAX_COLS, s = [x \in 1 .. Len(s) |-> s[x]],
           \A x \in 1 .. Len(s) : s[x] # "end"
    PROVE  V!Text(V!Array(s)) = s
<1> DEFINE a == V!Array(s)
<1>1. \A c \in V!Cols : a[c] = IF c < Len(s) THEN s[c + 1] ELSE "end"
  BY DEF V!Array
<1>2. \A c \in V!Cols : c < Len(s) => c + 1 \in 1 .. Len(s)
  BY DEF V!Cols
<1>3. \A c \in V!Cols : c < Len(s) => a[c] # "end"
  BY <1>1, <1>2
<1>4. Len(s) < MAX_COLS => a[Len(s)] = "end"
  <2>1. Len(s) < MAX_COLS => Len(s) \in V!Cols
    BY DEF V!Cols
  <2> QED BY <1>1, <2>1
<1> HIDE DEF a
<1>5. V!strlen(a) = Len(s)
  BY <1>3, <1>4, LengthIs
<1>6. \A x \in 1 .. Len(s) : a[x - 1] = s[x]
  <2> TAKE x \in 1 .. Len(s)
  <2>1. x - 1 \in V!Cols /\ x - 1 < Len(s) /\ (x - 1) + 1 = x
    BY DEF V!Cols
  <2> QED BY <1>1, <2>1
<1>7. V!Text(a) = [x \in 1 .. Len(s) |-> a[x - 1]]
  BY <1>5 DEF V!Text
<1> QED BY <1>6, <1>7 DEF a

(* split_line(): the two lines are the old one.                             *)
LEMMA Halves ==
    ASSUME MAX_COLS \in Nat, NEW a, IsArray(a), NEW col \in 0 .. V!strlen(a)
    PROVE  V!Text([a EXCEPT ![col] = "end"]) \o V!Text(V!Array(SubSeq(V!Text(a), col + 1, V!strlen(a)))) = V!Text(a)
<1> DEFINE len == V!strlen(a)
           all == V!Text(a)
           first == [a EXCEPT ![col] = "end"]
           rest == SubSeq(all, col + 1, len)
           S == {all[x] : x \in 1 .. len}
<1>1. len \in 0 .. MAX_COLS /\ \A c \in V!Cols : c < len => a[c] # "end"
  BY LengthOf
<1>2. all = [x \in 1 .. len |-> a[x - 1]]
  BY DEF V!Text
<1> HIDE DEF len, all
<1>3. \A x \in 1 .. len : all[x] = a[x - 1] /\ all[x] # "end"
  <2> TAKE x \in 1 .. len
  <2>1. x - 1 \in V!Cols /\ x - 1 < len
    BY <1>1 DEF V!Cols
  <2>2. a[x - 1] # "end"
    BY <1>1, <2>1
  <2> QED BY <1>2, <2>2
<1>4. all \in Seq(S) /\ Len(all) = len
  <2>1. \A x \in 1 .. len : a[x - 1] \in S
    BY <1>3
  <2> HIDE DEF S
  <2>2. all \in [1 .. len -> S] /\ len \in Nat
    BY <1>1, <1>2, <2>1
  <2> QED BY <2>2
<1> HIDE DEF S
<1>5. V!Text(first) = SubSeq(all, 1, col)
  <2>1. col \in 0 .. MAX_COLS /\ col \in Nat /\ col <= len
    BY <1>1 DEF len
  <2>2. \A c \in V!Cols : first[c] = IF c = col THEN "end" ELSE a[c]
    BY DEF IsArray
  <2>3. \A c \in V!Cols : c < col => first[c] # "end"
    <3> TAKE c \in V!Cols
    <3> HAVE c < col
    <3>1. c \in Nat /\ c < len /\ c # col
      BY <1>1, <2>1 DEF V!Cols
    <3> QED BY <1>1, <2>2, <3>1
  <2>4. col < MAX_COLS => first[col] = "end"
    <3>1. col < MAX_COLS => col \in V!Cols
      BY <2>1 DEF V!Cols
    <3> QED BY <2>2, <3>1
  <2> HIDE DEF first
  <2>5. V!strlen(first) = col
    BY <2>1, <2>3, <2>4, LengthIs
  <2>6. V!Text(first) = [x \in 1 .. col |-> first[x - 1]]
    BY <2>5 DEF V!Text
  <2>7. ASSUME NEW x \in 1 .. col PROVE first[x - 1] = all[x]
    <3>1. x - 1 \in V!Cols /\ x - 1 # col /\ x \in 1 .. len
      BY <1>1, <2>1 DEF V!Cols
    <3> QED BY <1>3, <2>2, <3>1
  <2>8. V!Text(first) = [x \in 1 .. col |-> all[x]]
    BY <2>6, <2>7
  <2>9. SubSeq(all, 1, col) = [x \in 1 .. col |-> all[x]]
    BY <1>1, <1>4, <2>1
  <2> QED BY <2>8, <2>9
<1>6. V!Text(V!Array(rest)) = rest
  <2>1. col \in Nat /\ col <= len /\ len \in Nat /\ len <= MAX_COLS
    BY <1>1 DEF len
  <2>2. /\ rest \in Seq(S) /\ Len(rest) = (IF col + 1 <= len THEN len - (col + 1) + 1 ELSE 0)
        /\ \A x \in 1 .. len - (col + 1) + 1 : rest[x] = all[col + 1 + x - 1]
    <3>1. col + 1 \in Int /\ len \in Int /\ \A x \in col + 1 .. len : all[x] \in S
      BY <1>4, <2>1
    <3> QED BY <3>1, SubSeqProperties
  <2> HIDE DEF rest
  <2>3. Len(rest) = len - col
    BY <2>1, <2>2
  <2>4. ASSUME NEW x \in 1 .. Len(rest) PROVE rest[x] # "end"
    <3>1. x \in 1 .. len - (col + 1) + 1 /\ col + 1 + x - 1 \in 1 .. len
      BY <2>1, <2>3
    <3> QED BY <1>3, <2>2, <3>1
  <2>5. Len(rest) \in 0 .. MAX_COLS
    BY <2>1, <2>3
  <2>6. rest = [x \in 1 .. Len(rest) |-> rest[x]]
    BY <2>2
  <2> QED BY <2>4, <2>5, <2>6, ArrayOf
<1>7. SubSeq(all, 1, col) \o SubSeq(all, col + 1, len) = all
  <2>1. 1 \in 1 .. Len(all) + 1 /\ col \in 1 - 1 .. Len(all) /\ len \in col .. Len(all)
    BY <1>1, <1>4 DEF len
  <2>2. SubSeq(all, 1, col) \o SubSeq(all, col + 1, len) = SubSeq(all, 1, len)
    BY <1>4, <2>1, ConcatAdjacentSubSeq
  <2>3. SubSeq(all, 1, len) = all
    BY <1>4, SubSeqFull
  <2> QED BY <2>2, <2>3
<1> QED BY <1>5, <1>6, <1>7 DEF len, all

(* The lines before the cursor stay when those rows of the buffer do.       *)
LEMMA AboveKept ==
    ASSUME V!Fit, ViInv, lines' \in Nat, cur.row <= lines',
           \A r \in V!Rows : r < cur.row => buffer'[r] = buffer[r]
    PROVE  SubSeq(V!Contents', 1, cur.row) = SubSeq(V!Contents, 1, cur.row)
<1>1. cur.row \in Nat /\ cur.row < lines /\ lines \in Nat /\ lines <= MAX_ROWS /\ MAX_ROWS \in Nat
  BY DEF ViInv, Inside, Cursor, V!Fit
<1>2. ASSUME NEW x \in 1 .. cur.row PROVE V!Contents'[x] = V!Contents[x]
  <2>1. x - 1 \in V!Rows /\ x - 1 < cur.row /\ x \in 1 .. lines /\ x \in 1 .. lines'
    BY <1>1 DEF V!Rows
  <2>2. buffer'[x - 1] = buffer[x - 1]
    BY <2>1
  <2> QED BY <2>1, <2>2, ContentsAre
<1> QED BY <1>1, <1>2, SameSlice

(* split_line(): the lines below move down.                                 *)
LEMMA SplitKeeps ==
    ASSUME V!Fit, ViInv, Arrays, lines < MAX_ROWS, buffer' = V!Split(buffer), lines' = lines + 1
    PROVE  V!LinesKept
<1>1. /\ cur.row \in Nat /\ cur.row < lines /\ lines \in Nat /\ lines < MAX_ROWS /\ MAX_ROWS \in Nat
      /\ MAX_COLS \in Nat /\ cur.col \in Nat /\ cur.row \in V!Rows /\ cur.col <= V!strlen(V!Line)
  BY DEF ViInv, Inside, Cursor, V!Fit, V!Rows, V!Line
<1> DEFINE row == cur.row
           first == [V!Line EXCEPT ![cur.col] = "end"]
           rest == V!Array(SubSeq(V!Text(V!Line), cur.col + 1, V!strlen(V!Line)))
<1>2. \A r \in V!Rows : buffer'[r] = IF r = row THEN first ELSE IF r = row + 1 THEN rest
                                     ELSE IF r > row + 1 /\ r <= lines THEN buffer[r - 1] ELSE buffer[r]
  BY DEF V!Split
<1> HIDE DEF first, rest
<1>3. SubSeq(V!Contents', 1, row) = SubSeq(V!Contents, 1, row)
  <2>1. \A r \in V!Rows : r < row => buffer'[r] = buffer[r]
    <3> TAKE r \in V!Rows
    <3> HAVE r < row
    <3>1. r # row /\ r # row + 1 /\ ~(r > row + 1)
      BY <1>1 DEF V!Rows
    <3> QED BY <1>2, <3>1
  <2>2. lines' \in Nat /\ row <= lines'
    BY <1>1
  <2> QED BY <2>1, <2>2, AboveKept
<1>4. SubSeq(V!Contents', row + 1 + 2, lines + 1) = SubSeq(V!Contents, row + 1 + 1, lines)
  <2>1. PICK a \in Int : a = row + 1 + 2
    BY <1>1
  <2>2. PICK b \in Int : b = lines + 1
    BY <1>1
  <2>3. PICK k \in Int : k = -1
    OBVIOUS
  <2>4. ASSUME NEW x \in a .. b PROVE V!Contents'[x] = V!Contents[x + k]
    <3>1. /\ x \in 1 .. lines' /\ x - 1 \in V!Rows /\ x - 1 > row + 1 /\ x - 1 <= lines /\ x - 1 # row /\ x - 1 # row + 1
          /\ x + k \in 1 .. lines /\ (x + k) - 1 = (x - 1) - 1
      BY <1>1, <2>1, <2>2, <2>3 DEF V!Rows
    <3>2. buffer'[x - 1] = buffer[(x - 1) - 1]
      BY <1>2, <3>1
    <3>3. V!Contents'[x] = V!Text(buffer'[x - 1]) /\ V!Contents[x + k] = V!Text(buffer[(x + k) - 1])
      BY <3>1, ContentsAre
    <3> QED BY <3>1, <3>2, <3>3
  <2>5. SubSeq(V!Contents', a, b) = SubSeq(V!Contents, a + k, b + k)
    BY <2>4, Slices
  <2>6. a + k = row + 1 + 1 /\ b + k = lines
    BY <1>1, <2>1, <2>2, <2>3
  <2> QED BY <2>1, <2>2, <2>5, <2>6
<1>5. V!Contents'[row + 1] \o V!Contents'[row + 1 + 1] = V!Contents[row + 1]
  <2>1. /\ row + 1 \in 1 .. lines /\ row + 1 \in 1 .. lines' /\ row + 1 + 1 \in 1 .. lines'
        /\ (row + 1) - 1 = row /\ (row + 1 + 1) - 1 = row + 1 /\ row + 1 \in V!Rows /\ row + 1 # row
    BY <1>1 DEF V!Rows
  <2>2. buffer'[row] = first /\ buffer'[row + 1] = rest /\ buffer[row] = V!Line
    BY <1>1, <1>2, <2>1 DEF V!Line
  <2>3. V!Contents'[row + 1] = V!Text(first) /\ V!Contents'[row + 1 + 1] = V!Text(rest)
        /\ V!Contents[row + 1] = V!Text(V!Line)
    BY <2>1, <2>2, ContentsAre
  <2>4. IsArray(V!Line) /\ cur.col \in 0 .. V!strlen(V!Line)
    BY <1>1, LengthOf DEF Arrays, V!Line
  <2>5. V!Text(first) \o V!Text(rest) = V!Text(V!Line)
    BY <1>1, <2>4, Halves DEF first, rest
  <2> QED BY <2>3, <2>5
<1>6. lines' - lines = 1 /\ lines' - lines # 0 /\ ~(lines' - lines < 0)
  BY <1>1
<1> QED BY <1>3, <1>4, <1>5, <1>6, Zenon DEF V!LinesKept

(* delete_lines(): the lines below move up, and an empty line is left when  *)
(* there is no other.                                                       *)
LEMMA DeleteKeeps ==
    ASSUME V!Fit, ViInv, buffer' = V!Deleted(V!Times), lines' = V!Left(V!Times)
    PROVE  V!LinesKept
<1>1. /\ cur.row \in Nat /\ cur.row < lines /\ lines \in Nat /\ lines <= MAX_ROWS /\ MAX_ROWS \in Nat
      /\ MAX_COLS \in Nat /\ cur.row \in V!Rows
  BY DEF ViInv, Inside, Cursor, V!Fit, V!Rows
<1>2. PICK d \in Nat \ {0} : d = V!Times
  <2>1. V!Times = (IF 1 >= count THEN 1 ELSE count) /\ count \in Nat
    BY ViLesser DEF V!Times, ViInv
  <2> QED BY <2>1
<1> DEFINE row == cur.row
<1>3. CASE row + d > lines
  <2>1. buffer' = buffer /\ lines' = lines
    BY <1>2, <1>3 DEF V!Deleted, V!Left
  <2> QED BY <2>1, LineEdited
<1>4. CASE row + d <= lines
  <2>1. ~(row + d > lines)
    BY <1>1, <1>4
  <2>2. \A r \in V!Rows : buffer'[r] = IF r < row \/ r >= lines THEN buffer[r]
                                       ELSE IF r + d < lines THEN buffer[r + d] ELSE V!Empty
    BY <1>2, <2>1 DEF V!Deleted
  <2>3. lines' = IF 1 >= lines - d THEN 1 ELSE lines - d
    <3>1. lines' = V!Max({1, lines - d})
      BY <1>2, <2>1 DEF V!Left
    <3>2. PICK m \in Int : m = lines - d
      BY <1>1
    <3>3. V!Max({1, m}) = IF 1 >= m THEN 1 ELSE m
      BY ViLesser
    <3> QED BY <3>1, <3>2, <3>3
  <2>4. lines' \in Nat /\ lines' >= 1 /\ lines' <= lines /\ row <= lines'
    BY <1>1, <1>4, <2>3
  <2>5. SubSeq(V!Contents', 1, row) = SubSeq(V!Contents, 1, row)
    <3>1. \A r \in V!Rows : r < row => buffer'[r] = buffer[r]
      BY <2>2
    <3> QED BY <2>4, <3>1, AboveKept
  <2>6. CASE lines - d >= 1
    <3>1. lines' = lines - d /\ lines' - lines = -d
      BY <1>1, <2>3, <2>6
    <3>2. SubSeq(V!Contents', row + 1, lines') = SubSeq(V!Contents, (row + 1) - (lines' - lines), lines)
      <4>1. PICK a \in Int : a = row + 1
        BY <1>1
      <4>2. PICK b \in Int : b = lines'
        BY <2>4
      <4>3. ASSUME NEW x \in a .. b PROVE V!Contents'[x] = V!Contents[x + d]
        <5>1. /\ x \in 1 .. lines' /\ x + d \in 1 .. lines /\ x - 1 \in V!Rows /\ ~(x - 1 < row \/ x - 1 >= lines)
              /\ (x - 1) + d < lines /\ (x + d) - 1 = (x - 1) + d
          BY <1>1, <3>1, <4>1, <4>2 DEF V!Rows
        <5>2. buffer'[x - 1] = buffer[(x - 1) + d]
          BY <2>2, <5>1
        <5>3. V!Contents'[x] = V!Text(buffer'[x - 1]) /\ V!Contents[x + d] = V!Text(buffer[(x + d) - 1])
          BY <5>1, ContentsAre
        <5> QED BY <5>1, <5>2, <5>3
      <4>4. SubSeq(V!Contents', a, b) = SubSeq(V!Contents, a + d, b + d)
        BY <4>3, Slices
      <4>5. a + d = (row + 1) - (lines' - lines) /\ b + d = lines
        BY <1>1, <3>1, <4>1, <4>2
      <4> QED BY <4>1, <4>2, <4>4, <4>5
    <3>3. lines > 1 /\ lines' - lines # 0 /\ ~(lines' - lines > 0)
      BY <1>1, <2>6, <3>1
    <3>4. SubSeq(V!Contents', row + 1, lines') \in {SubSeq(V!Contents, (row + 1) - (lines' - lines), lines), << <<>> >>}
      BY <3>2, Zenon
    <3> QED BY <2>5, <3>3, <3>4, Zenon DEF V!LinesKept
  <2>7. CASE ~(lines - d >= 1)
    <3>1. lines' = 1 /\ row = 0 /\ d = lines
      BY <1>1, <1>4, <2>3, <2>7
    <3>2. CASE lines = 1
      <4>1. \A r \in V!Rows : r # row => buffer'[r] = buffer[r]
        <5> TAKE r \in V!Rows
        <5> HAVE r # row
        <5>1. r >= lines
          BY <3>1, <3>2 DEF V!Rows
        <5> QED BY <2>2, <5>1
      <4> QED BY <3>1, <3>2, <4>1, LineEdited
    <3>3. CASE lines # 1
      <4>1. buffer'[0] = V!Empty
        <5>1. 0 \in V!Rows /\ ~(0 < row \/ 0 >= lines) /\ ~(0 + d < lines)
          BY <1>1, <3>1
        <5> QED BY <2>2, <5>1
      <4>2. V!Text(V!Empty) = <<>>
        <5>1. V!strlen(V!Empty) = 0
          <6>1. \A c \in V!Cols : V!Empty[c] = "end" /\ ~(c < 0)
            BY <1>1 DEF V!Empty, V!Cols
          <6>2. 0 < MAX_COLS => 0 \in V!Cols
            BY <1>1 DEF V!Cols
          <6> QED BY <1>1, <6>1, <6>2, LengthIs
        <5>2. V!Text(V!Empty) = [x \in 1 .. 0 |-> V!Empty[x - 1]]
          BY <5>1 DEF V!Text
        <5> QED BY <5>2
      <4>3. V!Contents'[1] = <<>>
        <5>1. 1 \in 1 .. lines' /\ 1 - 1 = 0
          BY <3>1
        <5> QED BY <4>1, <4>2, <5>1, ContentsAre
      <4>4. SubSeq(V!Contents', 1, 1) = << <<>> >>
        <5> DEFINE p == SubSeq(V!Contents', 1, 1)
        <5>1. PICK e : e = <<>>
          OBVIOUS
        <5>2. \A x \in 1 .. 1 : V!Contents'[x] \in {e}
          BY <4>3, <5>1
        <5>3. /\ p \in Seq({e}) /\ Len(p) = (IF 1 <= 1 THEN 1 - 1 + 1 ELSE 0)
          BY <5>2, 1 \in Int, SubSeqProperties
        <5> HIDE DEF p
        <5>4. Len(p) = 1 /\ p[1] = e
          BY <5>3, 1 \in 1 .. 1, ElementOfSeq
        <5>5. p = <<e>>
          BY <5>3, <5>4
        <5> QED BY <5>1, <5>5 DEF p
      <4>5. row + 1 = 1 /\ lines > 1 /\ lines' - lines # 0 /\ ~(lines' - lines > 0) /\ lines' = 1
        BY <1>1, <3>1, <3>3
      <4>6. SubSeq(V!Contents', row + 1, lines') = << <<>> >>
        BY <4>4, <4>5
      <4> QED BY <2>5, <4>5, <4>6, Zenon DEF V!LinesKept
    <3> QED BY <3>2, <3>3
  <2> QED BY <2>6, <2>7
<1> QED BY <1>1, <1>3, <1>4

(* command.c, insert.c: a key changes no line but the one that the cursor   *)
(* is in, and no line is lost when one is split or others are deleted, for  *)
(* any size of the buffer and any text, while the keys stay in the arrays.  *)
THEOREM LinesStay == ASSUME V!Fit PROVE V!Spec => OthersKept
<1>1. V!Init => ViInv /\ Arrays
  <2> SUFFICES ASSUME V!Init PROVE ViInv /\ Arrays
    OBVIOUS
  <2>1. Arrays
    BY DEF V!Init, Arrays, V!Loaded, IsArray, V!Empty
  <2> QED BY <2>1, ViStart
<1>2. ViInv /\ Arrays /\ [V!Next]_V!vars => ViInv' /\ Arrays'
  BY ViStep, ArraysKept
<1>3. ViInv /\ Arrays /\ [V!Next]_V!vars => [V!LinesKept]_V!vars
  <2> SUFFICES ASSUME ViInv, Arrays, [V!Next]_V!vars, mode # "CommandLine" PROVE V!LinesKept
    BY DEF V!LinesKept
  <2>1. ASSUME NEW a, buffer' = V!Edited(a), lines' = lines PROVE V!LinesKept
    <3>1. \A r \in V!Rows : r # cur.row => buffer'[r] = buffer[r]
      BY <2>1 DEF V!Edited, ViInv
    <3> QED BY <2>1, <3>1, LineEdited
  <2>2. CASE buffer' = buffer /\ lines' = lines
    BY <2>2, LineEdited
  <2> QED BY <2>1, <2>2, TextChanged, SplitKeeps, DeleteKeeps
<1> QED BY <1>1, <1>2, <1>3, PTL DEF V!Spec, V!OthersKept, OthersKept

-----------------------------------------------------------------------------
(* The streams.                                                             *)
Writing == {"fputs", "fwrite"}
Bytes == Seq(Nat)
FILE == [used : BOOLEAN, eof : BOOLEAN, fd : {-1, 0, 1}, buf : Bytes]
Call == [op : IO!Reading \cup Writing, at : IO!Slots, want : Nat, done : Bytes]

IoTyped ==
    /\ iob \in [IO!Slots -> FILE]
    /\ taken \in [IO!Fds -> Bytes] /\ user \in [IO!Fds -> Bytes]
    /\ call = IO!Idle \/ call \in Call

(* A stream that is used has a descriptor, and none has that of another.    *)
OwnFiles ==
    /\ \A s \in IO!Slots : iob[s].used <=> iob[s].fd # -1
    /\ \A s, u \in IO!Slots : iob[s].used /\ iob[s].fd = iob[u].fd => s = u

(* A call is about a stream of its direction.                               *)
Directed ==
    call # IO!Idle =>
        /\ call.op \in IO!Reading => iob[call.at].fd = 0
        /\ call.op \in Writing => iob[call.at].fd = 1

(* What read() gave so far are the bytes of the file in their order.        *)
ReadInOrder == taken[0] = IO!Numbers(Len(taken[0]))

IoInv == IoTyped /\ OwnFiles /\ Directed /\ ReadInOrder /\ IO!StreamsKept /\ IO!ClosedKept

-----------------------------------------------------------------------------
(* A buffer is its first bytes and the rest.                                *)
LEMMA Parted ==
    ASSUME NEW s \in Bytes, NEW n \in 0 .. Len(s)
    PROVE  /\ SubSeq(s, 1, n) \in Bytes /\ SubSeq(s, n + 1, Len(s)) \in Bytes
           /\ SubSeq(s, 1, n) \o SubSeq(s, n + 1, Len(s)) = s
<1>1. Len(s) \in Nat /\ n \in Nat /\ n <= Len(s)
  BY DEF Bytes
<1>2. SubSeq(s, 1, n) \in Bytes /\ SubSeq(s, n + 1, Len(s)) \in Bytes
  BY <1>1 DEF Bytes
<1>3. SubSeq(s, 1, n) \o SubSeq(s, n + 1, Len(s)) = SubSeq(s, 1, Len(s))
  BY <1>1, 1 \in 1 .. Len(s) + 1, n \in 1 - 1 .. Len(s), Len(s) \in n .. Len(s), ConcatAdjacentSubSeq DEF Bytes
<1>4. SubSeq(s, 1, Len(s)) = s
  BY SubSeqFull DEF Bytes
<1> QED BY <1>2, <1>3, <1>4

(* Bytes that are put together are bytes, and no bytes make no difference.  *)
LEMMA Joining ==
    ASSUME NEW a \in Bytes, NEW b \in Bytes
    PROVE  a \o b \in Bytes /\ a \o <<>> = a /\ <<>> \o a = a
BY ConcatEmptySeq DEF Bytes

(* The order in which they are put together does not matter.                *)
LEMMA Regrouped ==
    ASSUME NEW a \in Bytes, NEW b \in Bytes, NEW c \in Bytes
    PROVE  (a \o b) \o c = a \o (b \o c)
BY ConcatAssociative DEF Bytes

(* The numbers up to m + n are those up to m and n more.                    *)
LEMMA Counted ==
    ASSUME NEW m \in Nat, NEW n \in Nat
    PROVE  /\ IO!Numbers(m) \in Bytes /\ Len(IO!Numbers(m)) = m
           /\ SubSeq(IO!Numbers(m + n), m + 1, m + n) \in Bytes
           /\ IO!Numbers(m + n) = IO!Numbers(m) \o SubSeq(IO!Numbers(m + n), m + 1, m + n)
<1>1. \A k \in Nat : IO!Numbers(k) \in Bytes /\ Len(IO!Numbers(k)) = k /\ \A j \in 1 .. k : IO!Numbers(k)[j] = j
  BY DEF IO!Numbers, Bytes
<1>2. m + n \in Nat /\ m \in 0 .. m + n
  OBVIOUS
<1> DEFINE all == IO!Numbers(m + n)
<1>3. all \in Bytes /\ Len(all) = m + n /\ \A j \in 1 .. m + n : all[j] = j
  BY <1>1, <1>2
<1>4. SubSeq(all, 1, m) = IO!Numbers(m)
  <2> HIDE DEF all
  <2>1. SubSeq(all, 1, m) \in Seq(Nat) /\ Len(SubSeq(all, 1, m)) = m
    BY <1>2, <1>3 DEF Bytes
  <2>2. ASSUME NEW k \in 1 .. m PROVE SubSeq(all, 1, m)[k] = IO!Numbers(m)[k]
    BY <1>1, <1>2, <1>3, SMTT(30) DEF Bytes
  <2> QED BY <1>1, <2>1, <2>2, SeqEqual DEF Bytes
<1> HIDE DEF all
<1>5. SubSeq(all, m + 1, m + n) \in Bytes /\ all = IO!Numbers(m) \o SubSeq(all, m + 1, m + n)
  BY <1>2, <1>3, <1>4, Parted
<1> QED BY <1>1, <1>5 DEF all

(* The lesser of two numbers, as the streams compute it.                    *)
LEMMA IoLesser ==
    ASSUME NEW x \in Nat, NEW y \in Nat
    PROVE  IO!Min({x, y}) \in Nat /\ IO!Min({x, y}) <= x /\ IO!Min({x, y}) <= y
<1>1. Min({x, y}) \in {x, y} /\ \A z \in {x, y} : Min({x, y}) <= z
  BY Lowest
<1>2. IO!Min({x, y}) = Min({x, y})
  BY DEF IO!Min, Min
<1> QED BY <1>1, <1>2

-----------------------------------------------------------------------------
(* What a call that reads has copied from a stream.                         *)
Copied(c, s) == IF c.at = s THEN c.done ELSE <<>>

(* What is kept of one stream.                                              *)
LEMMA KeptOf ==
    ASSUME IoInv, NEW s \in IO!Slots
    PROVE  /\ iob[s].fd = 0 /\ 0 \notin lost => taken[0] = user[0] \o Copied(call, s) \o iob[s].buf
           /\ iob[s].fd = 1 /\ 1 \notin lost => user[1] = taken[1] \o iob[s].buf
<1>1. iob[s].used /\ iob[s].fd \notin lost =>
        IF iob[s].fd \in IO!Inputs
        THEN taken[iob[s].fd] = user[iob[s].fd] \o Copied(call, s) \o iob[s].buf
        ELSE user[iob[s].fd] = taken[iob[s].fd] \o iob[s].buf
  BY Zenon DEF IoInv, IO!StreamsKept, Copied
<1>2. iob[s].used <=> iob[s].fd # -1
  BY DEF IoInv, OwnFiles
<1>3. ASSUME iob[s].fd = 0, 0 \notin lost PROVE taken[0] = user[0] \o Copied(call, s) \o iob[s].buf
  <2>1. iob[s].fd \in IO!Inputs /\ iob[s].used
    BY <1>2, <1>3 DEF IO!Inputs
  <2> QED BY <1>1, <1>3, <2>1
<1>4. ASSUME iob[s].fd = 1, 1 \notin lost PROVE user[1] = taken[1] \o iob[s].buf
  <2>1. iob[s].fd \notin IO!Inputs /\ iob[s].used
    BY <1>2, <1>4 DEF IO!Inputs
  <2> QED BY <1>1, <1>4, <2>1
<1> QED BY <1>3, <1>4

(* A step that is about one stream: its FILE becomes r, the call is about   *)
(* it if there is one, and the other files are left alone.                  *)
OneStream(s, r) ==
    /\ r \in FILE /\ iob' = [iob EXCEPT ![s] = r]
    /\ r.used <=> r.fd # -1
    /\ \A u \in IO!Slots : u # s /\ iob[u].used => iob[u].fd # r.fd
    /\ call.at \in {0, s} /\ call'.at \in {0, s} /\ (call' = IO!Idle \/ call' \in Call)
    /\ call' # IO!Idle => (call'.op \in IO!Reading => r.fd = 0) /\ (call'.op \in Writing => r.fd = 1)
    /\ taken' \in [IO!Fds -> Bytes] /\ user' \in [IO!Fds -> Bytes]
    /\ \A fd \in IO!Fds : fd # r.fd =>
          taken'[fd] = taken[fd] /\ user'[fd] = user[fd] /\ (fd \in lost => fd \in lost')
    /\ taken'[0] = IO!Numbers(Len(taken'[0]))
    /\ r.fd = 0 /\ 0 \notin lost' => taken'[0] = user'[0] \o Copied(call', s) \o r.buf
    /\ r.fd = 1 /\ 1 \notin lost' => user'[1] = taken'[1] \o r.buf
    /\ iob[s].fd = 1 /\ r.fd # 1 /\ 1 \notin lost' => user'[1] = taken'[1]

(* Such a step keeps the invariant.                                         *)
LEMMA StreamStep == ASSUME IoInv, NEW s \in IO!Slots, NEW r, OneStream(s, r) PROVE IoInv'
<1>1. /\ iob \in [IO!Slots -> FILE] /\ iob' \in [IO!Slots -> FILE] /\ r \in FILE
      /\ iob'[s] = r /\ \A u \in IO!Slots : u # s => iob'[u] = iob[u]
  BY DEF IoInv, IoTyped, OneStream
<1>2. IoTyped'
  BY <1>1 DEF IoTyped, OneStream
<1>3. OwnFiles'
  BY <1>1 DEF IoInv, OwnFiles, OneStream
<1>4. Directed'
  <2>1. call' # IO!Idle => call'.at \in IO!Slots
    BY DEF Call, OneStream
  <2>2. 0 \notin IO!Slots
    BY DEF IO!Slots
  <2> QED BY <1>1, <2>1, <2>2 DEF Directed, OneStream
<1>5. IO!StreamsKept'
  <2>1. ASSUME NEW u \in IO!Slots
        PROVE  /\ iob'[u].fd = 0 /\ 0 \notin lost' => taken'[0] = user'[0] \o Copied(call', u) \o iob'[u].buf
               /\ iob'[u].fd = 1 /\ 1 \notin lost' => user'[1] = taken'[1] \o iob'[u].buf
    <3>1. CASE u = s
      BY <1>1, <3>1 DEF OneStream
    <3>2. CASE u # s
      <4>1. iob'[u] = iob[u]
        BY <1>1, <3>2
      <4>2. Copied(call, u) = <<>> /\ Copied(call', u) = <<>>
        BY <3>2 DEF Copied, OneStream, IO!Slots
      <4>3. /\ iob[u].fd = 0 /\ 0 \notin lost => taken[0] = user[0] \o Copied(call, u) \o iob[u].buf
            /\ iob[u].fd = 1 /\ 1 \notin lost => user[1] = taken[1] \o iob[u].buf
        BY KeptOf
      <4>4. ASSUME NEW fd \in {0, 1}, iob[u].fd = fd
            PROVE  taken'[fd] = taken[fd] /\ user'[fd] = user[fd] /\ (fd \in lost => fd \in lost')
        <5>1. iob[u].used /\ fd \in IO!Fds
          BY <4>4 DEF IoInv, OwnFiles, IO!Fds, IO!Inputs, IO!Outputs
        <5>2. iob[u].fd # r.fd
          BY <3>2, <5>1 DEF OneStream
        <5> QED BY <4>4, <5>1, <5>2 DEF OneStream
      <4> QED BY <4>1, <4>2, <4>3, <4>4
    <3> QED BY <3>1, <3>2
  <2>2. ASSUME NEW u \in IO!Slots, iob'[u].used PROVE iob'[u].fd = 0 \/ iob'[u].fd = 1
    BY <1>1, <1>3, <2>2 DEF OwnFiles, FILE
  <2> SUFFICES ASSUME NEW u \in IO!Slots, iob'[u].used, iob'[u].fd \notin lost'
               PROVE  IF iob'[u].fd \in IO!Inputs
                      THEN taken'[iob'[u].fd] = user'[iob'[u].fd] \o Copied(call', u) \o iob'[u].buf
                      ELSE user'[iob'[u].fd] = taken'[iob'[u].fd] \o iob'[u].buf
    BY Zenon DEF IO!StreamsKept, Copied
  <2>3. CASE iob'[u].fd = 0
    <3>1. iob'[u].fd \in IO!Inputs
      BY <2>3 DEF IO!Inputs
    <3> QED BY <2>1, <2>3, <3>1
  <2>4. CASE iob'[u].fd = 1
    <3>1. iob'[u].fd \notin IO!Inputs
      BY <2>4 DEF IO!Inputs
    <3> QED BY <2>1, <2>4, <3>1
  <2> QED BY <2>2, <2>3, <2>4
<1>6. ReadInOrder'
  BY DEF ReadInOrder, OneStream
<1>7. IO!ClosedKept'
  <2> SUFFICES ASSUME 1 \notin lost', \A u \in IO!Slots : iob'[u].fd # 1 PROVE user'[1] = taken'[1]
    BY DEF IO!ClosedKept, IO!Outputs
  <2>1. r.fd # 1
    BY <1>1
  <2>2. CASE iob[s].fd = 1
    BY <2>1, <2>2 DEF OneStream
  <2>3. CASE iob[s].fd # 1
    <3>1. \A u \in IO!Slots : iob[u].fd # 1
      BY <1>1, <2>3
    <3>2. 1 \in IO!Fds
      BY DEF IO!Fds, IO!Outputs
    <3>3. user'[1] = user[1] /\ taken'[1] = taken[1] /\ 1 \notin lost
      BY <2>1, <3>2 DEF OneStream
    <3> QED BY <3>1, <3>3 DEF IoInv, IO!ClosedKept, IO!Outputs
  <2> QED BY <2>2, <2>3
<1> QED BY <1>2, <1>3, <1>4, <1>5, <1>6, <1>7 DEF IoInv

(* A stream with another buffer is still that of its file.                  *)
LEMMA Refilled ==
    ASSUME IoInv, NEW s \in IO!Slots, NEW r, r = iob[s] \/ \E b \in Bytes : r = [iob[s] EXCEPT !.buf = b]
    PROVE  /\ r \in FILE /\ r.used = iob[s].used /\ r.fd = iob[s].fd
           /\ r.used <=> r.fd # -1
           /\ \A u \in IO!Slots : u # s /\ iob[u].used => iob[u].fd # r.fd
<1>1. iob[s] \in FILE
  BY DEF IoInv, IoTyped
<1>2. r \in FILE /\ r.used = iob[s].used /\ r.fd = iob[s].fd
  BY <1>1 DEF FILE
<1> QED BY <1>1, <1>2 DEF IoInv, OwnFiles

(* The stream of a call.                                                    *)
LEMMA OfCall ==
    ASSUME IoInv, call # IO!Idle
    PROVE  /\ call \in Call /\ call.at \in IO!Slots
           /\ IO!f = iob[call.at] /\ IO!f \in FILE /\ IO!f.buf \in Bytes
           /\ call.op \in IO!Reading => IO!f.fd = 0 /\ IO!f.used
           /\ call.op \in Writing => IO!f.fd = 1 /\ IO!f.used
<1>1. call \in Call /\ call.at \in IO!Slots
  BY DEF IoInv, IoTyped, Call
<1>2. IO!f = iob[call.at] /\ IO!f \in FILE /\ IO!f.buf \in Bytes
  BY <1>1 DEF IoInv, IoTyped, IO!f, FILE
<1>3. /\ call.op \in IO!Reading => IO!f.fd = 0 /\ IO!f.used
      /\ call.op \in Writing => IO!f.fd = 1 /\ IO!f.used
  BY <1>1, <1>2 DEF IoInv, Directed, OwnFiles
<1> QED BY <1>1, <1>2, <1>3

(* What is kept of the stream of a call.                                    *)
LEMMA KeptByCall ==
    ASSUME IoInv, call # IO!Idle
    PROVE  /\ IO!f.fd = 0 /\ 0 \notin lost => taken[0] = user[0] \o call.done \o IO!f.buf
           /\ IO!f.fd = 1 /\ 1 \notin lost => user[1] = taken[1] \o IO!f.buf
<1>1. call.at \in IO!Slots /\ IO!f = iob[call.at]
  BY OfCall
<1>2. Copied(call, call.at) = call.done
  BY DEF Copied
<1> QED BY <1>1, <1>2, KeptOf

-----------------------------------------------------------------------------
(* fopen(): falloc() gives a FILE that is not used.                         *)
LEMMA OpenStep == ASSUME STREAMS \in Nat, IoInv, NEW fd \in IO!Fds, IO!fopen(fd) PROVE IoInv'
<1> DEFINE S == {s \in IO!Slots : ~iob[s].used}
<1>1. S \subseteq Nat /\ S # {}
  BY DEF IO!fopen, IO!Slots
<1>2. Min(S) \in S
  <2> HIDE DEF S
  <2> QED BY <1>1, Lowest
<1>3. IO!falloc = Min(S)
  BY DEF IO!falloc, IO!Min, Min
<1>4. PICK s \in IO!Slots : s = IO!falloc /\ ~iob[s].used
  BY <1>2, <1>3
<1> HIDE DEF S
<1>5. fd \in {0, 1}
  BY DEF IO!Fds, IO!Inputs, IO!Outputs
<1>6. PICK r : r = IO!Open(fd)
  OBVIOUS
<1>7. /\ r \in FILE /\ r.used /\ r.fd = fd /\ r.buf = <<>> /\ fd # -1
  <2>1. r = [used |-> TRUE, eof |-> FALSE, fd |-> fd, buf |-> <<>>]
    BY <1>6 DEF IO!Open, IO!Closed
  <2>2. <<>> \in Bytes
    BY DEF Bytes
  <2> QED BY <1>5, <2>1, <2>2 DEF FILE
<1>8. /\ call = IO!Idle /\ call' = call /\ call.at = 0
      /\ iob' = [iob EXCEPT ![s] = r]
      /\ \A u \in IO!Slots : iob[u].fd # fd
      /\ taken' = [taken EXCEPT ![fd] = <<>>] /\ user' = [user EXCEPT ![fd] = <<>>] /\ lost' = lost \ {fd}
  BY <1>4, <1>6 DEF IO!fopen, IO!Idle
<1>9. <<>> \in Bytes /\ <<>> \o <<>> = <<>>
  BY Joining DEF Bytes
<1>10. /\ taken' \in [IO!Fds -> Bytes] /\ user' \in [IO!Fds -> Bytes]
       /\ taken'[fd] = <<>> /\ user'[fd] = <<>>
       /\ \A g \in IO!Fds : g # fd => taken'[g] = taken[g] /\ user'[g] = user[g] /\ (g \in lost => g \in lost')
  BY <1>8, <1>9 DEF IoInv, IoTyped
<1>11. ReadInOrder'
  <2>1. CASE fd = 0
    <3>1. <<>> = IO!Numbers(0)
      BY Counted, EmptySeq DEF Bytes
    <3> QED BY <1>10, <2>1, <3>1 DEF ReadInOrder
  <2>2. CASE fd # 0
    BY <1>10, <2>2 DEF IoInv, ReadInOrder, IO!Fds, IO!Inputs
  <2> QED BY <2>1, <2>2
<1>12. Copied(call', s) = <<>>
  BY <1>8 DEF Copied, IO!Slots
<1>13. /\ r.fd = 0 => taken'[0] = user'[0] \o Copied(call', s) \o r.buf
       /\ r.fd = 1 => user'[1] = taken'[1] \o r.buf
  BY <1>7, <1>9, <1>10, <1>12
<1>14. iob[s].fd # 1
  BY <1>4 DEF IoInv, OwnFiles
<1>15. OneStream(s, r)
  BY <1>7, <1>8, <1>10, <1>11, <1>13, <1>14 DEF OneStream, ReadInOrder
<1> QED BY <1>15, StreamStep

(* fclose(): the FILE is no longer used, whatever its buffer holds.         *)
LEMMA CloseStep == ASSUME IoInv, NEW s \in IO!Slots, IO!fclose(s) PROVE IoInv'
<1>1. PICK r : r = IO!Closed
  OBVIOUS
<1>2. r \in FILE /\ ~r.used /\ r.fd = -1
  BY <1>1 DEF IO!Closed, FILE, Bytes
<1>3. /\ call = IO!Idle /\ call' = call /\ call.at = 0 /\ iob' = [iob EXCEPT ![s] = r]
      /\ taken' = taken /\ user' = user
      /\ lost' = IF iob[s].fd = 1 /\ iob[s].buf # <<>> THEN lost \cup {iob[s].fd} ELSE lost
  BY <1>1 DEF IO!fclose, IO!Idle, IO!Outputs
<1>4. \A u \in IO!Slots : u # s /\ iob[u].used => iob[u].fd # r.fd
  BY <1>2 DEF IoInv, OwnFiles
<1>5. taken' \in [IO!Fds -> Bytes] /\ user' \in [IO!Fds -> Bytes] /\ ReadInOrder'
  BY <1>3 DEF IoInv, IoTyped, ReadInOrder
<1>6. iob[s].fd = 1 /\ 1 \notin lost' => user'[1] = taken'[1]
  <2> SUFFICES ASSUME iob[s].fd = 1, 1 \notin lost' PROVE user[1] = taken[1]
    BY <1>3
  <2>1. iob[s].buf = <<>> /\ 1 \notin lost
    BY <1>3
  <2>2. user[1] = taken[1] \o <<>>
    BY <2>1, KeptOf
  <2>3. taken[1] \in Bytes
    BY DEF IoInv, IoTyped, IO!Fds, IO!Outputs
  <2> QED BY <2>2, <2>3, Joining
<1>7. \A fd \in IO!Fds : taken'[fd] = taken[fd] /\ user'[fd] = user[fd] /\ (fd \in lost => fd \in lost')
  BY <1>3
<1>8. taken'[0] = IO!Numbers(Len(taken'[0])) /\ call.at \in {0, s} /\ call'.at \in {0, s} /\ call' = IO!Idle
  BY <1>3, <1>5 DEF ReadInOrder
<1>9. OneStream(s, r)
  BY <1>2, <1>3, <1>4, <1>5, <1>6, <1>7, <1>8 DEF OneStream
<1> QED BY <1>9, StreamStep

(* A call begins.                                                           *)
Begins(s, op, n) ==
    /\ call = IO!Idle /\ n \in Nat
    /\ \/ op \in IO!Reading /\ iob[s].fd = 0
       \/ op \in Writing /\ iob[s].fd = 1
    /\ call' = [op |-> op, at |-> s, want |-> n, done |-> <<>>]
    /\ UNCHANGED <<iob, taken, user, lost>>

(* Such a step keeps the invariant.                                         *)
LEMMA CallStep == ASSUME IoInv, NEW s \in IO!Slots, NEW op, NEW n, Begins(s, op, n) PROVE IoInv'
<1>1. PICK r : r = iob[s]
  OBVIOUS
<1>2. /\ r \in FILE
      /\ r.used <=> r.fd # -1
      /\ \A u \in IO!Slots : u # s /\ iob[u].used => iob[u].fd # r.fd
  BY <1>1, Refilled
<1>3. iob' = [iob EXCEPT ![s] = r]
  BY <1>1 DEF IoInv, IoTyped, Begins
<1>4. call' \in Call /\ call.at = 0 /\ call'.at = s /\ call'.op = op /\ call'.done = <<>>
  BY DEF Call, IO!Idle, Bytes, Begins
<1>5. op \in IO!Reading => op \notin Writing
  BY DEF IO!Reading, Writing
<1>6. taken' \in [IO!Fds -> Bytes] /\ user' \in [IO!Fds -> Bytes] /\ ReadInOrder'
  BY DEF IoInv, IoTyped, ReadInOrder, Begins
<1>7. Copied(call', s) = <<>> /\ Copied(call, s) = <<>>
  BY <1>4 DEF Copied, IO!Slots
<1>8. /\ r.fd = 0 /\ 0 \notin lost' => taken'[0] = user'[0] \o Copied(call', s) \o r.buf
      /\ r.fd = 1 /\ 1 \notin lost' => user'[1] = taken'[1] \o r.buf
  BY <1>1, <1>7, KeptOf DEF Begins
<1>9. /\ call'.op \in IO!Reading => r.fd = 0
      /\ call'.op \in Writing => r.fd = 1
  BY <1>1, <1>4, <1>5 DEF Begins
<1>10. taken' = taken /\ user' = user /\ lost' = lost
  BY DEF Begins
<1>11. taken'[0] = IO!Numbers(Len(taken'[0])) /\ call.at \in {0, s} /\ call'.at \in {0, s}
  BY <1>4, <1>6 DEF ReadInOrder
<1>12. \A fd \in IO!Fds : taken'[fd] = taken[fd] /\ user'[fd] = user[fd] /\ (fd \in lost => fd \in lost')
  BY <1>10
<1>13. OneStream(s, r)
  BY <1>1, <1>2, <1>3, <1>4, <1>6, <1>8, <1>9, <1>11, <1>12 DEF OneStream
<1> QED BY <1>13, StreamStep

(* A step of a call that reads: the bytes go from the kernel to the buffer, *)
(* from there to the call, and from there to the program.                   *)
Reads(r, got, has) ==
    /\ call.op \in IO!Reading
    /\ r \in FILE /\ r.used = IO!f.used /\ r.fd = IO!f.fd /\ iob' = [iob EXCEPT ![call.at] = r]
    /\ call' = IO!Idle \/ (call' \in Call /\ call'.at = call.at /\ call'.op = call.op)
    /\ got \in Bytes /\ taken' = [taken EXCEPT ![0] = got] /\ got = IO!Numbers(Len(got))
    /\ has \in Bytes /\ user' = [user EXCEPT ![0] = has]
    /\ lost' = lost \/ lost' = lost \cup {0}
    /\ 0 \notin lost' => got = has \o call'.done \o r.buf

(* Such a step keeps the invariant.                                         *)
LEMMA ReadStep == ASSUME IoInv, NEW r, NEW got, NEW has, Reads(r, got, has) PROVE IoInv'
<1> USE DEF Reads
<1>1. call # IO!Idle
  BY DEF IO!Idle, IO!Reading
<1>2. /\ call \in Call /\ call.at \in IO!Slots /\ IO!f = iob[call.at] /\ IO!f.fd = 0 /\ IO!f.used
  BY <1>1, OfCall
<1>3. /\ r.used <=> r.fd # -1
      /\ \A u \in IO!Slots : u # call.at /\ iob[u].used => iob[u].fd # r.fd
  BY <1>2 DEF IoInv, OwnFiles
<1>4. taken \in [IO!Fds -> Bytes] /\ user \in [IO!Fds -> Bytes] /\ 0 \in IO!Fds /\ 1 \in IO!Fds
  BY DEF IoInv, IoTyped, IO!Fds, IO!Inputs, IO!Outputs
<1>5. /\ taken' \in [IO!Fds -> Bytes] /\ user' \in [IO!Fds -> Bytes] /\ taken'[0] = got /\ user'[0] = has
      /\ \A fd \in IO!Fds : fd # 0 => taken'[fd] = taken[fd] /\ user'[fd] = user[fd]
  BY <1>4
<1>6. call.op \notin Writing
  BY DEF IO!Reading, Writing
<1>7. Copied(call', call.at) = call'.done
  <2>1. CASE call' = IO!Idle
    <3>1. call'.at = 0 /\ call.at # 0 /\ call'.done = <<>>
      BY <1>2, <2>1 DEF IO!Idle, IO!Slots
    <3> QED BY <3>1 DEF Copied
  <2>2. CASE call' # IO!Idle
    BY <2>2 DEF Copied
  <2> QED BY <2>1, <2>2
<1>8. call'.at \in {0, call.at}
  BY DEF IO!Idle
<1>9. /\ call.at \in {0, call.at} /\ taken'[0] = IO!Numbers(Len(taken'[0]))
      /\ r.fd = 0 /\ r.fd # 1 /\ (call' = IO!Idle \/ call' \in Call)
      /\ call' # IO!Idle => (call'.op \in IO!Reading => r.fd = 0) /\ (call'.op \in Writing => r.fd = 1)
  BY <1>2, <1>5, <1>6
<1>10. \A fd \in IO!Fds : fd # r.fd =>
          taken'[fd] = taken[fd] /\ user'[fd] = user[fd] /\ (fd \in lost => fd \in lost')
  BY <1>5, <1>9
<1>11. 0 \notin lost' => taken'[0] = user'[0] \o Copied(call', call.at) \o r.buf
  BY <1>5, <1>7
<1>12. iob[call.at].fd # 1
  BY <1>2
<1>13. OneStream(call.at, r)
  BY <1>3, <1>5, <1>8, <1>9, <1>10, <1>11, <1>12, Zenon DEF OneStream
<1> QED BY <1>2, <1>13, StreamStep

(* A step of a call that writes, or of fflush(): the bytes go from the      *)
(* program to the buffer, and from there to the kernel.                     *)
Writes(s, b, out, put) ==
    /\ iob[s].fd = 1
    /\ call = IO!Idle \/ (call.at = s /\ call.op \in Writing)
    /\ b \in Bytes /\ iob' = [iob EXCEPT ![s] = [iob[s] EXCEPT !.buf = b]]
    /\ call' = IO!Idle \/ (call' \in Call /\ call'.at = s /\ call'.op \in Writing)
    /\ out \in Bytes /\ taken' = [taken EXCEPT ![1] = out]
    /\ put \in Bytes /\ user' = [user EXCEPT ![1] = put]
    /\ lost' = lost \/ lost' = lost \cup {1}
    /\ 1 \notin lost' => put = out \o b

(* Such a step keeps the invariant.                                         *)
LEMMA WriteStep ==
    ASSUME IoInv, NEW s \in IO!Slots, NEW b, NEW out, NEW put, Writes(s, b, out, put)
    PROVE  IoInv'
<1> USE DEF Writes
<1>1. PICK r : r = [iob[s] EXCEPT !.buf = b]
  OBVIOUS
<1>2. /\ r \in FILE /\ r.used = iob[s].used /\ r.fd = 1
      /\ r.used <=> r.fd # -1
      /\ \A u \in IO!Slots : u # s /\ iob[u].used => iob[u].fd # r.fd
  BY <1>1, Refilled
<1>3. r.buf = b
  <2>1. iob[s] \in FILE
    BY DEF IoInv, IoTyped
  <2> QED BY <1>1, <2>1 DEF FILE
<1>4. taken \in [IO!Fds -> Bytes] /\ user \in [IO!Fds -> Bytes] /\ 0 \in IO!Fds /\ 1 \in IO!Fds
  BY DEF IoInv, IoTyped, IO!Fds, IO!Inputs, IO!Outputs
<1>5. /\ taken' \in [IO!Fds -> Bytes] /\ user' \in [IO!Fds -> Bytes] /\ taken'[1] = out /\ user'[1] = put
      /\ \A fd \in IO!Fds : fd # 1 => taken'[fd] = taken[fd] /\ user'[fd] = user[fd]
  BY <1>4
<1>6. call' # IO!Idle => call'.op \notin IO!Reading
  BY DEF IO!Reading, Writing
<1>7. call'.at \in {0, s} /\ call.at \in {0, s}
  BY DEF IO!Idle
<1>8. taken'[0] = IO!Numbers(Len(taken'[0]))
  <2>1. taken'[0] = taken[0]
    BY <1>4, <1>5
  <2> QED BY <2>1 DEF IoInv, ReadInOrder
<1>9. OneStream(s, r)
  BY <1>1, <1>2, <1>3, <1>5, <1>6, <1>7, <1>8 DEF OneStream
<1> QED BY <1>9, StreamStep

(* The kernel and the program have bytes of both files.                     *)
LEMMA BytesOf ==
    ASSUME IoInv
    PROVE  /\ taken = [taken EXCEPT ![0] = taken[0]] /\ taken = [taken EXCEPT ![1] = taken[1]]
           /\ user = [user EXCEPT ![0] = user[0]] /\ user = [user EXCEPT ![1] = user[1]]
           /\ taken[0] \in Bytes /\ taken[1] \in Bytes /\ user[0] \in Bytes /\ user[1] \in Bytes
           /\ taken[0] = IO!Numbers(Len(taken[0])) /\ <<>> \in Bytes
<1>1. taken \in [IO!Fds -> Bytes] /\ user \in [IO!Fds -> Bytes] /\ 0 \in IO!Fds /\ 1 \in IO!Fds
  BY DEF IoInv, IoTyped, IO!Fds, IO!Inputs, IO!Outputs
<1>2. taken[0] = IO!Numbers(Len(taken[0])) /\ <<>> \in Bytes
  BY DEF IoInv, ReadInOrder, Bytes
<1> QED BY <1>1, <1>2

(* memcpy(): the call has the first bytes of the buffer, and the buffer the *)
(* rest.                                                                    *)
LEMMA TakeStep == ASSUME IoInv, IO!Take PROVE IoInv'
<1>1. call.op \in IO!Reading /\ call # IO!Idle
  BY DEF IO!Take, IO!calling, IO!Idle, IO!Reading
<1>2. /\ call \in Call /\ call.at \in IO!Slots
      /\ IO!f = iob[call.at] /\ IO!f \in FILE /\ IO!f.buf \in Bytes /\ IO!f.fd = 0 /\ IO!f.used
  BY <1>1, OfCall
<1>3. call.want \in Nat /\ call.done \in Bytes /\ call.op \in IO!Reading \cup Writing
  BY <1>2 DEF Call
<1> DEFINE n == IO!Segment
           b == IO!f.buf
           first == SubSeq(b, 1, n)
           rest == SubSeq(b, n + 1, Len(b))
<1>4. n \in 0 .. Len(b) /\ n \in 0 .. call.want
  <2>1. Len(b) \in Nat /\ Len(b) > 0 /\ call.want > 0
    BY <1>2, EmptySeq DEF IO!Take, Bytes, IO!More
  <2>2. CASE call.op = "fgets"
    BY <1>3, <2>1, <2>2 DEF IO!Segment
  <2>3. CASE call.op # "fgets"
    <3>1. n = IO!Min({call.want, Len(b)})
      BY <2>3 DEF IO!Segment
    <3> HIDE DEF n, b
    <3> QED BY <1>3, <2>1, <3>1, IoLesser
  <2> QED BY <2>2, <2>3
<1>5. /\ call' = [call EXCEPT !.want = @ - n, !.done = @ \o first]
      /\ iob' = [iob EXCEPT ![call.at].buf = SubSeq(@, n + 1, Len(@))]
      /\ taken' = taken /\ user' = user /\ lost' = lost
  BY DEF IO!Take, IO!calling
<1>6. PICK r : r = [iob[call.at] EXCEPT !.buf = rest]
  OBVIOUS
<1>7. iob' = [iob EXCEPT ![call.at] = r]
  BY <1>2, <1>5, <1>6
<1> HIDE DEF n
<1>8. first \in Bytes /\ rest \in Bytes /\ first \o rest = b
  BY <1>2, <1>4, Parted
<1> HIDE DEF first, rest
<1>9. r \in FILE /\ r.used = IO!f.used /\ r.fd = IO!f.fd /\ r.buf = rest
  BY <1>2, <1>6, <1>8 DEF FILE
<1>10. call.done \o first \in Bytes
  BY <1>3, <1>8, Joining
<1>11. /\ call' \in Call /\ call'.at = call.at /\ call'.op = call.op /\ call'.done = call.done \o first
       /\ call' # IO!Idle
  <2>1. call.want - n \in Nat
    BY <1>3, <1>4
  <2>2. call' \in Call /\ call'.at = call.at /\ call'.op = call.op /\ call'.done = call.done \o first
    BY <1>2, <1>5, <1>10, <2>1 DEF Call
  <2>3. call'.op # "none"
    BY <1>1, <2>2 DEF IO!Reading
  <2> QED BY <2>2, <2>3 DEF IO!Idle
<1>12. ASSUME 0 \notin lost PROVE taken[0] = user[0] \o (call.done \o first) \o rest
  <2>1. taken[0] = user[0] \o call.done \o (first \o rest)
    BY <1>1, <1>2, <1>8, <1>12, KeptByCall
  <2>2. user[0] \in Bytes /\ user[0] \o call.done \in Bytes
    BY <1>3, BytesOf, Joining
  <2>3. /\ (user[0] \o call.done) \o (first \o rest) = ((user[0] \o call.done) \o first) \o rest
        /\ (user[0] \o call.done) \o first = user[0] \o (call.done \o first)
    <3> DEFINE x == user[0] \o call.done
    <3>1. (user[0] \o call.done) \o first = user[0] \o (call.done \o first)
      BY <1>3, <1>8, <2>2, Regrouped
    <3> HIDE DEF x
    <3>2. x \o (first \o rest) = (x \o first) \o rest
      BY <1>8, <2>2, Regrouped DEF x
    <3> QED BY <3>1, <3>2 DEF x
  <2> QED BY <2>1, <2>3
<1>13. Reads(r, taken[0], user[0])
  BY <1>1, <1>5, <1>7, <1>9, <1>11, <1>12, BytesOf DEF Reads
<1> QED BY <1>13, ReadStep

(* A call that reads ends: the program has what it copied.  The stream may  *)
(* have learnt that it is at the end of its file.                           *)
LEMMA GotStep ==
    ASSUME IoInv, IO!Got, NEW e \in BOOLEAN, iob' = [iob EXCEPT ![call.at].eof = e], UNCHANGED <<taken, lost>>
    PROVE  IoInv'
<1>1. call.op \in IO!Reading /\ call # IO!Idle
  BY DEF IO!Got, IO!Idle, IO!Reading
<1>2. /\ call \in Call /\ call.at \in IO!Slots
      /\ IO!f = iob[call.at] /\ IO!f \in FILE /\ IO!f.buf \in Bytes /\ IO!f.fd = 0 /\ IO!f.used
  BY <1>1, OfCall
<1>3. call.done \in Bytes
  BY <1>2 DEF Call
<1>4. PICK r : r = [iob[call.at] EXCEPT !.eof = e]
  OBVIOUS
<1>5. /\ r \in FILE /\ r.used = IO!f.used /\ r.fd = IO!f.fd /\ r.buf = IO!f.buf
      /\ iob' = [iob EXCEPT ![call.at] = r]
  BY <1>2, <1>4 DEF FILE
<1>6. /\ user' = [user EXCEPT ![0] = user[0] \o call.done] /\ call' = IO!Idle /\ call'.done = <<>>
      /\ taken' = taken /\ lost' = lost
  BY <1>2, BytesOf DEF IO!Got, IO!return, IO!Idle
<1>7. user[0] \o call.done \in Bytes /\ (user[0] \o call.done) \o <<>> = user[0] \o call.done
  BY <1>3, BytesOf, Joining
<1>8. 0 \notin lost => taken[0] = (user[0] \o call.done) \o <<>> \o r.buf
  BY <1>1, <1>2, <1>5, <1>7, KeptByCall
<1>9. Reads(r, taken[0], user[0] \o call.done)
  BY <1>1, <1>5, <1>6, <1>7, <1>8, BytesOf DEF Reads
<1> QED BY <1>9, ReadStep

(* fread() gives up: when it had copied something, that is lost.            *)
LEMMA AtEofStep == ASSUME IoInv, IO!AtEof PROVE IoInv'
<1>1. call.op \in IO!Reading /\ call # IO!Idle
  BY DEF IO!AtEof, IO!calling, IO!Idle, IO!Reading
<1>2. /\ call \in Call /\ call.at \in IO!Slots
      /\ IO!f = iob[call.at] /\ IO!f \in FILE /\ IO!f.buf \in Bytes /\ IO!f.fd = 0 /\ IO!f.used
  BY <1>1, OfCall
<1>3. PICK r : r = iob[call.at]
  OBVIOUS
<1>4. iob' = [iob EXCEPT ![call.at] = r]
  BY <1>2, <1>3 DEF IO!AtEof, IoInv, IoTyped
<1>5. /\ taken' = taken /\ user' = user /\ call' = IO!Idle /\ call'.done = <<>>
      /\ lost' = IF call.done = <<>> THEN lost ELSE lost \cup {0}
  BY <1>2 DEF IO!AtEof, IO!calling, IO!return, IO!Idle
<1>6. ASSUME 0 \notin lost' PROVE taken[0] = user[0] \o <<>> \o r.buf
  <2>1. call.done = <<>> /\ 0 \notin lost
    BY <1>5, <1>6
  <2> QED BY <1>1, <1>2, <1>3, <2>1, KeptByCall
<1>7. Reads(r, taken[0], user[0])
  BY <1>1, <1>2, <1>3, <1>4, <1>5, <1>6, BytesOf DEF Reads
<1> QED BY <1>7, ReadStep

(* _filebuf(): the next bytes of the file come after those that the kernel  *)
(* gave before.                                                             *)
LEMMA FilebufStep == ASSUME IoInv, NEW n \in Nat, IO!Filebuf(n) PROVE IoInv'
<1>1. call.op \in IO!Reading /\ call # IO!Idle
  BY DEF IO!Filebuf, IO!calling, IO!Idle, IO!Reading
<1>2. /\ call \in Call /\ call.at \in IO!Slots
      /\ IO!f = iob[call.at] /\ IO!f \in FILE /\ IO!f.buf \in Bytes /\ IO!f.fd = 0 /\ IO!f.used
  BY <1>1, OfCall
<1> DEFINE m == Len(taken[0])
           all == IO!Numbers(m + n)
           next == SubSeq(all, m + 1, m + n)
<1>3. taken[0] \in Bytes /\ m \in Nat /\ taken[0] = IO!Numbers(m)
  BY BytesOf DEF Bytes
<1>4. m + n \in Nat /\ all \in Bytes /\ Len(all) = m + n
  BY <1>3, m + n \in Nat, Counted
<1>5. next \in Bytes /\ all = IO!Numbers(m) \o next
  BY <1>3, Counted
<1>6. /\ iob' = [iob EXCEPT ![call.at].buf = SubSeq(all, m + 1, Len(all))]
      /\ taken' = [taken EXCEPT ![0] = all] /\ call' = call /\ user' = user /\ lost' = lost
  BY <1>2 DEF IO!Filebuf, IO!calling
<1>7. IO!f.buf = <<>>
  BY DEF IO!Filebuf, IO!Fills
<1>8. PICK r : r = [iob[call.at] EXCEPT !.buf = next]
  OBVIOUS
<1>9. iob' = [iob EXCEPT ![call.at] = r]
  <2> HIDE DEF all, m
  <2> QED BY <1>4, <1>6, <1>8
<1> HIDE DEF all, next, m
<1>10. r \in FILE /\ r.used = IO!f.used /\ r.fd = IO!f.fd /\ r.buf = next
  BY <1>2, <1>5, <1>8 DEF FILE
<1>11. ASSUME 0 \notin lost PROVE all = user[0] \o call.done \o next
  <2>1. call.done \in Bytes /\ user[0] \in Bytes
    BY <1>2, BytesOf DEF Call
  <2>2. user[0] \o call.done \in Bytes
    BY <2>1, Joining
  <2>3. taken[0] = user[0] \o call.done \o <<>>
    BY <1>1, <1>2, <1>7, <1>11, KeptByCall
  <2>4. taken[0] = user[0] \o call.done
    BY <2>2, <2>3, Joining
  <2> QED BY <1>3, <1>5, <2>4
<1>12. Reads(r, all, user[0])
  BY <1>1, <1>2, <1>4, <1>6, <1>9, <1>10, <1>11, BytesOf DEF Reads, all
<1> QED BY <1>12, ReadStep

(* fflush(): write() takes all of the buffer, or its bytes are lost.        *)
LEMMA Flushing ==
    ASSUME IoInv, NEW s \in IO!Slots, iob[s].fd = 1, NEW n \in 0 .. Len(iob[s].buf),
           IO!Writes(s, n), iob' = IO!Flushed(s), user' = user,
           call = IO!Idle \/ (call.at = s /\ call.op \in Writing),
           call' = IO!Idle \/ (call' \in Call /\ call'.at = s /\ call'.op \in Writing)
    PROVE  IoInv'
<1> DEFINE b == iob[s].buf
           out == taken[1] \o SubSeq(b, 1, n)
<1>1. iob[s] \in FILE /\ b \in Bytes
  BY DEF IoInv, IoTyped, FILE
<1>2. SubSeq(b, 1, n) \in Bytes
  BY <1>1, Parted
<1>3. /\ taken' = [taken EXCEPT ![1] = out]
      /\ lost' = IF n = Len(b) THEN lost ELSE lost \cup {1}
      /\ iob' = [iob EXCEPT ![s] = [iob[s] EXCEPT !.buf = <<>>]]
  BY DEF IO!Writes, IO!Flushed
<1>4. out \in Bytes
  BY <1>2, BytesOf, Joining
<1>5. ASSUME 1 \notin lost' PROVE user[1] = out \o <<>>
  <2>1. n = Len(b) /\ 1 \notin lost
    BY <1>3, <1>5
  <2>2. SubSeq(b, 1, n) = b
    BY <1>1, <2>1, SubSeqFull DEF Bytes
  <2>3. user[1] = taken[1] \o b
    BY <2>1, KeptOf
  <2> QED BY <1>4, <2>2, <2>3, Joining
<1> HIDE DEF out
<1>6. Writes(s, <<>>, out, user[1])
  BY <1>3, <1>4, <1>5, BytesOf DEF Writes
<1> QED BY <1>6, WriteStep

(* fflush() that the program calls, and that a call makes.                  *)
LEMMA FlushStep ==
    ASSUME IoInv, IO!PutFlush \/ \E s \in IO!Slots : IO!fflush(s)
    PROVE  IoInv'
<1>1. ASSUME NEW s \in IO!Slots, IO!fflush(s) PROVE IoInv'
  <2>1. iob[s].fd = 1 /\ call = IO!Idle /\ call' = IO!Idle /\ user' = user /\ iob' = IO!Flushed(s)
    BY <1>1 DEF IO!fflush, IO!Outputs
  <2>2. PICK n \in 0 .. Len(iob[s].buf) : IO!Writes(s, n)
    BY <1>1 DEF IO!fflush
  <2> QED BY <2>1, <2>2, Flushing
<1>2. ASSUME IO!PutFlush PROVE IoInv'
  <2>1. call.op \in Writing /\ call # IO!Idle /\ user' = user /\ iob' = IO!Flushed(call.at)
    BY <1>2 DEF IO!PutFlush, IO!calling, IO!Idle, Writing
  <2>2. /\ call \in Call /\ call.at \in IO!Slots /\ IO!f = iob[call.at] /\ IO!f.fd = 1
    BY <2>1, OfCall
  <2>3. PICK n \in 0 .. Len(IO!f.buf) :
          /\ IO!Writes(call.at, n)
          /\ call' = IF n < Len(IO!f.buf) /\ call.op = "fputs" THEN IO!Idle ELSE [call EXCEPT !.done = <<>>]
    BY <1>2 DEF IO!PutFlush
  <2>4. call' = IO!Idle \/ (call' \in Call /\ call'.at = call.at /\ call'.op \in Writing)
    <3>1. [call EXCEPT !.done = <<>>] \in Call
      <4>1. <<>> \in Bytes
        BY BytesOf
      <4> QED BY <2>2, <4>1 DEF Call
    <3>2. [call EXCEPT !.done = <<>>].at = call.at /\ [call EXCEPT !.done = <<>>].op = call.op
      BY <2>2 DEF Call
    <3> QED BY <2>1, <2>3, <3>1, <3>2
  <2> QED BY <2>1, <2>2, <2>3, <2>4, Flushing
<1> QED BY <1>1, <1>2

(* The bytes that the program puts go behind those in the buffer.           *)
LEMMA PutStep == ASSUME BUFSIZ \in Nat, IoInv, IO!PutBytes PROVE IoInv'
<1>1. call.op \in Writing /\ call # IO!Idle
  BY DEF IO!PutBytes, IO!Idle, Writing
<1>2. /\ call \in Call /\ call.at \in IO!Slots
      /\ IO!f = iob[call.at] /\ IO!f \in FILE /\ IO!f.buf \in Bytes /\ IO!f.fd = 1
  BY <1>1, OfCall
<1>3. call.want \in Nat
  BY <1>2 DEF Call
<1> DEFINE n == IO!Copies
           old == Len(user[1])
           new == SubSeq(IO!Numbers(old + n), old + 1, old + n)
           b == IO!f.buf
<1>4. n \in Nat /\ n <= call.want
  <2>1. call.want > 0
    BY DEF IO!PutBytes
  <2>2. CASE call.op = "fputs"
    BY <1>3, <2>1, <2>2 DEF IO!Copies
  <2>3. CASE call.op # "fputs"
    <3>1. n = IO!Min({call.want, BUFSIZ})
      BY <2>3 DEF IO!Copies
    <3> HIDE DEF n
    <3> QED BY <1>3, <3>1, IoLesser
  <2> QED BY <2>2, <2>3
<1>5. /\ iob' = [iob EXCEPT ![call.at].buf = @ \o new]
      /\ user' = [user EXCEPT ![1] = @ \o new]
      /\ call' = [call EXCEPT !.want = @ - n, !.done = new]
      /\ taken' = taken /\ lost' = lost
  BY <1>2 DEF IO!PutBytes
<1> HIDE DEF n
<1>6. old \in Nat /\ user[1] \in Bytes /\ taken[1] \in Bytes
  BY BytesOf DEF Bytes
<1>7. new \in Bytes
  BY <1>4, <1>6, Counted
<1> HIDE DEF new, old
<1>8. b \o new \in Bytes /\ user[1] \o new \in Bytes
  BY <1>2, <1>6, <1>7, Joining
<1>9. iob' = [iob EXCEPT ![call.at] = [iob[call.at] EXCEPT !.buf = b \o new]]
  BY <1>2, <1>5
<1>10. call' \in Call /\ call'.at = call.at /\ call'.op = call.op
  <2>1. call.want - n \in Nat
    BY <1>3, <1>4
  <2> QED BY <1>2, <1>5, <1>7, <2>1 DEF Call
<1>11. 1 \notin lost => user[1] \o new = taken[1] \o (b \o new)
  <2> SUFFICES ASSUME 1 \notin lost PROVE user[1] \o new = taken[1] \o (b \o new)
    OBVIOUS
  <2>1. user[1] = taken[1] \o b
    BY <1>1, <1>2, KeptByCall
  <2>2. (taken[1] \o b) \o new = taken[1] \o (b \o new)
    BY <1>2, <1>6, <1>7, Regrouped
  <2> QED BY <2>1, <2>2
<1>12. user' = [user EXCEPT ![1] = user[1] \o new]
  BY <1>5
<1> HIDE DEF b
<1>13. Writes(call.at, b \o new, taken[1], user[1] \o new)
  BY <1>1, <1>2, <1>5, <1>8, <1>9, <1>10, <1>11, <1>12, BytesOf DEF Writes
<1> QED BY <1>2, <1>13, WriteStep

(* A call that writes ends.                                                 *)
LEMMA PutEnds == ASSUME IoInv, IO!PutReturns PROVE IoInv'
<1>1. call.op \in Writing /\ call # IO!Idle
  BY DEF IO!PutReturns, IO!calling, IO!Idle, Writing
<1>2. /\ call \in Call /\ call.at \in IO!Slots
      /\ IO!f = iob[call.at] /\ IO!f \in FILE /\ IO!f.buf \in Bytes /\ IO!f.fd = 1
  BY <1>1, OfCall
<1>3. call' = IO!Idle /\ iob' = iob /\ taken' = taken /\ user' = user /\ lost' = lost
  BY DEF IO!PutReturns, IO!calling, IO!return
<1>4. iob' = [iob EXCEPT ![call.at] = [iob[call.at] EXCEPT !.buf = IO!f.buf]]
  BY <1>2, <1>3 DEF IoInv, IoTyped, FILE
<1>5. 1 \notin lost => user[1] = taken[1] \o IO!f.buf
  BY <1>1, <1>2, KeptByCall
<1>6. Writes(call.at, IO!f.buf, taken[1], user[1])
  BY <1>1, <1>2, <1>3, <1>4, <1>5, BytesOf DEF Writes
<1> QED BY <1>2, <1>6, WriteStep

(* stdio_init()                                                             *)
LEMMA IoStart == IO!Init => IoInv
<1> SUFFICES ASSUME IO!Init PROVE IoInv
  OBVIOUS
<1> DEFINE o(fd) == [used |-> TRUE, eof |-> FALSE, fd |-> fd, buf |-> <<>>]
<1>1. /\ IO!Closed = [used |-> FALSE, eof |-> FALSE, fd |-> -1, buf |-> <<>>]
      /\ IO!Open(0) = o(0) /\ IO!Open(1) = o(1)
  <2>1. ASSUME NEW fd PROVE IO!Open(fd) = o(fd)
    <3>1. PICK r : r = IO!Open(fd)
      OBVIOUS
    <3>2. r = [used |-> TRUE, eof |-> FALSE, fd |-> fd, buf |-> <<>>]
      BY <3>1 DEF IO!Closed, IO!Open
    <3> QED BY <3>1, <3>2
  <2> QED BY <2>1 DEF IO!Closed
<1>2. <<>> \in Bytes /\ <<>> \o <<>> = <<>>
  BY EmptySeq, Joining DEF Bytes
<1>3. IO!Closed \in FILE /\ o(0) \in FILE /\ o(1) \in FILE
  BY <1>1, <1>2 DEF FILE
<1>4. \A s \in IO!Slots : iob[s] = IF s = 1 THEN o(0) ELSE IF s = 2 THEN o(1) ELSE IO!Closed
  BY <1>1 DEF IO!Init, IO!stdin, IO!stdout
<1>5. iob = [s \in IO!Slots |-> iob[s]]
  BY DEF IO!Init
<1>6. IoTyped
  <2>1. \A s \in IO!Slots : iob[s] \in FILE
    BY <1>3, <1>4
  <2>2. iob \in [IO!Slots -> FILE]
    BY <1>5, <2>1
  <2> QED BY <1>2, <2>2 DEF IO!Init, IoTyped
<1>7. OwnFiles
  BY <1>1, <1>4 DEF OwnFiles
<1>8. Directed
  BY DEF Directed, IO!Init
<1>9. taken[0] = <<>> /\ user[0] = <<>> /\ taken[1] = <<>> /\ user[1] = <<>> /\ call.at = 0
  BY DEF IO!Init, IO!Fds, IO!Inputs, IO!Outputs, IO!Idle
<1>10. ReadInOrder
  <2>1. IO!Numbers(0) = <<>>
    BY Counted, EmptySeq DEF Bytes
  <2> QED BY <1>9, <2>1, EmptySeq DEF ReadInOrder
<1>11. IO!StreamsKept
  <2>1. ASSUME NEW s \in IO!Slots PROVE iob[s].buf = <<>> /\ iob[s].fd \in {-1, 0, 1} /\ call.at # s
    BY <1>1, <1>4, <1>9 DEF IO!Slots
  <2> SUFFICES ASSUME NEW s \in IO!Slots, iob[s].used, iob[s].fd \notin lost
               PROVE  IF iob[s].fd \in IO!Inputs
                      THEN taken[iob[s].fd] = user[iob[s].fd] \o Copied(call, s) \o iob[s].buf
                      ELSE user[iob[s].fd] = taken[iob[s].fd] \o iob[s].buf
    BY Zenon DEF IO!StreamsKept, Copied
  <2>2. (iob[s].fd = 0 \/ iob[s].fd = 1) /\ Copied(call, s) = <<>>
    BY <1>7, <2>1 DEF OwnFiles, Copied
  <2>3. CASE iob[s].fd = 0
    <3>1. taken[0] = user[0] \o Copied(call, s) \o iob[s].buf
      BY <1>2, <1>9, <2>1, <2>2
    <3> QED BY <2>3, <3>1 DEF IO!Inputs
  <2>4. CASE iob[s].fd = 1
    <3>1. user[1] = taken[1] \o iob[s].buf
      BY <1>2, <1>9, <2>1
    <3> QED BY <2>4, <3>1 DEF IO!Inputs
  <2> QED BY <2>2, <2>3, <2>4
<1>12. IO!ClosedKept
  BY <1>9 DEF IO!ClosedKept, IO!Outputs
<1> QED BY <1>6, <1>7, <1>8, <1>10, <1>11, <1>12 DEF IoInv

(***************************************************************************)
(* stdio.c: between the kernel and the program no byte is lost, repeated   *)
(* or out of order, for any number of streams and any size of their        *)
(* buffers, as long as no write() failed, fread() did not give up, no      *)
(* output was closed with bytes in its buffer and no fwrite() overran one. *)
(***************************************************************************)
THEOREM StreamsKeepBytes == ASSUME STREAMS \in Nat, BUFSIZ \in Nat, MAX_CALL \in Nat PROVE IO!Spec => []BytesKept
<1>1. IO!Init => IoInv
  BY IoStart
<1>2. IoInv /\ [IO!Next]_(IO!vars) => IoInv'
  <2> SUFFICES ASSUME IoInv, [IO!Next]_(IO!vars) PROVE IoInv'
    OBVIOUS
  <2>1. ASSUME NEW fd \in IO!Fds, IO!fopen(fd) PROVE IoInv'
    BY <2>1, OpenStep
  <2>2. ASSUME NEW s \in IO!Slots, IO!fclose(s) PROVE IoInv'
    BY <2>2, CloseStep
  <2>3. ASSUME NEW s \in IO!Slots, NEW n \in 1 .. MAX_CALL, NEW op \in IO!Reading, IO!Get(op, s, n) PROVE IoInv'
    <3>1. Begins(s, op, n)
      BY <2>3 DEF Begins, IO!Get, IO!Inputs
    <3> QED BY <3>1, CallStep
  <2>4. ASSUME NEW s \in IO!Slots, NEW n \in 1 .. MAX_CALL, NEW op \in {"fputs", "fwrite"}, IO!Put(op, s, n) PROVE IoInv'
    <3>1. Begins(s, op, n)
      BY <2>4 DEF Begins, IO!Put, IO!Outputs, Writing
    <3> QED BY <3>1, CallStep
  <2>5. CASE IO!GetReturns
    <3>1. IO!Got /\ iob' = iob /\ taken' = taken /\ lost' = lost
      BY <2>5 DEF IO!GetReturns
    <3>2. call # IO!Idle
      BY <3>1 DEF IO!Got, IO!Idle, IO!Reading
    <3>3. call.at \in IO!Slots /\ iob[call.at] \in FILE
      BY <3>2, OfCall
    <3>4. iob[call.at].eof \in BOOLEAN /\ iob' = [iob EXCEPT ![call.at].eof = iob[call.at].eof]
      BY <3>1, <3>3 DEF IoInv, IoTyped, FILE
    <3> QED BY <3>1, <3>4, GotStep
  <2>6. CASE IO!FilebufEnd
    <3>1. IO!Got /\ UNCHANGED <<taken, lost>>
      BY <2>6 DEF IO!FilebufEnd
    <3>2. PICK zero \in BOOLEAN : iob' = [iob EXCEPT ![call.at].eof = @ \/ zero]
      BY <2>6 DEF IO!FilebufEnd
    <3>3. PICK e \in BOOLEAN : e = (iob[call.at].eof \/ zero)
      OBVIOUS
    <3>4. iob' = [iob EXCEPT ![call.at].eof = e]
      BY <3>2, <3>3
    <3> QED BY <3>1, <3>4, GotStep
  <2>7. ASSUME NEW n \in 1 .. BUFSIZ, IO!Filebuf(n) PROVE IoInv'
    BY <2>7, FilebufStep
  <2>0. ASSUME UNCHANGED <<iob, call, taken, user, lost>> PROVE IoInv'
    <3>1. IoTyped' /\ OwnFiles' /\ Directed' /\ ReadInOrder'
      BY <2>0 DEF IoInv, IoTyped, OwnFiles, Directed, ReadInOrder
    <3>2. IO!StreamsKept'
      BY <2>0 DEF IoInv, IO!StreamsKept
    <3>3. IO!ClosedKept'
      BY <2>0 DEF IoInv, IO!ClosedKept
    <3> QED BY <3>1, <3>2, <3>3 DEF IoInv
  <2>8. CASE UNCHANGED IO!vars
    BY <2>8, <2>0 DEF IO!vars
  <2>9. CASE IO!PutOverruns
    BY <2>9, <2>0 DEF IO!PutOverruns
  <2>10. CASE IO!Calls
    BY <2>1, <2>2, <2>3, <2>4, <2>5, <2>6, <2>7, <2>10, TakeStep, AtEofStep, FlushStep, PutStep, PutEnds
       DEF IO!Calls
  <2> QED BY <2>8, <2>9, <2>10 DEF IO!Next
<1>3. IoInv => BytesKept
  BY DEF IoInv, BytesKept, IO!BytesKept
<1> QED BY <1>1, <1>2, <1>3, PTL DEF IO!Spec

-----------------------------------------------------------------------------
(* The environment.                                                         *)
(* The strings of the vector are the variables that are set, one of each.   *)
Matching(f, m) ==
    /\ \A n \in DOMAIN m : n \in Names /\ m[n] \in Values /\ \E p \in DOMAIN f : f[p] = Env!String(n, m[n])
    /\ \A p \in DOMAIN f : \E n \in DOMAIN m : f[p] = Env!String(n, m[n])
    /\ \A p, q \in DOMAIN f : \A n \in DOMAIN m :
          f[p] = Env!String(n, m[n]) /\ f[q] = Env!String(n, m[n]) => p = q

(* The entries of the vector are different pieces of memory.                *)
Apart ==
    /\ environ \in Seq(Int) /\ vector \in Nat
    /\ \A x, y \in 1 .. Len(environ) : environ[x] = environ[y] => x = y
    /\ \A x \in 1 .. Len(environ) : environ[x] # 0 /\ environ[x] # vector

(* Each piece of the heap is an entry or the vector.                        *)
InUse ==
    /\ DOMAIN text = {environ[x] : x \in 1 .. Len(environ)}
    /\ pieces \subseteq Objects
    /\ \A p \in Int : p \in pieces <=> p > 0 /\ (p = vector \/ \E x \in 1 .. Len(environ) : p = environ[x])
    /\ freed = {}

EnvInv == Apart /\ InUse /\ Matching(text, meant)

(* A string is of the name that it was made with, and of no other.          *)
LEMMA OneName ==
    ASSUME Env!Given, NEW n \in Names, NEW v \in Values
    PROVE  /\ \A m \in Names : Env!IsOf(m, Env!String(n, v)) <=> m = n
           /\ SubSeq(Env!String(n, v), Len(n) + 2, Len(Env!String(n, v))) = v
<1> DEFINE S == STRING \cup {"="}
           s == Env!String(n, v)
<1>1. n \in Seq(S) /\ v \in Seq(S) /\ <<"=">> \in Seq(S)
  <2>1. ASSUME NEW u \in Seq(STRING) PROVE u \in Seq(S)
    BY SeqDef
  <2>2. n \in Seq(STRING) /\ v \in Seq(STRING)
    BY DEF Env!Given
  <2> QED BY <2>1, <2>2
<1> HIDE DEF S
<1>2. s \in Seq(S) /\ Len(s) = Len(n) + 1 + Len(v)
  BY <1>1 DEF Env!String
<1>3. \A x \in 1 .. Len(n) : s[x] = n[x]
  BY <1>1 DEF Env!String
<1>4. s[Len(n) + 1] = "="
  BY <1>1 DEF Env!String
<1>5. \A x \in 1 .. Len(v) : s[Len(n) + 1 + x] = v[x]
  BY <1>1 DEF Env!String
<1>6. Len(n) \in Nat /\ Len(v) \in Nat
  BY <1>1
<1> HIDE DEF s
<1>7. SubSeq(s, Len(n) + 2, Len(s)) = v
  <2> DEFINE r == SubSeq(s, Len(n) + 2, Len(s))
  <2>1. r \in Seq(S) /\ Len(r) = Len(v) /\ \A x \in 1 .. Len(v) : r[x] = s[Len(n) + 1 + x]
    BY <1>2, <1>6
  <2> HIDE DEF r
  <2>2. r = v
    BY <2>1, <1>1, <1>5, SeqEqual
  <2> QED BY <2>2 DEF r
<1>8. ASSUME NEW m \in Names PROVE Env!IsOf(m, s) <=> m = n
  <2>1. m \in Seq(STRING) /\ Len(m) \in Nat /\ (\A x \in 1 .. Len(m) : m[x] # "=") /\ \A x \in 1 .. Len(n) : n[x] # "="
    BY <1>1 DEF Env!Given
  <2> DEFINE r == SubSeq(s, 1, Len(m))
  <2>2. Len(m) < Len(s) => r \in Seq(S) /\ Len(r) = Len(m) /\ \A x \in 1 .. Len(m) : r[x] = s[x]
    BY <1>2, <2>1
  <2> HIDE DEF r
  <2>3. ASSUME m = n PROVE Env!IsOf(m, s)
    <3>1. r = n
      BY <2>1, <2>2, <2>3, <1>1, <1>2, <1>3, <1>6, SeqEqual
    <3> QED BY <3>1, <2>3, <1>2, <1>4, <1>6 DEF Env!IsOf, r
  <2>4. ASSUME Env!IsOf(m, s) PROVE m = n
    <3>1. Len(m) < Len(s) /\ r = m /\ s[Len(m) + 1] = "="
      BY <2>4, <1>2, <2>1 DEF Env!IsOf, r
    <3>2. \A x \in 1 .. Len(m) : m[x] = s[x]
      BY <3>1, <2>2
    <3>3. ~(Len(m) < Len(n))
      BY <3>1, <1>3, <2>1, <1>6
    <3>4. ~(Len(n) < Len(m))
      BY <3>2, <1>4, <2>1, <1>6
    <3> QED BY <3>2, <3>3, <3>4, <2>1, <1>1, <1>3, <1>6, SeqEqual
  <2> QED BY <2>3, <2>4
<1> QED BY <1>2, <1>7, <1>8 DEF s

(* Two strings are the same when they were made of the same.                *)
LEMMA SameString ==
    ASSUME Env!Given, NEW n \in Names, NEW m \in Names, NEW v \in Values, NEW w \in Values,
           Env!String(n, v) = Env!String(m, w)
    PROVE  n = m /\ v = w
<1>1. n = m
  BY OneName
<1>2. SubSeq(Env!String(n, v), Len(n) + 2, Len(Env!String(n, v))) = v
  BY OneName
<1>3. SubSeq(Env!String(m, w), Len(m) + 2, Len(Env!String(m, w))) = w
  BY OneName
<1> QED BY <1>1, <1>2, <1>3

(* unsetenv(): a string and its variable go together.                       *)
LEMMA Removed ==
    ASSUME Env!Given, NEW f, NEW m, Matching(f, m), NEW p \in DOMAIN f, NEW n \in DOMAIN m, f[p] = Env!String(n, m[n])
    PROVE  Matching(Env!Without(p, f), Env!Without(n, m))
<1> DEFINE g == Env!Without(p, f)
           k == Env!Without(n, m)
<1>1. DOMAIN g = DOMAIN f \ {p} /\ \A q \in DOMAIN g : g[q] = f[q]
  BY DEF Env!Without
<1>2. DOMAIN k = DOMAIN m \ {n} /\ \A x \in DOMAIN k : k[x] = m[x]
  BY DEF Env!Without
<1> HIDE DEF g, k
<1>3. ASSUME NEW x \in DOMAIN k
      PROVE  x \in Names /\ k[x] \in Values /\ \E q \in DOMAIN g : g[q] = Env!String(x, k[x])
  <2>1. x \in DOMAIN m /\ x # n /\ k[x] = m[x] /\ x \in Names /\ m[x] \in Values /\ n \in Names /\ m[n] \in Values
    BY <1>2 DEF Matching
  <2>2. PICK q \in DOMAIN f : f[q] = Env!String(x, m[x])
    BY <2>1 DEF Matching
  <2>3. q # p
    BY <2>1, <2>2, SameString
  <2> QED BY <2>1, <2>2, <2>3, <1>1
<1>4. ASSUME NEW q \in DOMAIN g PROVE \E x \in DOMAIN k : g[q] = Env!String(x, k[x])
  <2>1. q \in DOMAIN f /\ q # p /\ g[q] = f[q]
    BY <1>1
  <2>2. PICK x \in DOMAIN m : f[q] = Env!String(x, m[x])
    BY <2>1 DEF Matching
  <2>3. x # n
    BY <2>1, <2>2 DEF Matching
  <2> QED BY <2>1, <2>2, <2>3, <1>2
<1>5. \A q, r \in DOMAIN g : \A x \in DOMAIN k :
        g[q] = Env!String(x, k[x]) /\ g[r] = Env!String(x, k[x]) => q = r
  BY <1>1, <1>2 DEF Matching
<1> QED BY <1>3, <1>4, <1>5 DEF Matching, g, k

(* setenv(): a string and its variable are added together.                  *)
LEMMA Together ==
    ASSUME Env!Given, NEW f, NEW m, Matching(f, m), NEW p, p \notin DOMAIN f, NEW n \in Names, n \notin DOMAIN m,
           NEW v \in Values
    PROVE  Matching(Env!With(p, Env!String(n, v), f), Env!With(n, v, m))
<1> DEFINE g == Env!With(p, Env!String(n, v), f)
           k == Env!With(n, v, m)
<1>1. DOMAIN g = DOMAIN f \cup {p} /\ g[p] = Env!String(n, v) /\ \A q \in DOMAIN f : g[q] = f[q]
  BY DEF Env!With
<1>2. DOMAIN k = DOMAIN m \cup {n} /\ k[n] = v /\ \A x \in DOMAIN m : k[x] = m[x]
  BY DEF Env!With
<1> HIDE DEF g, k
<1>3. ASSUME NEW x \in DOMAIN k
      PROVE  x \in Names /\ k[x] \in Values /\ \E q \in DOMAIN g : g[q] = Env!String(x, k[x])
  BY <1>1, <1>2 DEF Matching
<1>4. ASSUME NEW q \in DOMAIN g PROVE \E x \in DOMAIN k : g[q] = Env!String(x, k[x])
  BY <1>1, <1>2 DEF Matching
<1>5. ASSUME NEW q \in DOMAIN g, NEW x \in DOMAIN k, g[q] = Env!String(x, k[x])
      PROVE  x = n <=> q = p
  <2>1. x \in Names /\ k[x] \in Values
    BY <1>3
  <2>2. CASE q = p
    <3>1. Env!String(n, v) = Env!String(x, k[x])
      BY <2>2, <1>1, <1>5
    <3>2. n = x
      BY <2>1, <3>1, SameString
    <3> QED BY <2>2, <3>2
  <2>3. CASE q # p
    <3>1. PICK y \in DOMAIN m : f[q] = Env!String(y, m[y])
      BY <2>3, <1>1 DEF Matching
    <3>2. y \in Names /\ m[y] \in Values /\ y # n
      BY DEF Matching
    <3> QED BY <2>1, <2>3, <3>1, <3>2, <1>1, <1>5, SameString
  <2> QED BY <2>2, <2>3
<1>6. ASSUME NEW q \in DOMAIN g, NEW r \in DOMAIN g, NEW x \in DOMAIN k,
             g[q] = Env!String(x, k[x]), g[r] = Env!String(x, k[x])
      PROVE  q = r
  <2>1. CASE x = n
    BY <2>1, <1>5, <1>6
  <2>2. CASE x # n
    <3>1. q # p /\ r # p /\ x \in DOMAIN m
      BY <2>2, <1>2, <1>5, <1>6
    <3> QED BY <3>1, <1>1, <1>2, <1>6 DEF Matching
  <2> QED BY <2>1, <2>2
<1> QED BY <1>3, <1>4, <1>5, <1>6 DEF Matching, g, k

(* The entry that setenv() and getenv() find is the one of the name, and    *)
(* they find none when the variable is not set.                             *)
LEMMA EntryFound ==
    ASSUME Env!Given, EnvInv, NEW n \in Names
    PROVE  /\ Env!Entries(n) = {} <=> n \notin DOMAIN meant
           /\ n \in DOMAIN meant =>
                 /\ Env!Entry(n) \in 1 .. Len(environ) /\ environ[Env!Entry(n)] \in DOMAIN text
                 /\ text[environ[Env!Entry(n)]] = Env!String(n, meant[n])
                 /\ Env!OldValue(n) = meant[n]
<1>1. environ \in Seq(Int) /\ DOMAIN environ = 1 .. Len(environ) /\ Len(environ) \in Nat
  BY DEF EnvInv, Apart
<1>2. \A x \in DOMAIN environ : environ[x] \in DOMAIN text
  BY <1>1 DEF EnvInv, InUse
<1>3. ASSUME NEW x \in Env!Entries(n)
      PROVE  x \in 1 .. Len(environ) /\ n \in DOMAIN meant /\ text[environ[x]] = Env!String(n, meant[n])
  <2>1. x \in DOMAIN environ /\ Env!IsOf(n, text[environ[x]])
    BY DEF Env!Entries
  <2>2. PICK m \in DOMAIN meant : text[environ[x]] = Env!String(m, meant[m])
    BY <2>1, <1>2 DEF EnvInv, Matching
  <2>3. m \in Names /\ meant[m] \in Values
    BY DEF EnvInv, Matching
  <2>4. m = n
    BY <2>1, <2>2, <2>3, OneName
  <2> QED BY <2>1, <2>2, <2>4, <1>1
<1>4. ASSUME n \in DOMAIN meant PROVE Env!Entries(n) # {}
  <2>1. n \in Names /\ meant[n] \in Values
    BY <1>4 DEF EnvInv, Matching
  <2>2. PICK p \in DOMAIN text : text[p] = Env!String(n, meant[n])
    BY <1>4 DEF EnvInv, Matching
  <2>3. PICK x \in 1 .. Len(environ) : p = environ[x]
    BY <2>2 DEF EnvInv, InUse
  <2>4. Env!IsOf(n, text[environ[x]])
    BY <2>1, <2>2, <2>3, OneName
  <2> QED BY <2>3, <2>4, <1>1 DEF Env!Entries
<1>5. ASSUME n \in DOMAIN meant PROVE Env!Entry(n) \in Env!Entries(n)
  <2>1. Env!Entries(n) \in SUBSET Nat
    BY <1>1 DEF Env!Entries
  <2>2. Min(Env!Entries(n)) \in Env!Entries(n)
    BY <2>1, <1>4, <1>5, Lowest
  <2> QED BY <2>2 DEF Env!Entry, Env!Min, Min
<1>6. ASSUME n \in DOMAIN meant PROVE Env!OldValue(n) = meant[n]
  <2>1. text[environ[Env!Entry(n)]] = Env!String(n, meant[n])
    BY <1>3, <1>5, <1>6
  <2>2. n \in Names /\ meant[n] \in Values
    BY <1>6 DEF EnvInv, Matching
  <2> QED BY <2>1, <2>2, OneName DEF Env!OldValue
<1> QED BY <1>1, <1>2, <1>3, <1>4, <1>5, <1>6

(* malloc() hands out a piece that is not in use.                           *)
LEMMA FreshPiece ==
    ASSUME Env!Given, EnvInv, NEW F \in SUBSET Env!Free, F # {}
    PROVE  /\ Env!Min(F) \in F /\ Env!Min(F) \in Objects /\ Env!Min(F) \in Int /\ Env!Min(F) > 0
           /\ Env!Min(F) # vector /\ Env!Min(F) \notin DOMAIN text
           /\ \A x \in 1 .. Len(environ) : environ[x] # Env!Min(F)
<1>1. F \in SUBSET Nat /\ \A p \in F : p \in Objects /\ p \notin pieces /\ p > 0
  BY DEF Env!Free, Env!Given
<1>2. Min(F) \in F
  BY <1>1, Lowest
<1>3. Env!Min(F) \in F
  BY <1>2 DEF Env!Min, Min
<1>4. PICK new \in F : new = Env!Min(F)
  BY <1>3
<1>5. new \in Objects /\ new \in Int /\ new > 0 /\ new \notin pieces
  BY <1>1
<1>6. new # vector /\ \A x \in 1 .. Len(environ) : environ[x] # new
  BY <1>5 DEF EnvInv, InUse
<1>7. new \notin DOMAIN text
  BY <1>6 DEF EnvInv, InUse
<1> QED BY <1>4, <1>5, <1>6, <1>7

(* What is freed is in use, if it is on the heap.                           *)
LEMMA FreedInUse ==
    ASSUME Env!Given, EnvInv, NEW p \in Int, p = vector \/ (\E x \in 1 .. Len(environ) : p = environ[x]), Env!Frees(p)
    PROVE  freed' = {} /\ \A q \in Int : q \in Env!Kept(p) <=> q \in pieces /\ q # p
<1>1. p > 0 => p \in pieces
  BY DEF EnvInv, InUse
<1>2. p \in pieces => p > 0
  BY DEF EnvInv, InUse
<1>3. freed' = {}
  BY <1>1 DEF Env!Frees, Env!OnHeap, EnvInv, InUse
<1> QED BY <1>2, <1>3 DEF Env!Kept, Env!OnHeap

(* setenv() of a value that is not longer leaves the memory as it is.       *)
LEMMA InPlaceStep ==
    ASSUME Env!Given, EnvInv, NEW n \in Names, NEW v \in Values, Env!SetInPlace(n, v)
    PROVE  EnvInv'
<1> DEFINE p == environ[Env!Entry(n)]
<1>1. n \in DOMAIN meant /\ p \in DOMAIN text /\ text[p] = Env!String(n, meant[n])
  BY EntryFound DEF Env!SetInPlace
<1>2. text' = [text EXCEPT ![p] = Env!String(n, v)] /\ meant' = [meant EXCEPT ![n] = v]
  BY DEF Env!SetInPlace
<1>3. UNCHANGED <<environ, vector, pieces, freed>>
  BY DEF Env!SetInPlace
<1> HIDE DEF p
<1>4. text' = Env!With(p, Env!String(n, v), Env!Without(p, text))
  BY <1>1, <1>2 DEF Env!With, Env!Without
<1>5. meant' = Env!With(n, v, Env!Without(n, meant))
  BY <1>1, <1>2 DEF Env!With, Env!Without
<1>6. Matching(Env!Without(p, text), Env!Without(n, meant))
  BY <1>1, Removed DEF EnvInv
<1>7. p \notin DOMAIN Env!Without(p, text) /\ n \notin DOMAIN Env!Without(n, meant)
  BY DEF Env!Without
<1>8. Matching(text', meant')
  BY <1>4, <1>5, <1>6, <1>7, Together
<1>9. DOMAIN text' = DOMAIN text
  BY <1>2
<1>10. Apart' /\ InUse'
  BY <1>3, <1>9, SMTT(30) DEF EnvInv, Apart, InUse
<1> QED BY <1>8, <1>10 DEF EnvInv, Matching

(* setenv() of a longer value gives up the old string for a new one.        *)
LEMMA LongerStep ==
    ASSUME Env!Given, EnvInv, NEW n \in Names, NEW v \in Values, Env!SetLonger(n, v)
    PROVE  EnvInv'
<1> DEFINE e == Env!Entry(n)
           p == environ[e]
           new == Env!New
<1>1. n \in DOMAIN meant /\ e \in 1 .. Len(environ) /\ p \in DOMAIN text /\ text[p] = Env!String(n, meant[n])
  BY EntryFound DEF Env!SetLonger
<1>2. /\ text' = Env!With(new, Env!String(n, v), Env!Without(p, text)) /\ meant' = [meant EXCEPT ![n] = v]
      /\ environ' = [environ EXCEPT ![e] = new] /\ vector' = vector
      /\ Env!Frees(p) /\ pieces' = Env!Kept(p) \cup {new}
  BY DEF Env!SetLonger
<1>3. /\ new \in Objects /\ new \in Int /\ new > 0 /\ new # vector /\ new \notin DOMAIN text
      /\ \A x \in 1 .. Len(environ) : environ[x] # new
  BY FreshPiece DEF Env!SetLonger, Env!New
<1>4. environ \in Seq(Int) /\ vector \in Nat /\ p \in Int /\ Len(environ) \in Nat
  BY <1>1 DEF EnvInv, Apart
<1> HIDE DEF e, new
<1>5. freed' = {} /\ \A q \in Int : q \in Env!Kept(p) <=> q \in pieces /\ q # p
  BY <1>1, <1>2, <1>4, FreedInUse
<1>6. environ' \in Seq(Int) /\ Len(environ') = Len(environ) /\ environ'[e] = new
      /\ \A x \in 1 .. Len(environ) : x # e => environ'[x] = environ[x]
  BY <1>1, <1>2, <1>3, <1>4
<1>7. \A x \in 1 .. Len(environ) : x # e => environ[x] # p
  BY <1>1 DEF EnvInv, Apart
<1>8. Apart'
  BY <1>1, <1>2, <1>3, <1>4, <1>6 DEF EnvInv, Apart
<1>9. DOMAIN text' = (DOMAIN text \ {p}) \cup {new}
  BY <1>2 DEF Env!With, Env!Without
<1>10. DOMAIN text' = {environ'[x] : x \in 1 .. Len(environ')}
  <2>1. DOMAIN text = {environ[x] : x \in 1 .. Len(environ)}
    BY DEF EnvInv, InUse
  <2>2. ASSUME NEW q \in DOMAIN text' PROVE \E x \in 1 .. Len(environ') : q = environ'[x]
    <3>1. CASE q = new
      BY <3>1, <1>1, <1>6
    <3>2. CASE q # new
      <4>1. PICK x \in 1 .. Len(environ) : q = environ[x]
        BY <3>2, <2>1, <1>9
      <4>2. x # e
        BY <4>1, <3>2, <1>9
      <4> QED BY <4>1, <4>2, <1>6
    <3> QED BY <3>1, <3>2
  <2>3. ASSUME NEW x \in 1 .. Len(environ') PROVE environ'[x] \in DOMAIN text'
    BY <2>1, <1>6, <1>7, <1>9
  <2> QED BY <2>2, <2>3
<1>11. pieces' \subseteq Objects
  BY <1>2, <1>3 DEF EnvInv, InUse, Env!Kept
<1>12. ASSUME NEW q \in Int
       PROVE  q \in pieces' <=> q > 0 /\ (q = vector' \/ \E x \in 1 .. Len(environ') : q = environ'[x])
  <2>1. q \in pieces' <=> (q \in pieces /\ q # p) \/ q = new
    BY <1>2, <1>5
  <2>2. q \in pieces <=> q > 0 /\ (q = vector \/ \E x \in 1 .. Len(environ) : q = environ[x])
    BY DEF EnvInv, InUse
  <2>3. vector # p
    BY <1>1 DEF EnvInv, Apart
  <2>4. (\E x \in 1 .. Len(environ') : q = environ'[x])
        <=> (q = new \/ (q # p /\ \E x \in 1 .. Len(environ) : q = environ[x]))
    BY <1>1, <1>6, <1>7
  <2> QED BY <2>1, <2>2, <2>3, <2>4, <1>2, <1>3
<1>13. Matching(text', meant')
  <2>1. meant' = Env!With(n, v, Env!Without(n, meant))
    BY <1>1, <1>2 DEF Env!With, Env!Without
  <2>2. Matching(Env!Without(p, text), Env!Without(n, meant))
    BY <1>1, Removed DEF EnvInv
  <2>3. new \notin DOMAIN Env!Without(p, text) /\ n \notin DOMAIN Env!Without(n, meant)
    BY <1>3 DEF Env!Without
  <2> DEFINE f == Env!Without(p, text)
             m == Env!Without(n, meant)
  <2>4. Matching(f, m) /\ new \notin DOMAIN f /\ n \notin DOMAIN m
    BY <2>2, <2>3
  <2>5. text' = Env!With(new, Env!String(n, v), f) /\ meant' = Env!With(n, v, m)
    BY <1>2, <2>1
  <2> HIDE DEF f, m
  <2>6. Matching(Env!With(new, Env!String(n, v), f), Env!With(n, v, m))
    BY <2>4, Together
  <2> QED BY <2>5, <2>6
<1> QED BY <1>5, <1>8, <1>10, <1>11, <1>12, <1>13 DEF EnvInv, InUse, Matching

(* setenv() of a new variable gives up the old vector for a longer one.     *)
LEMMA NewStep ==
    ASSUME Env!Given, EnvInv, NEW n \in Names, NEW v \in Values, Env!SetNew(n, v)
    PROVE  EnvInv'
<1> DEFINE new == Env!New
           s == Env!Min(Env!Free \ {new})
<1>1. n \notin DOMAIN meant
  BY EntryFound DEF Env!SetNew
<1>2. /\ text' = Env!With(s, Env!String(n, v), text) /\ meant' = Env!With(n, v, meant)
      /\ environ' = Append(environ, s) /\ vector' = new
      /\ Env!Frees(vector) /\ pieces' = Env!Kept(vector) \cup {new, s}
  BY DEF Env!SetNew
<1>3. Env!Free # {} /\ Env!Free \ {new} # {}
  BY DEF Env!SetNew, Env!TwoFree
<1>4. /\ new \in Objects /\ new \in Int /\ new > 0 /\ new # vector
      /\ \A x \in 1 .. Len(environ) : environ[x] # new
  BY <1>3, FreshPiece DEF Env!New
<1>5. /\ s \in Env!Free \ {new} /\ s \in Objects /\ s \in Int /\ s > 0 /\ s # vector /\ s \notin DOMAIN text
      /\ \A x \in 1 .. Len(environ) : environ[x] # s
  <2> HIDE DEF new
  <2> QED BY <1>3, FreshPiece
<1>6. s # new
  BY <1>5
<1> HIDE DEF s, new
<1>7. environ \in Seq(Int) /\ vector \in Int /\ Len(environ) \in Nat
  BY DEF EnvInv, Apart
<1>8. freed' = {} /\ \A q \in Int : q \in Env!Kept(vector) <=> q \in pieces /\ q # vector
  BY <1>2, <1>7, FreedInUse
<1>9. environ' \in Seq(Int) /\ Len(environ') = Len(environ) + 1 /\ environ'[Len(environ) + 1] = s
      /\ \A x \in 1 .. Len(environ) : environ'[x] = environ[x]
  BY <1>2, <1>5, <1>7
<1>10. Apart'
  BY <1>2, <1>4, <1>5, <1>6, <1>7, <1>9 DEF EnvInv, Apart
<1>11. DOMAIN text' = {environ'[x] : x \in 1 .. Len(environ')}
  <2>1. DOMAIN text' = DOMAIN text \cup {s}
    BY <1>2 DEF Env!With
  <2>2. DOMAIN text = {environ[x] : x \in 1 .. Len(environ)}
    BY DEF EnvInv, InUse
  <2>3. ASSUME NEW q \in DOMAIN text' PROVE \E x \in 1 .. Len(environ') : q = environ'[x]
    BY <2>1, <2>2, <1>7, <1>9
  <2>4. ASSUME NEW x \in 1 .. Len(environ') PROVE environ'[x] \in DOMAIN text'
    BY <2>1, <2>2, <1>7, <1>9
  <2> QED BY <2>3, <2>4
<1>12. pieces' \subseteq Objects
  BY <1>2, <1>4, <1>5 DEF EnvInv, InUse, Env!Kept
<1>13. ASSUME NEW q \in Int
       PROVE  q \in pieces' <=> q > 0 /\ (q = vector' \/ \E x \in 1 .. Len(environ') : q = environ'[x])
  <2>1. q \in pieces' <=> (q \in pieces /\ q # vector) \/ q = new \/ q = s
    BY <1>2, <1>8
  <2>2. q \in pieces <=> q > 0 /\ (q = vector \/ \E x \in 1 .. Len(environ) : q = environ[x])
    BY DEF EnvInv, InUse
  <2>3. (\E x \in 1 .. Len(environ) : q = environ[x]) => q # vector
    BY DEF EnvInv, Apart
  <2>4. (\E x \in 1 .. Len(environ') : q = environ'[x])
        <=> (q = s \/ \E x \in 1 .. Len(environ) : q = environ[x])
    <3>1. \A x \in 1 .. Len(environ') : x \in 1 .. Len(environ) \/ x = Len(environ) + 1
      BY <1>7, <1>9
    <3>2. Len(environ) + 1 \in 1 .. Len(environ') /\ \A x \in 1 .. Len(environ) : x \in 1 .. Len(environ')
      BY <1>7, <1>9
    <3> QED BY <3>1, <3>2, <1>9
  <2> QED BY <2>1, <2>2, <2>3, <2>4, <1>2, <1>4, <1>5
<1>14. Matching(text', meant')
  BY <1>1, <1>2, <1>5, Together DEF EnvInv
<1> QED BY <1>8, <1>10, <1>11, <1>12, <1>13, <1>14 DEF EnvInv, InUse, Matching

(* unsetenv() closes the gap in the vector.                                 *)
LEMMA UnsetStep ==
    ASSUME Env!Given, EnvInv, NEW n \in Names, Env!unsetenv(n)
    PROVE  EnvInv'
<1> DEFINE e == Env!Entry(n)
           p == environ[e]
<1>1. n \in DOMAIN meant /\ e \in 1 .. Len(environ) /\ p \in DOMAIN text /\ text[p] = Env!String(n, meant[n])
  BY EntryFound DEF Env!unsetenv
<1>2. /\ text' = Env!Without(p, text) /\ meant' = Env!Without(n, meant)
      /\ environ' = Env!RemoveAt(environ, e) /\ vector' = vector
      /\ Env!Frees(p) /\ pieces' = Env!Kept(p)
  BY DEF Env!unsetenv
<1>3. environ \in Seq(Int) /\ vector \in Nat /\ p \in Int /\ Len(environ) \in Nat
  BY <1>1 DEF EnvInv, Apart
<1> HIDE DEF e
<1>4. freed' = {} /\ \A q \in Int : q \in Env!Kept(p) <=> q \in pieces /\ q # p
  BY <1>1, <1>2, <1>3, FreedInUse
<1>5. environ' \in Seq(Int) /\ Len(environ') = Len(environ) - 1
      /\ \A x \in 1 .. Len(environ') : environ'[x] = IF x < e THEN environ[x] ELSE environ[x + 1]
  <2> DEFINE a == SubSeq(environ, 1, e - 1)
             b == SubSeq(environ, e + 1, Len(environ))
  <2>1. a \in Seq(Int) /\ Len(a) = e - 1 /\ \A x \in 1 .. e - 1 : a[x] = environ[x]
    BY <1>1, <1>3
  <2>2. b \in Seq(Int) /\ Len(b) = Len(environ) - e /\ \A x \in 1 .. Len(environ) - e : b[x] = environ[e + x]
    BY <1>1, <1>3
  <2>3. environ' = a \o b
    BY <1>2 DEF Env!RemoveAt
  <2> HIDE DEF a, b
  <2>4. environ' \in Seq(Int) /\ Len(environ') = Len(environ) - 1
    <3>1. environ' \in Seq(Int) /\ Len(environ') = Len(a) + Len(b)
      BY <2>1, <2>2, <2>3, ConcatProperties
    <3>2. (e - 1) + (Len(environ) - e) = Len(environ) - 1
      BY <1>1, <1>3
    <3> QED BY <3>1, <3>2, <2>1, <2>2
  <2>5. ASSUME NEW x \in 1 .. Len(environ') PROVE environ'[x] = IF x < e THEN environ[x] ELSE environ[x + 1]
    <3>1. CASE x < e
      <4>1. x \in 1 .. Len(a)
        BY <3>1, <2>1, <1>1, <1>3
      <4> QED BY <3>1, <4>1, <2>1, <2>2, <2>3
    <3>2. CASE ~(x < e)
      <4>1. environ'[x] = b[x - (e - 1)] /\ x - (e - 1) \in 1 .. Len(environ) - e
        <5>1. x > Len(a) /\ x <= Len(a) + Len(b) /\ x \in Int
          BY <3>2, <2>1, <2>2, <2>4, <1>1, <1>3
        <5>2. x \in 1 .. Len(a) + Len(b) /\ ~(x <= Len(a))
          BY <5>1, <2>1, <2>2, <1>1, <1>3
        <5>3. (a \o b)[x] = b[x - Len(a)]
          BY <5>2, <2>1, <2>2, ConcatProperties
        <5>4. x - Len(a) \in 1 .. Len(b) /\ Len(a) = e - 1
          BY <5>1, <2>1, <2>2, <1>1, <1>3
        <5> QED BY <5>3, <5>4, <2>2, <2>3
      <4>2. b[x - (e - 1)] = environ[e + (x - (e - 1))] /\ e + (x - (e - 1)) = x + 1
        BY <4>1, <2>2, <1>1, <1>3
      <4> QED BY <3>2, <4>1, <4>2
    <3> QED BY <3>1, <3>2
  <2> QED BY <2>4, <2>5
<1>6. ASSUME NEW x \in 1 .. Len(environ')
      PROVE  \E y \in 1 .. Len(environ) : y # e /\ environ'[x] = environ[y] /\ y = IF x < e THEN x ELSE x + 1
  <2>1. CASE x < e
    <3>1. x \in 1 .. Len(environ) /\ x # e
      BY <2>1, <1>1, <1>3, <1>5
    <3> QED BY <2>1, <3>1, <1>5
  <2>2. CASE ~(x < e)
    <3>1. x + 1 \in 1 .. Len(environ) /\ x + 1 # e
      BY <2>2, <1>1, <1>3, <1>5
    <3> QED BY <2>2, <3>1, <1>5
  <2> QED BY <2>1, <2>2
<1>7. ASSUME NEW y \in 1 .. Len(environ), y # e
      PROVE  \E x \in 1 .. Len(environ') : environ'[x] = environ[y]
  <2>1. CASE y < e
    <3>1. y \in 1 .. Len(environ')
      BY <2>1, <1>1, <1>3, <1>5
    <3> QED BY <2>1, <3>1, <1>5
  <2>2. CASE y > e
    <3>1. y - 1 \in 1 .. Len(environ') /\ ~(y - 1 < e) /\ (y - 1) + 1 = y
      BY <2>2, <1>1, <1>3, <1>5
    <3> QED BY <3>1, <1>5
  <2> QED BY <2>1, <2>2, <1>1, <1>7
<1>8. \A y \in 1 .. Len(environ) : y # e => environ[y] # p
  BY <1>1 DEF EnvInv, Apart
<1>9. Apart'
  <2>1. ASSUME NEW x \in 1 .. Len(environ'), NEW y \in 1 .. Len(environ'), environ'[x] = environ'[y] PROVE x = y
    <3>1. PICK w \in 1 .. Len(environ) : environ'[x] = environ[w] /\ w = IF x < e THEN x ELSE x + 1
      BY <1>6
    <3>2. PICK z \in 1 .. Len(environ) : environ'[y] = environ[z] /\ z = IF y < e THEN y ELSE y + 1
      BY <1>6
    <3>3. w = z
      BY <2>1, <3>1, <3>2 DEF EnvInv, Apart
    <3>4. x \in Int /\ y \in Int /\ e \in Int
      BY <1>1, <1>3, <1>5
    <3> QED BY <3>1, <3>2, <3>3, <3>4
  <2>2. \A x \in 1 .. Len(environ') : environ'[x] # 0 /\ environ'[x] # vector'
    BY <1>2, <1>6 DEF EnvInv, Apart
  <2> QED BY <2>1, <2>2, <1>2, <1>3, <1>5 DEF Apart
<1>10. DOMAIN text' = {environ'[x] : x \in 1 .. Len(environ')}
  <2>1. DOMAIN text' = DOMAIN text \ {p}
    BY <1>2 DEF Env!Without
  <2>2. DOMAIN text = {environ[x] : x \in 1 .. Len(environ)}
    BY DEF EnvInv, InUse
  <2>3. ASSUME NEW q \in DOMAIN text' PROVE \E x \in 1 .. Len(environ') : q = environ'[x]
    BY <2>1, <2>2, <1>7
  <2>4. ASSUME NEW x \in 1 .. Len(environ') PROVE environ'[x] \in DOMAIN text'
    BY <2>1, <2>2, <1>6, <1>8
  <2> QED BY <2>3, <2>4
<1>11. ASSUME NEW q \in Int
       PROVE  q \in pieces' <=> q > 0 /\ (q = vector' \/ \E x \in 1 .. Len(environ') : q = environ'[x])
  <2>1. q \in pieces' <=> q \in pieces /\ q # p
    BY <1>2, <1>4
  <2>2. q \in pieces <=> q > 0 /\ (q = vector \/ \E x \in 1 .. Len(environ) : q = environ[x])
    BY DEF EnvInv, InUse
  <2>3. vector # p
    BY <1>1 DEF EnvInv, Apart
  <2>4. (\E x \in 1 .. Len(environ') : q = environ'[x])
        <=> (q # p /\ \E x \in 1 .. Len(environ) : q = environ[x])
    BY <1>6, <1>7, <1>8
  <2> QED BY <2>1, <2>2, <2>3, <2>4, <1>2
<1>12. Matching(text', meant')
  BY <1>1, <1>2, Removed DEF EnvInv
<1>13. pieces' \subseteq Objects
  BY <1>2 DEF EnvInv, InUse, Env!Kept
<1> QED BY <1>4, <1>9, <1>10, <1>11, <1>12, <1>13 DEF EnvInv, InUse, Matching

(* exec() leaves the variables of its envp on the stack.                    *)
LEMMA EnvStart == ASSUME Env!Given, Env!Init PROVE EnvInv
<1>1. PICK str \in OnStack :
        /\ environ = [x \in DOMAIN str |-> -x] /\ vector = 0
        /\ text = [x \in {-k : k \in DOMAIN str} |-> str[-x]]
        /\ pieces = {} /\ freed = {} /\ meant = Env!Variables(str)
  BY DEF Env!Init
<1>2. DOMAIN str = 1 .. Len(str) /\ Len(str) \in Nat /\ str \in Seq(Seq(STRING))
  BY DEF Env!Given
<1>3. environ \in Seq(Int) /\ Len(environ) = Len(str) /\ \A x \in 1 .. Len(str) : environ[x] = -x
  BY <1>1, <1>2
<1>4. Apart
  BY <1>1, <1>2, <1>3 DEF Apart
<1>5. DOMAIN text = {environ[x] : x \in 1 .. Len(environ)}
  BY <1>1, <1>2, <1>3
<1>6. InUse
  <2>1. ASSUME NEW p \in Int PROVE ~(p > 0 /\ (p = vector \/ \E x \in 1 .. Len(environ) : p = environ[x]))
    BY <1>1, <1>2, <1>3
  <2> QED BY <2>1, <1>1, <1>5 DEF InUse
<1>7. ASSUME NEW p \in DOMAIN text PROVE -p \in 1 .. Len(str) /\ p \in Int /\ text[p] = str[-p]
  BY <1>1, <1>2
<1>8. ASSUME NEW x \in 1 .. Len(str) PROVE -x \in DOMAIN text /\ text[-x] = str[x]
  <2>1. -x \in DOMAIN text /\ text[-x] = str[-(-x)]
    BY <1>1, <1>2
  <2> QED BY <2>1
<1>9. DOMAIN meant = {n \in Names : \E x \in DOMAIN str : \E v \in Values : str[x] = Env!String(n, v)}
  BY <1>1 DEF Env!Variables
<1>10. ASSUME NEW n \in DOMAIN meant
       PROVE  n \in Names /\ meant[n] \in Values /\ \E x \in 1 .. Len(str) : str[x] = Env!String(n, meant[n])
  <2>1. meant[n] = CHOOSE v \in Values : \E x \in DOMAIN str : str[x] = Env!String(n, v)
    BY <1>1, <1>9 DEF Env!Variables
  <2>2. \E v \in Values : \E x \in DOMAIN str : str[x] = Env!String(n, v)
    BY <1>9
  <2> QED BY <1>2, <1>9, <2>1, <2>2
<1>11. ASSUME NEW n \in DOMAIN meant PROVE \E p \in DOMAIN text : text[p] = Env!String(n, meant[n])
  BY <1>8, <1>10
<1>12. ASSUME NEW n \in Names, NEW v \in Values, NEW w \in Values, NEW x \in 1 .. Len(str), NEW y \in 1 .. Len(str),
              str[x] = Env!String(n, v), str[y] = Env!String(n, w)
       PROVE  x = y
  <2>1. \A a, b \in DOMAIN str : str[a] = Env!String(n, v) /\ str[b] = Env!String(n, w) => a = b
    BY DEF Env!Given
  <2> QED BY <2>1, <1>2, <1>12
<1>13. ASSUME NEW p \in DOMAIN text PROVE \E n \in DOMAIN meant : text[p] = Env!String(n, meant[n])
  <2>1. PICK n \in Names, v \in Values : str[-p] = Env!String(n, v)
    BY <1>2, <1>7 DEF Env!Given
  <2>2. n \in DOMAIN meant
    BY <2>1, <1>2, <1>7, <1>9
  <2>3. PICK x \in 1 .. Len(str) : str[x] = Env!String(n, meant[n])
    BY <2>2, <1>10
  <2>4. meant[n] \in Values /\ -p \in 1 .. Len(str)
    BY <2>2, <1>7, <1>10
  <2>5. x = -p
    BY <2>1, <2>3, <2>4, <1>12
  <2> QED BY <2>2, <2>3, <2>5, <1>7
<1>14. ASSUME NEW p \in DOMAIN text, NEW q \in DOMAIN text, NEW n \in DOMAIN meant,
              text[p] = Env!String(n, meant[n]), text[q] = Env!String(n, meant[n])
       PROVE  p = q
  <2>1. n \in Names /\ meant[n] \in Values
    BY <1>10
  <2>2. -p = -q
    <3>1. str[-p] = Env!String(n, meant[n]) /\ str[-q] = Env!String(n, meant[n])
      BY <1>7, <1>14
    <3> QED BY <2>1, <3>1, <1>7, <1>12
  <2> QED BY <2>2, <1>7
<1> QED BY <1>4, <1>6, <1>10, <1>11, <1>13, <1>14 DEF EnvInv, Matching

(* environ.c: getenv() answers what setenv() and unsetenv() were asked for, *)
(* and each piece of memory is freed once, for any names, any values and    *)
(* any environment that exec() was given.                                   *)
THEOREM VariablesKept == ASSUME Env!Given PROVE Env!Spec => []EnvKept
<1>1. Env!Init => EnvInv
  BY EnvStart
<1>2. EnvInv /\ [Env!Next]_Env!vars => EnvInv'
  <2> SUFFICES ASSUME EnvInv, [Env!Next]_Env!vars PROVE EnvInv'
    OBVIOUS
  <2>1. CASE UNCHANGED Env!vars
    <3>1. UNCHANGED <<environ, vector, text, pieces, freed, meant>>
      BY <2>1 DEF Env!vars
    <3>2. Apart' /\ InUse'
      BY <3>1 DEF EnvInv, Apart, InUse
    <3>3. Matching(text, meant)'
      BY <3>1 DEF EnvInv, Matching
    <3> QED BY <3>2, <3>3 DEF EnvInv
  <2>2. CASE Env!Next
    <3>1. PICK n \in Names :
            \/ Env!unsetenv(n)
            \/ \E v \in Values : Env!SetInPlace(n, v) \/ Env!SetLonger(n, v) \/ Env!SetNew(n, v) \/ Env!SetFails(n, v)
      BY <2>2 DEF Env!Next
    <3>2. ASSUME NEW v \in Values, Env!SetFails(n, v) PROVE EnvInv'
      BY <3>2, <2>1 DEF Env!SetFails
    <3> QED BY <3>1, <3>2, UnsetStep, InPlaceStep, LongerStep, NewStep
  <2> QED BY <2>1, <2>2
<1>3. EnvInv => EnvKept
  <2> SUFFICES ASSUME EnvInv PROVE Env!EnvKept
    BY DEF EnvKept
  <2>1. \A n \in Names : Env!getenv(n) = (IF n \in DOMAIN meant THEN meant[n] ELSE <<"NULL">>)
    BY EntryFound DEF Env!getenv
  <2>2. environ \in Seq(Int) /\ DOMAIN environ = 1 .. Len(environ) /\ vector \in Int
    BY DEF EnvInv, Apart
  <2>3. pieces = {p \in Env!ToSet(environ) \cup {vector} : p > 0}
    <3>1. Env!ToSet(environ) = {environ[x] : x \in 1 .. Len(environ)}
      BY <2>2 DEF Env!ToSet
    <3>2. pieces \subseteq Int
      BY DEF EnvInv, InUse, Env!Given
    <3>3. \A x \in 1 .. Len(environ) : environ[x] \in Int
      BY <2>2
    <3> QED BY <3>1, <3>2, <3>3, <2>2 DEF EnvInv, InUse
  <2> QED BY <2>1, <2>2, <2>3 DEF Env!EnvKept, EnvInv, InUse, Apart
<1> QED BY <1>1, <1>2, <1>3, PTL DEF Env!Spec

-----------------------------------------------------------------------------
(* The allocator.                                                           *)
(* A set of naturals that has 0 and with each number the next has them all. *)
LEMMA Induction ==
    ASSUME NEW S, 0 \in S, \A n \in Nat : n \in S => n + 1 \in S
    PROVE  \A n \in Nat : n \in S
<1> SUFFICES ASSUME NEW m \in Nat, m \notin S PROVE FALSE
  OBVIOUS
<1> DEFINE C == {n \in Nat : n \notin S}
<1>1. C \in SUBSET Nat /\ C # {}
  OBVIOUS
<1>2. PICK x \in C : \A y \in C : x <= y
  <2> HIDE DEF C
  <2> QED BY <1>1, Lowest
<1>3. x \in Nat /\ x # 0 /\ x \notin S
  OBVIOUS
<1>4. x - 1 \in Nat /\ (x - 1) + 1 = x /\ ~(x <= x - 1)
  BY <1>3
<1>5. x - 1 \in S
  BY <1>2, <1>4
<1> QED BY <1>3, <1>4, <1>5

(* The last address, and the list that a walk from freep follows.           *)
Top == 2 + MAX_HEAP
HeapType == [ptr : [H!Addrs -> H!Addrs], size : [H!Addrs -> Nat], freep : H!Addrs]
Walks(w, h) == w[0] = h.freep /\ \A k \in 1 .. Top + 1 : w[k] = h.ptr[w[k - 1]]

(* The blocks F are in a list, in the order of their addresses, from base   *)
(* and back to it.                                                          *)
Linked(h, F) ==
    /\ F \in SUBSET (2 .. Top) /\ h.freep \in F \cup {0} /\ h.size[0] = 0
    /\ \A f \in F \cup {0} :
         \/ h.ptr[f] = 0 /\ \A g \in F : g <= f
         \/ h.ptr[f] \in F /\ h.ptr[f] > f /\ \A g \in F : g > f => h.ptr[f] <= g

(* The addresses.                                                           *)
LEMMA AddrsAre == ASSUME H!Sizes PROVE Top \in Nat /\ Top >= 2 /\ H!Addrs = 0 .. Top /\ H!FirstUnit = 2 /\ H!base = 0
BY DEF H!Sizes, Top, H!Addrs, H!FirstUnit, H!base

(* The list can be walked.                                                  *)
LEMMA WalkRuns ==
    ASSUME H!Sizes, NEW h \in HeapType
    PROVE  \E w : w = [k \in 0 .. Top + 1 |-> IF k = 0 THEN h.freep ELSE h.ptr[w[k - 1]]]
<1> DEFINE S == {n \in Nat : \E f \in [0 .. n -> H!Addrs] :
                   f[0] = h.freep /\ \A k \in 1 .. n : f[k] = h.ptr[f[k - 1]]}
<1>1. Top \in Nat /\ h.freep \in H!Addrs /\ h.ptr \in [H!Addrs -> H!Addrs]
  BY AddrsAre DEF HeapType
<1>2. 0 \in S
  <2> DEFINE f == [k \in 0 .. 0 |-> h.freep]
  <2>1. f \in [0 .. 0 -> H!Addrs] /\ f[0] = h.freep /\ \A k \in 1 .. 0 : f[k] = h.ptr[f[k - 1]]
    BY <1>1
  <2> QED BY <2>1
<1>3. ASSUME NEW n \in Nat, n \in S PROVE n + 1 \in S
  <2>1. PICK f \in [0 .. n -> H!Addrs] : f[0] = h.freep /\ \A k \in 1 .. n : f[k] = h.ptr[f[k - 1]]
    BY <1>3
  <2> DEFINE g == [k \in 0 .. n + 1 |-> IF k = n + 1 THEN h.ptr[f[n]] ELSE f[k]]
  <2>2. g \in [0 .. n + 1 -> H!Addrs]
    BY <1>1
  <2>3. g[0] = h.freep /\ g[n + 1] = h.ptr[f[n]] /\ \A k \in 0 .. n : g[k] = f[k]
    BY <2>1
  <2> HIDE DEF g
  <2>4. ASSUME NEW k \in 1 .. n + 1 PROVE g[k] = h.ptr[g[k - 1]]
    <3>1. CASE k = n + 1
      <4>1. k - 1 = n /\ n \in 0 .. n
        BY <3>1
      <4> QED BY <3>1, <4>1, <2>3
    <3>2. CASE k # n + 1
      <4>1. k \in 1 .. n /\ k \in 0 .. n /\ k - 1 \in 0 .. n
        BY <3>2
      <4> QED BY <4>1, <2>1, <2>3
    <3> QED BY <3>1, <3>2
  <2> QED BY <2>2, <2>3, <2>4
<1> HIDE DEF S
<1>4. Top + 1 \in S
  BY <1>1, <1>2, <1>3, Induction
<1>5. PICK f \in [0 .. Top + 1 -> H!Addrs] : f[0] = h.freep /\ \A k \in 1 .. Top + 1 : f[k] = h.ptr[f[k - 1]]
  BY <1>1, <1>4 DEF S
<1>6. f = [k \in 0 .. Top + 1 |-> IF k = 0 THEN h.freep ELSE h.ptr[f[k - 1]]]
  <2>1. \A k \in 0 .. Top + 1 : f[k] = IF k = 0 THEN h.freep ELSE h.ptr[f[k - 1]]
    BY <1>1, <1>5
  <2> QED BY <2>1
<1> QED BY <1>6

(* What a walk gives.                                                      *)
LEMMA WalkIs ==
    ASSUME H!Sizes, NEW h \in HeapType
    PROVE  DOMAIN H!Walk(h) = 0 .. Top + 1 /\ Walks(H!Walk(h), h)
<1> DEFINE w == CHOOSE v : v = [k \in 0 .. Top + 1 |-> IF k = 0 THEN h.freep ELSE h.ptr[v[k - 1]]]
<1>1. w = [k \in 0 .. Top + 1 |-> IF k = 0 THEN h.freep ELSE h.ptr[w[k - 1]]]
  BY WalkRuns, Zenon
<1>2. H!FirstUnit + MAX_HEAP + 1 = Top + 1
  BY DEF H!FirstUnit, Top, H!Sizes
<1>3. H!Walk(h) = w
  BY <1>2 DEF H!Walk
<1> HIDE DEF w
<1>4. \A k \in 0 .. Top + 1 : w[k] = IF k = 0 THEN h.freep ELSE h.ptr[w[k - 1]]
  BY <1>1
<1>5. Walks(w, h)
  BY <1>4, AddrsAre DEF Walks
<1>6. DOMAIN w = 0 .. Top + 1
  BY <1>1
<1> QED BY <1>3, <1>5, <1>6

(* A walk stays in the list.                                                *)
LEMMA WalkStays ==
    ASSUME H!Sizes, NEW h, NEW F, Linked(h, F), NEW w, Walks(w, h)
    PROVE  \A k \in 0 .. Top + 1 : w[k] \in F \cup {0}
<1> DEFINE S == {n \in Nat : n <= Top + 1 => w[n] \in F \cup {0}}
<1>1. Top \in Nat
  BY AddrsAre
<1>2. 0 \in S
  BY DEF Linked, Walks
<1>3. ASSUME NEW n \in Nat, n \in S PROVE n + 1 \in S
  <2> SUFFICES ASSUME n + 1 <= Top + 1 PROVE w[n + 1] \in F \cup {0}
    OBVIOUS
  <2>1. n + 1 \in 1 .. Top + 1 /\ (n + 1) - 1 = n /\ w[n] \in F \cup {0}
    BY <1>1, <1>3
  <2>2. w[n + 1] = h.ptr[w[n]]
    BY <2>1 DEF Walks
  <2>3. h.ptr[w[n]] \in F \cup {0}
    BY <2>1 DEF Linked
  <2> QED BY <2>2, <2>3
<1> HIDE DEF S
<1>4. \A n \in Nat : n \in S
  BY <1>2, <1>3, Induction
<1> QED BY <1>1, <1>4 DEF S

(* From a block, a walk comes to any block above it.                        *)
LEMMA Climb ==
    ASSUME H!Sizes, NEW h, NEW F, Linked(h, F), NEW w, Walks(w, h),
           NEW i0 \in Nat, NEW a \in F \cup {0}, NEW f \in F \cup {0}, w[i0] = a, a <= f, i0 + (f - a) <= Top + 1
    PROVE  \E j \in i0 .. i0 + (f - a) : w[j] = f
<1>1. Top \in Nat /\ F \in SUBSET Nat /\ a \in Nat /\ f \in Nat
  BY AddrsAre DEF Linked
<1> SUFFICES ASSUME \A j \in i0 .. i0 + (f - a) : w[j] # f PROVE FALSE
  OBVIOUS
<1> DEFINE S == {n \in Nat : n <= f - a => w[i0 + n] \in F \cup {0} /\ a + n <= w[i0 + n] /\ w[i0 + n] < f}
<1>2. 0 \in S
  <2>1. i0 + 0 = i0 /\ i0 \in i0 .. i0 + (f - a)
    BY <1>1
  <2>2. a # f
    BY <2>1
  <2> QED BY <2>1, <2>2, <1>1
<1>3. ASSUME NEW n \in Nat, n \in S PROVE n + 1 \in S
  <2> SUFFICES ASSUME n + 1 <= f - a
               PROVE  w[i0 + (n + 1)] \in F \cup {0} /\ a + (n + 1) <= w[i0 + (n + 1)] /\ w[i0 + (n + 1)] < f
    OBVIOUS
  <2>1. PICK k \in Nat : k = i0 + (n + 1)
    OBVIOUS
  <2>2. k \in 1 .. Top + 1 /\ k - 1 = i0 + n /\ k \in i0 .. i0 + (f - a)
    BY <2>1, <1>1
  <2>3. PICK x \in F \cup {0} : x = w[k - 1] /\ a + n <= x /\ x < f
    <3>1. n <= f - a
      BY <1>1
    <3>2. w[i0 + n] \in F \cup {0} /\ a + n <= w[i0 + n] /\ w[i0 + n] < f
      BY <1>3, <3>1
    <3> QED BY <2>2, <3>2
  <2>4. w[k] = h.ptr[x]
    BY <2>2, <2>3 DEF Walks
  <2>5. f \in F /\ x \in Nat
    BY <2>3, <1>1
  <2>6. h.ptr[x] \in F /\ h.ptr[x] > x /\ h.ptr[x] <= f
    <3>1. ~(h.ptr[x] = 0 /\ \A g \in F : g <= x)
      BY <2>3, <2>5, <1>1
    <3>2. h.ptr[x] \in F /\ h.ptr[x] > x /\ \A g \in F : g > x => h.ptr[x] <= g
      BY <3>1 DEF Linked
    <3> QED BY <3>2, <2>3, <2>5, <1>1
  <2>7. w[k] # f
    BY <2>2
  <2>8. PICK y \in Nat : y = w[k] /\ y \in F /\ y > x /\ y <= f /\ y # f
    BY <2>4, <2>6, <2>7, <1>1
  <2>9. a + (n + 1) <= y /\ y < f
    BY <2>3, <2>5, <2>8, <1>1
  <2> QED BY <2>1, <2>8, <2>9
<1> HIDE DEF S
<1>4. \A n \in Nat : n \in S
  BY <1>2, <1>3, Induction
<1>5. PICK n \in Nat : n = f - a
  BY <1>1
<1>6. w[i0 + n] \in F \cup {0} /\ a + n <= w[i0 + n] /\ w[i0 + n] < f
  BY <1>1, <1>4, <1>5 DEF S
<1>7. PICK x \in Nat : x = w[i0 + n]
  BY <1>1, <1>6
<1>8. a + n = f /\ a + n <= x /\ x < f
  BY <1>1, <1>5, <1>6, <1>7
<1> QED BY <1>1, <1>7, <1>8

(* The last block of the list.                                              *)
LEMMA LastBlock ==
    ASSUME H!Sizes, NEW h, NEW F, Linked(h, F)
    PROVE  \E m \in F \cup {0} : h.ptr[m] = 0 /\ \A g \in F \cup {0} : g <= m
<1>1. Top \in Nat /\ F \in SUBSET (2 .. Top)
  BY AddrsAre DEF Linked
<1> DEFINE U == {n \in Nat : \A g \in F \cup {0} : g <= n}
<1>2. Top \in U
  BY <1>1
<1>3. PICK m \in U : \A y \in U : m <= y
  <2>1. U \in SUBSET Nat /\ U # {}
    BY <1>2
  <2> HIDE DEF U
  <2> QED BY <2>1, Lowest
<1>4. m \in F \cup {0}
  <2> SUFFICES ASSUME m \notin F \cup {0} PROVE FALSE
    OBVIOUS
  <2>1. \A g \in F \cup {0} : g \in Nat /\ g <= m /\ g # m
    BY <1>1
  <2>2. m \in Nat /\ m # 0
    OBVIOUS
  <2>3. m - 1 \in Nat /\ \A g \in F \cup {0} : g <= m - 1
    BY <2>1, <2>2
  <2>4. m - 1 \in U /\ ~(m <= m - 1)
    BY <2>2, <2>3
  <2> QED BY <1>3, <2>4
<1>5. h.ptr[m] = 0
  <2>1. m \in Nat /\ \A g \in F : g \in Nat /\ g <= m
    BY <1>1
  <2>2. ~(h.ptr[m] \in F /\ h.ptr[m] > m)
    BY <2>1
  <2> QED BY <1>4, <2>2 DEF Linked
<1> QED BY <1>4, <1>5

(* A walk comes to every block of the list, and back to where it began.     *)
LEMMA WalkAll ==
    ASSUME H!Sizes, NEW h, NEW F, Linked(h, F), NEW w, Walks(w, h)
    PROVE  /\ \A f \in F \cup {0} : \E k \in 0 .. Top + 1 : w[k] = f
           /\ \E k \in 1 .. Top + 1 : w[k] = h.freep
<1>1. Top \in Nat /\ F \in SUBSET (2 .. Top) /\ F \in SUBSET Nat /\ Top >= 2
  BY AddrsAre DEF Linked
<1>2. PICK a \in F \cup {0} : a = h.freep /\ w[0] = a
  BY DEF Linked, Walks
<1>3. PICK m \in F \cup {0} : h.ptr[m] = 0 /\ \A g \in F \cup {0} : g <= m
  BY LastBlock
<1>4. a \in Nat /\ m \in Nat /\ a <= m /\ m <= Top
  BY <1>1, <1>3
<1>5. ASSUME NEW f \in F \cup {0}, a <= f PROVE \E k \in 0 .. f - a : w[k] = f
  <2>1. f \in Nat /\ f <= Top /\ 0 + (f - a) = f - a /\ 0 + (f - a) <= Top + 1
    BY <1>1, <1>4
  <2>2. \E j \in 0 .. 0 + (f - a) : w[j] = f
    BY <1>2, <1>5, <2>1, Climb
  <2> QED BY <2>1, <2>2
<1>6. PICK e \in 0 .. m - a : w[e] = m
  BY <1>4, <1>5
<1>7. PICK z \in Nat : z = e + 1 /\ z \in 1 .. m - a + 1 /\ z \in 1 .. Top + 1 /\ z - 1 = e
  BY <1>1, <1>4
<1>8. w[z] = 0
  BY <1>3, <1>6, <1>7 DEF Walks
<1>9. ASSUME NEW f \in F \cup {0}, f <= a PROVE \E k \in z .. z + f : w[k] = f /\ k \in 1 .. Top + 1
  <2>1. f \in Nat /\ 0 <= f /\ z + (f - 0) = z + f /\ z + (f - 0) <= Top + 1
    BY <1>1, <1>4, <1>7, <1>9
  <2>2. \E j \in z .. z + (f - 0) : w[j] = f
    <3>1. PICK o \in F \cup {0} : o = 0
      OBVIOUS
    <3>2. w[z] = o /\ o <= f /\ z + (f - o) <= Top + 1 /\ z \in Nat
      BY <3>1, <2>1, <1>8
    <3>3. \E j \in z .. z + (f - o) : w[j] = f
      BY <3>2, Climb
    <3> QED BY <3>1, <3>3
  <2> QED BY <2>1, <2>2, <1>7, <1>1
<1>10. ASSUME NEW f \in F \cup {0} PROVE \E k \in 0 .. Top + 1 : w[k] = f
  <2>1. CASE a <= f
    <3>1. PICK k \in 0 .. f - a : w[k] = f
      BY <2>1, <1>5
    <3>2. k \in 0 .. Top + 1
      BY <1>1, <1>4
    <3> QED BY <3>1, <3>2
  <2>2. CASE f <= a
    <3>1. PICK k \in 1 .. Top + 1 : w[k] = f
      BY <2>2, <1>9
    <3>2. k \in 0 .. Top + 1
      BY <1>1
    <3> QED BY <3>1, <3>2
  <2> QED BY <2>1, <2>2, <1>1, <1>4
<1>11. \E k \in 1 .. Top + 1 : w[k] = h.freep
  <2>1. a <= a
    BY <1>4
  <2> QED BY <2>1, <1>2, <1>9
<1> QED BY <1>10, <1>11

(* The blocks X of the sizes s and the units T cover the heap up to e, each *)
(* unit once.                                                               *)
Tiled(X, s, T, e) ==
    /\ e \in 2 .. Top /\ X \in SUBSET (2 .. e - 1) /\ T \in SUBSET (2 .. e - 1)
    /\ \A a \in X : s[a] \in Nat \ {0} /\ a + s[a] <= e
    /\ \A a, b \in X : a < b => a + s[a] <= b
    /\ \A a \in X : \A u \in T : ~(a <= u /\ u < a + s[a])
    /\ \A u \in 2 .. e - 1 : u \in T \/ \E a \in X : a <= u /\ u < a + s[a]

(* The sizes of other units do not matter.                                  *)
LEMMA TileSame ==
    ASSUME NEW X, NEW s, NEW T, NEW e, Tiled(X, s, T, e), NEW r, \A a \in X : r[a] = s[a]
    PROVE  Tiled(X, r, T, e)
BY DEF Tiled

(* Two blocks next to each other become one.                                *)
LEMMA TileJoin ==
    ASSUME H!Sizes, NEW X, NEW s, NEW T, NEW e, Tiled(X, s, T, e), NEW x \in X, NEW y \in X, x + s[x] = y,
           NEW r, r[x] = s[x] + s[y], \A a \in X \ {x, y} : r[a] = s[a]
    PROVE  Tiled(X \ {y}, r, T, e)
<1>1. Top \in Nat /\ e \in Nat /\ X \in SUBSET Nat /\ T \in SUBSET Nat /\ \A a \in X : s[a] \in Nat /\ s[a] > 0
  BY AddrsAre DEF Tiled
<1>2. x \in Nat /\ y \in Nat /\ s[x] \in Nat /\ s[y] \in Nat /\ x < y /\ s[y] > 0
  BY <1>1
<1>3. y + s[y] <= e /\ x + r[x] = y + s[y] /\ r[x] \in Nat \ {0}
  BY <1>1, <1>2 DEF Tiled
<1>4. \A a \in X \ {y} : r[a] \in Nat \ {0} /\ a + r[a] <= e
  BY <1>2, <1>3 DEF Tiled
<1>5. ASSUME NEW a \in X \ {y}, NEW b \in X \ {y}, a < b PROVE a + r[a] <= b
  <2>1. a + s[a] <= b
    BY <1>5 DEF Tiled
  <2>2. CASE a # x
    BY <2>1, <2>2
  <2>3. CASE a = x
    <3>1. b > y
      BY <2>1, <2>3, <1>1, <1>2
    <3>2. y + s[y] <= b
      BY <3>1 DEF Tiled
    <3> QED BY <3>2, <2>3, <1>3
  <2> QED BY <2>2, <2>3
<1>6. ASSUME NEW a \in X \ {y}, NEW u \in T PROVE ~(a <= u /\ u < a + r[a])
  <2>1. CASE a # x
    BY <2>1 DEF Tiled
  <2>2. CASE a = x
    <3>1. ~(x <= u /\ u < x + s[x]) /\ ~(y <= u /\ u < y + s[y])
      BY DEF Tiled
    <3> QED BY <3>1, <2>2, <1>1, <1>2, <1>3
  <2> QED BY <2>1, <2>2
<1>7. ASSUME NEW u \in 2 .. e - 1, u \notin T PROVE \E a \in X \ {y} : a <= u /\ u < a + r[a]
  <2>1. PICK a \in X : a <= u /\ u < a + s[a]
    BY <1>7 DEF Tiled
  <2>2. CASE a \notin {x, y}
    BY <2>1, <2>2
  <2>3. CASE a \in {x, y}
    <3>1. x <= u /\ u < x + r[x] /\ x # y
      BY <2>1, <2>3, <1>1, <1>2, <1>3
    <3> QED BY <3>1
  <2> QED BY <2>2, <2>3
<1>8. e \in 2 .. Top /\ X \ {y} \in SUBSET (2 .. e - 1) /\ T \in SUBSET (2 .. e - 1)
  BY DEF Tiled
<1> QED BY <1>4, <1>5, <1>6, <1>7, <1>8 DEF Tiled

(* The end of a block becomes a block.                                      *)
LEMMA TileSplit ==
    ASSUME H!Sizes, NEW X, NEW s, NEW T, NEW e, Tiled(X, s, T, e), NEW p \in X, NEW n \in Nat \ {0}, NEW q,
           n < s[p], q = p + (s[p] - n), NEW r, r[p] = s[p] - n, r[q] = n, \A a \in X \ {p} : r[a] = s[a]
    PROVE  q \notin X /\ Tiled(X \cup {q}, r, T, e)
<1>1. Top \in Nat /\ e \in Nat /\ X \in SUBSET Nat /\ T \in SUBSET Nat /\ \A a \in X : s[a] \in Nat /\ s[a] > 0
  BY AddrsAre DEF Tiled
<1>2. p \in Nat /\ s[p] \in Nat /\ q \in Nat /\ p < q /\ q + n = p + s[p] /\ p + r[p] = q /\ r[p] \in Nat \ {0}
  BY <1>1
<1>3. p + s[p] <= e /\ q < e
  BY <1>1, <1>2 DEF Tiled
<1>4. ASSUME NEW a \in X, a # p PROVE a # q /\ (a < q => a + s[a] <= p) /\ (a > p => a >= q + n)
  <2>1. (a < p => a + s[a] <= p) /\ (p < a => p + s[p] <= a)
    BY DEF Tiled
  <2>2. a \in Nat
    BY <1>1
  <2> QED BY <2>1, <2>2, <1>2, <1>4
<1>5. q \notin X
  BY <1>2, <1>4
<1>6. \A a \in X \cup {q} : r[a] \in Nat \ {0} /\ a + r[a] <= e
  <2>1. ASSUME NEW a \in X, a # p PROVE r[a] \in Nat \ {0} /\ a + r[a] <= e
    BY <2>1 DEF Tiled
  <2> QED BY <2>1, <1>1, <1>2, <1>3
<1>7. ASSUME NEW a \in X \cup {q}, NEW b \in X \cup {q}, a < b PROVE a + r[a] <= b
  <2>1. CASE a = q
    <3>1. b \in X /\ b # p /\ b > p
      BY <2>1, <1>1, <1>2, <1>7
    <3> QED BY <2>1, <3>1, <1>4
  <2>2. CASE a = p
    <3>1. CASE b = q
      BY <2>2, <3>1, <1>2
    <3>2. CASE b # q
      <4>1. b \in X /\ b # p /\ b > p
        BY <2>2, <3>2, <1>1, <1>2, <1>7
      <4>2. b >= q + n /\ b \in Nat
        BY <4>1, <1>1, <1>4
      <4> QED BY <2>2, <4>2, <1>2
    <3> QED BY <3>1, <3>2
  <2>3. CASE a \in X /\ a # p
    <3>1. r[a] = s[a] /\ a \in Nat /\ s[a] \in Nat
      BY <2>3, <1>1
    <3>2. CASE b = q
      <4>1. a + s[a] <= p
        BY <2>3, <3>2, <1>4, <1>7
      <4> QED BY <3>1, <3>2, <4>1, <1>2
    <3>3. CASE b \in X
      BY <2>3, <3>1, <3>3, <1>7 DEF Tiled
    <3> QED BY <3>2, <3>3
  <2> QED BY <2>1, <2>2, <2>3
<1>8. ASSUME NEW a \in X \cup {q}, NEW u \in T PROVE ~(a <= u /\ u < a + r[a])
  <2>1. ~(p <= u /\ u < p + s[p]) /\ u \in Nat
    BY <1>1 DEF Tiled
  <2>2. CASE a \in X /\ a # p
    BY <2>2 DEF Tiled
  <2>3. CASE a \in {p, q}
    BY <2>1, <2>3, <1>2
  <2> QED BY <2>2, <2>3
<1>9. ASSUME NEW u \in 2 .. e - 1, u \notin T PROVE \E a \in X \cup {q} : a <= u /\ u < a + r[a]
  <2>1. PICK a \in X : a <= u /\ u < a + s[a]
    BY <1>9 DEF Tiled
  <2>2. CASE a # p
    BY <2>1, <2>2
  <2>3. CASE a = p
    <3>1. (p <= u /\ u < p + r[p]) \/ (q <= u /\ u < q + r[q])
      BY <2>1, <2>3, <1>1, <1>2
    <3> QED BY <3>1
  <2> QED BY <2>2, <2>3
<1>10. e \in 2 .. Top /\ X \cup {q} \in SUBSET (2 .. e - 1) /\ T \in SUBSET (2 .. e - 1)
  <2>1. q \in 2 .. e - 1
    <3>1. p \in 2 .. e - 1
      BY DEF Tiled
    <3> QED BY <3>1, <1>1, <1>2, <1>3
  <2> QED BY <2>1 DEF Tiled
<1> QED BY <1>5, <1>6, <1>7, <1>8, <1>9, <1>10 DEF Tiled

(* The heap grows by a block.                                               *)
LEMMA TileGrow ==
    ASSUME H!Sizes, NEW X, NEW s, NEW T, NEW e, Tiled(X, s, T, e), NEW n \in Nat \ {0}, e + n <= Top,
           NEW r, r[e] = n, \A a \in X : r[a] = s[a]
    PROVE  e \notin X /\ Tiled(X \cup {e}, r, T, e + n)
<1>1. Top \in Nat /\ e \in Nat /\ e >= 2 /\ X \in SUBSET (2 .. e - 1) /\ T \in SUBSET (2 .. e - 1)
      /\ \A a \in X : s[a] \in Nat /\ s[a] > 0 /\ a + s[a] <= e
  BY AddrsAre DEF Tiled
<1>2. \A a \in X : a \in Nat /\ a < e
  BY <1>1
<1>3. \A a \in X \cup {e} : r[a] \in Nat \ {0} /\ a + r[a] <= e + n
  BY <1>1, <1>2
<1>4. ASSUME NEW a \in X \cup {e}, NEW b \in X \cup {e}, a < b PROVE a + r[a] <= b
  <2>1. a \in X
    BY <1>1, <1>2, <1>4
  <2>2. CASE b = e
    BY <2>1, <2>2, <1>1
  <2>3. CASE b \in X
    BY <2>1, <2>3, <1>4 DEF Tiled
  <2> QED BY <2>2, <2>3
<1>5. ASSUME NEW a \in X \cup {e}, NEW u \in T PROVE ~(a <= u /\ u < a + r[a])
  <2>1. CASE a \in X
    BY <2>1 DEF Tiled
  <2>2. CASE a = e
    BY <2>2, <1>1
  <2> QED BY <2>1, <2>2
<1>6. ASSUME NEW u \in 2 .. (e + n) - 1, u \notin T PROVE \E a \in X \cup {e} : a <= u /\ u < a + r[a]
  <2>1. CASE u < e
    <3>1. u \in 2 .. e - 1
      BY <2>1, <1>1
    <3>2. PICK a \in X : a <= u /\ u < a + s[a]
      BY <3>1, <1>6 DEF Tiled
    <3> QED BY <3>2
  <2>2. CASE ~(u < e)
    BY <2>2, <1>1
  <2> QED BY <2>1, <2>2
<1>7. e + n \in 2 .. Top /\ X \cup {e} \in SUBSET (2 .. (e + n) - 1) /\ T \in SUBSET (2 .. (e + n) - 1)
  BY <1>1
<1>8. e \notin X
  BY <1>1, <1>2
<1> QED BY <1>3, <1>4, <1>5, <1>6, <1>7, <1>8 DEF Tiled

(* The program takes a unit at the end of the heap.                         *)
LEMMA TileForeign ==
    ASSUME H!Sizes, NEW X, NEW s, NEW T, NEW e, Tiled(X, s, T, e), e + 1 <= Top
    PROVE  Tiled(X, s, T \cup {e}, e + 1)
<1>1. Top \in Nat /\ e \in Nat /\ e >= 2 /\ X \in SUBSET (2 .. e - 1) /\ T \in SUBSET (2 .. e - 1)
      /\ \A a \in X : s[a] \in Nat \ {0} /\ a + s[a] <= e
  BY AddrsAre DEF Tiled
<1>2. ASSUME NEW a \in X, NEW u \in T \cup {e} PROVE ~(a <= u /\ u < a + s[a])
  <2>1. CASE u \in T
    BY <2>1 DEF Tiled
  <2>2. CASE u = e
    BY <2>2, <1>1
  <2> QED BY <2>1, <2>2
<1>3. ASSUME NEW u \in 2 .. (e + 1) - 1, u \notin T \cup {e} PROVE \E a \in X : a <= u /\ u < a + s[a]
  <2>1. u \in 2 .. e - 1
    BY <1>1, <1>3
  <2> QED BY <2>1, <1>3 DEF Tiled
<1>4. e + 1 \in 2 .. Top /\ X \in SUBSET (2 .. (e + 1) - 1) /\ T \cup {e} \in SUBSET (2 .. (e + 1) - 1)
  BY <1>1
<1>5. \A a \in X : s[a] \in Nat \ {0} /\ a + s[a] <= e + 1
  BY <1>1
<1>6. \A a, b \in X : a < b => a + s[a] <= b
  BY DEF Tiled
<1> QED BY <1>2, <1>3, <1>4, <1>5, <1>6 DEF Tiled

(* p is the block of the list that a block at b goes after.                 *)
Before(h, F, b, p) == p \in F \cup {0} /\ p < b /\ (h.ptr[p] = 0 \/ b < h.ptr[p])

(* The block after one of the list, and those after it.                     *)
LEMMA After ==
    ASSUME H!Sizes, NEW h, NEW F, Linked(h, F), NEW x \in F \cup {0}
    PROVE  /\ F \in SUBSET Nat /\ x \in Nat /\ h.ptr[x] \in F \cup {0} /\ h.ptr[x] \in Nat /\ 0 \notin F
           /\ h.ptr[x] = 0 => \A g \in F : g <= x
           /\ h.ptr[x] # 0 => h.ptr[x] \in F /\ h.ptr[x] > x /\ \A g \in F : g > x => h.ptr[x] <= g
<1>1. Top \in Nat /\ F \in SUBSET (2 .. Top) /\ F \in SUBSET Nat /\ 0 \notin F
  BY AddrsAre DEF Linked
<1>2. \/ h.ptr[x] = 0 /\ \A g \in F : g <= x
      \/ h.ptr[x] \in F /\ h.ptr[x] > x /\ \A g \in F : g > x => h.ptr[x] <= g
  BY DEF Linked
<1>3. h.ptr[x] \in F \cup {0}
  BY <1>2, Zenon
<1>4. \A z \in F \cup {0} : z \in Nat
  <2>1. \A z \in F : z \in Nat
    BY <1>1
  <2> QED BY <2>1
<1>7. x \in Nat /\ h.ptr[x] \in Nat
  BY <1>3, <1>4, Zenon
<1>5. h.ptr[x] = 0 => \A g \in F : g <= x
  BY <1>1, <1>2
<1>6. h.ptr[x] # 0 => h.ptr[x] \in F /\ h.ptr[x] > x /\ \A g \in F : g > x => h.ptr[x] <= g
  BY <1>2
<1> QED BY <1>1, <1>3, <1>5, <1>6, <1>7

(* free() finds where a block goes.                                         *)
LEMMA BetweenIs ==
    ASSUME H!Sizes, NEW h, NEW F, Linked(h, F), NEW b \in 2 .. Top, b \notin F
    PROVE  /\ \A p \in F \cup {0} : H!Between(h, b, p) <=> Before(h, F, b, p)
           /\ \E p \in F \cup {0} : Before(h, F, b, p)
<1>1. Top \in Nat /\ F \in SUBSET (2 .. Top) /\ F \in SUBSET Nat /\ b \in Nat /\ b >= 2
  BY AddrsAre DEF Linked
<1>2. ASSUME NEW p \in F \cup {0} PROVE H!Between(h, b, p) <=> Before(h, F, b, p)
  <2>1. /\ p \in Nat /\ h.ptr[p] \in Nat
        /\ h.ptr[p] # 0 => h.ptr[p] > p
    BY After
  <2> QED BY <2>1, <1>1 DEF H!Between, Before
<1> DEFINE U == {n \in Nat : \A g \in F \cup {0} : g < b => g <= n}
<1>3. b \in U
  BY <1>1
<1>4. PICK m \in U : \A y \in U : m <= y
  <2>1. U \in SUBSET Nat /\ U # {}
    BY <1>3
  <2> HIDE DEF U
  <2> QED BY <2>1, Lowest
<1>5. m \in F \cup {0} /\ m < b
  <2> SUFFICES ASSUME ~(m \in F \cup {0} /\ m < b) PROVE FALSE
    OBVIOUS
  <2>1. m \in Nat /\ \A g \in F \cup {0} : g \in Nat /\ (g < b => g <= m)
    BY <1>1
  <2>2. m # 0
    BY <1>1
  <2>3. m - 1 \in Nat /\ \A g \in F \cup {0} : g < b => g <= m - 1
    <3>1. ASSUME NEW g \in F \cup {0}, g < b PROVE g # m
      BY <3>1
    <3> QED BY <2>1, <2>2, <3>1
  <2>4. m - 1 \in U /\ ~(m <= m - 1)
    BY <2>1, <2>3
  <2> QED BY <1>4, <2>4
<1>6. h.ptr[m] = 0 \/ b < h.ptr[m]
  <2> SUFFICES ASSUME h.ptr[m] # 0, ~(b < h.ptr[m]) PROVE FALSE
    OBVIOUS
  <2>1. h.ptr[m] \in F /\ h.ptr[m] > m /\ h.ptr[m] \in Nat /\ m \in Nat
    BY <1>5, After
  <2>2. h.ptr[m] # b
    BY <2>1
  <2>3. h.ptr[m] < b
    BY <2>1, <2>2, <1>1
  <2>4. h.ptr[m] <= m
    BY <2>1, <2>3, <1>4
  <2> QED BY <2>1, <2>4
<1> QED BY <1>2, <1>5, <1>6 DEF Before

(* free() takes that place.                                                *)
LEMMA PlaceIs ==
    ASSUME H!Sizes, NEW h \in HeapType, NEW F, Linked(h, F), NEW b \in 2 .. Top, b \notin F
    PROVE  Before(h, F, b, H!Place(h, b))
<1> DEFINE w == H!Walk(h)
           K == {k \in DOMAIN w : H!Between(h, b, w[k])}
<1>1. DOMAIN w = 0 .. Top + 1 /\ Walks(w, h) /\ Top \in Nat
  BY WalkIs, AddrsAre
<1>2. H!Place(h, b) = w[H!Min(K)]
  BY DEF H!Place
<1> HIDE DEF w
<1>3. \A k \in 0 .. Top + 1 : w[k] \in F \cup {0}
  BY <1>1, WalkStays
<1>4. PICK p \in F \cup {0} : Before(h, F, b, p)
  BY BetweenIs
<1>5. PICK k \in 0 .. Top + 1 : w[k] = p
  BY <1>1, WalkAll
<1>6. H!Between(h, b, w[k])
  BY <1>4, <1>5, BetweenIs
<1>7. K \in SUBSET Nat /\ K # {}
  BY <1>1, <1>5, <1>6
<1>8. H!Min(K) \in K
  <2> HIDE DEF K
  <2>1. Min(K) \in K
    BY <1>7, Lowest
  <2> QED BY <2>1 DEF H!Min, Min
<1>9. PICK j \in 0 .. Top + 1 : j = H!Min(K) /\ H!Between(h, b, w[j])
  BY <1>1, <1>8
<1>10. Before(h, F, b, w[j])
  BY <1>3, <1>9, BetweenIs
<1> QED BY <1>2, <1>9, <1>10

(* A block is put into the list.                                            *)
LEMMA LinkIn ==
    ASSUME H!Sizes, NEW h, NEW F, Linked(h, F), NEW b \in 2 .. Top, b \notin F, NEW p, Before(h, F, b, p), NEW r,
           r.ptr[p] = b, r.ptr[b] = h.ptr[p], \A f \in (F \cup {0}) \ {p} : r.ptr[f] = h.ptr[f],
           r.freep \in F \cup {b, 0}, r.size[0] = 0
    PROVE  Linked(r, F \cup {b})
<1>1. Top \in Nat /\ F \in SUBSET (2 .. Top) /\ F \in SUBSET Nat /\ b \in Nat /\ b >= 2
  BY AddrsAre DEF Linked
<1>2. /\ p \in F \cup {0} /\ p \in Nat /\ p < b /\ h.ptr[p] \in Nat
      /\ h.ptr[p] = 0 => \A g \in F : g <= p
      /\ h.ptr[p] # 0 => h.ptr[p] \in F /\ h.ptr[p] > b /\ \A g \in F : g > p => h.ptr[p] <= g
  BY After DEF Before
<1>3. \A g \in F : g > b <=> g > p
  <2> SUFFICES ASSUME NEW g \in F PROVE g > b <=> g > p
    OBVIOUS
  <2>1. g \in Nat /\ g # b
    BY <1>1
  <2> QED BY <2>1, <1>1, <1>2
<1> DEFINE ok(f) == \/ r.ptr[f] = 0 /\ \A g \in F \cup {b} : g <= f
                    \/ r.ptr[f] \in F \cup {b} /\ r.ptr[f] > f /\ \A g \in F \cup {b} : g > f => r.ptr[f] <= g
<1>4. ok(b)
  <2>1. CASE h.ptr[p] = 0
    <3>1. \A g \in F \cup {b} : g <= b
      BY <2>1, <1>1, <1>2
    <3> QED BY <2>1, <3>1
  <2>2. CASE h.ptr[p] # 0
    <3>1. \A g \in F \cup {b} : g > b => h.ptr[p] <= g
      BY <2>2, <1>1, <1>2, <1>3
    <3> QED BY <2>2, <3>1, <1>2
  <2> QED BY <2>1, <2>2
<1>5. ok(p)
  <2>1. \A g \in F \cup {b} : g > p => b <= g
    BY <1>1, <1>2, <1>3
  <2> QED BY <2>1, <1>2
<1>6. ASSUME NEW f \in F \cup {0}, f # p PROVE ok(f)
  <2>1. /\ f \in Nat /\ h.ptr[f] \in Nat
        /\ h.ptr[f] = 0 => \A g \in F : g <= f
        /\ h.ptr[f] # 0 => h.ptr[f] \in F /\ h.ptr[f] > f /\ \A g \in F : g > f => h.ptr[f] <= g
    BY After
  <2>2. r.ptr[f] = h.ptr[f]
    BY <1>6
  <2>3. CASE f > p
    <3>1. f \in F
      BY <2>3, <1>2, <1>6
    <3>2. f > b
      BY <2>3, <3>1, <1>3
    <3> QED BY <2>1, <2>2, <3>2, <1>1
  <2>4. CASE f < p
    <3>1. p \in F /\ h.ptr[f] # 0
      BY <2>1, <2>4, <1>2
    <3>2. h.ptr[f] <= p
      BY <2>1, <2>4, <3>1
    <3>3. h.ptr[f] <= b
      BY <2>1, <3>2, <1>1, <1>2
    <3> QED BY <2>1, <2>2, <3>1, <3>3
  <2> QED BY <2>1, <2>3, <2>4, <1>2, <1>6
<1>7. ASSUME NEW f \in (F \cup {b}) \cup {0} PROVE ok(f)
  BY <1>4, <1>5, <1>6
<1>8. F \cup {b} \in SUBSET (2 .. Top) /\ r.freep \in (F \cup {b}) \cup {0}
  BY <1>1
<1> QED BY <1>7, <1>8 DEF Linked

(* A block is taken out of the list.                                        *)
LEMMA LinkOut ==
    ASSUME H!Sizes, NEW h, NEW F, Linked(h, F), NEW x \in F \cup {0}, NEW y \in F, h.ptr[x] = y, NEW r,
           r.ptr[x] = h.ptr[y], \A f \in (F \cup {0}) \ {x, y} : r.ptr[f] = h.ptr[f],
           r.freep \in (F \ {y}) \cup {0}, r.size[0] = 0
    PROVE  Linked(r, F \ {y})
<1>1. Top \in Nat /\ F \in SUBSET (2 .. Top) /\ F \in SUBSET Nat /\ 0 \notin F
  BY AddrsAre DEF Linked
<1>2. x \in Nat /\ y \in Nat /\ y > x /\ \A g \in F : g > x => y <= g
  BY <1>1, After
<1>3. /\ h.ptr[y] \in Nat
      /\ h.ptr[y] = 0 => \A g \in F : g <= y
      /\ h.ptr[y] # 0 => h.ptr[y] \in F /\ h.ptr[y] > y /\ \A g \in F : g > y => h.ptr[y] <= g
  BY After
<1> DEFINE ok(f) == \/ r.ptr[f] = 0 /\ \A g \in F \ {y} : g <= f
                    \/ r.ptr[f] \in F \ {y} /\ r.ptr[f] > f /\ \A g \in F \ {y} : g > f => r.ptr[f] <= g
<1>4. ok(x)
  <2>1. ASSUME NEW g \in F \ {y} PROVE g \in Nat /\ (g > x => g > y)
    BY <1>1, <1>2
  <2>2. CASE h.ptr[y] = 0
    <3>1. \A g \in F \ {y} : g <= x
      BY <2>1, <2>2, <1>2, <1>3
    <3> QED BY <2>2, <3>1
  <2>3. CASE h.ptr[y] # 0
    <3>1. h.ptr[y] \in F \ {y} /\ h.ptr[y] > x
      BY <2>3, <1>2, <1>3
    <3>2. \A g \in F \ {y} : g > x => h.ptr[y] <= g
      BY <2>1, <2>3, <1>3
    <3> QED BY <3>1, <3>2
  <2> QED BY <2>2, <2>3
<1>5. ASSUME NEW f \in F \cup {0}, f # x, f # y PROVE ok(f)
  <2>1. /\ f \in Nat /\ h.ptr[f] \in Nat
        /\ h.ptr[f] = 0 => \A g \in F : g <= f
        /\ h.ptr[f] # 0 => h.ptr[f] \in F /\ h.ptr[f] > f /\ \A g \in F : g > f => h.ptr[f] <= g
    BY After
  <2>2. r.ptr[f] = h.ptr[f]
    BY <1>5
  <2>3. h.ptr[f] # y
    <3> SUFFICES ASSUME h.ptr[f] = y PROVE FALSE
      OBVIOUS
    <3>1. f < y /\ \A g \in F : g > f => y <= g
      BY <2>1, <1>1
    <3>2. CASE f < x
      <4>1. x \in F
        BY <3>2, <2>1
      <4> QED BY <3>1, <3>2, <4>1, <1>2
    <3>3. CASE f > x
      <4>1. f \in F
        BY <3>3, <1>2
      <4> QED BY <3>1, <3>3, <4>1, <1>2, <2>1
    <3> QED BY <3>2, <3>3, <2>1, <1>2, <1>5
  <2> QED BY <2>1, <2>2, <2>3
<1>6. y \notin (F \ {y}) \cup {0}
  BY <1>1
<1>7. ASSUME NEW f \in (F \ {y}) \cup {0} PROVE ok(f)
  BY <1>4, <1>5, <1>6
<1>8. F \ {y} \in SUBSET (2 .. Top)
  BY <1>1
<1> QED BY <1>7, <1>8 DEF Linked

(* No free block ends where another begins.                                 *)
Separate(F, s) == \A f \in F : f + s[f] \notin F

(* What free() is given: the list, and a block that goes after p.           *)
FreeCall(h, F, X, T, e, b, p) ==
    /\ h \in HeapType /\ Linked(h, F) /\ Separate(F, h.size)
    /\ b \in X \ F /\ F \subseteq X /\ Tiled(X, h.size, T, e)
    /\ Before(h, F, b, p)

(* What is known there of the blocks.                                      *)
LEMMA FreeGiven ==
    ASSUME H!Sizes, NEW h, NEW F, NEW X, NEW T, NEW e, NEW b, NEW p, FreeCall(h, F, X, T, e, b, p)
    PROVE  /\ Top \in Nat /\ F \in SUBSET (2 .. Top) /\ X \in SUBSET (2 .. Top) /\ b \in 2 .. Top /\ b \in X /\ b \notin F
           /\ F \subseteq X /\ p \in F \cup {0} /\ p \in 0 .. Top /\ p < b /\ h.ptr[p] \in 0 .. Top /\ h.size[p] \in Nat
           /\ h.size[b] \in Nat \ {0} /\ h.size[0] = 0 /\ 0 \notin X
           /\ \A a \in X : h.size[a] \in Nat \ {0}
           /\ h.ptr[p] # 0 => h.ptr[p] \in F /\ h.ptr[p] > b /\ h.size[h.ptr[p]] \in Nat \ {0}
                              /\ \A g \in F : g > p => h.ptr[p] <= g
           /\ h.ptr[p] = 0 => \A g \in F : g <= p
<1>1. Top \in Nat /\ Top >= 2 /\ H!Addrs = 0 .. Top
  BY AddrsAre
<1>2. F \in SUBSET (2 .. Top) /\ h.size[0] = 0 /\ F \subseteq X /\ b \in X /\ b \notin F
  BY DEF FreeCall, Linked
<1>3. X \in SUBSET (2 .. Top) /\ \A a \in X : h.size[a] \in Nat \ {0}
  BY <1>1 DEF FreeCall, Tiled
<1>4. p \in F \cup {0} /\ p < b /\ (h.ptr[p] = 0 \/ b < h.ptr[p])
  BY DEF FreeCall, Before
<1>5. Linked(h, F)
  BY DEF FreeCall
<1>6. /\ h.ptr[p] \in F \cup {0}
      /\ h.ptr[p] = 0 => \A g \in F : g <= p
      /\ h.ptr[p] # 0 => h.ptr[p] \in F /\ \A g \in F : g > p => h.ptr[p] <= g
  BY <1>4, <1>5, After
<1>7. p \in 0 .. Top /\ h.ptr[p] \in 0 .. Top /\ b \in 2 .. Top /\ 0 \notin X
  <2>1. \A z \in F \cup {0} : z \in 0 .. Top
    <3>1. \A z \in F : z \in 0 .. Top
      BY <1>1, <1>2
    <3>2. 0 \in 0 .. Top
      BY <1>1
    <3> QED BY <3>1, <3>2
  <2>2. p \in 0 .. Top /\ h.ptr[p] \in 0 .. Top
    BY <2>1, <1>4, <1>6, Zenon
  <2>3. b \in 2 .. Top /\ 0 \notin X
    BY <1>1, <1>2, <1>3
  <2> QED BY <2>2, <2>3
<1>8. h.size[p] \in Nat
  <2>1. CASE p \in F
    BY <2>1, <1>2, <1>3
  <2>2. CASE p = 0
    BY <2>2, <1>2
  <2> QED BY <2>1, <2>2, <1>4
<1>9. h.ptr[p] # 0 => h.ptr[p] \in F /\ h.ptr[p] > b /\ h.size[h.ptr[p]] \in Nat \ {0}
  BY <1>2, <1>3, <1>4, <1>6, <1>7
<1> QED BY <1>1, <1>2, <1>3, <1>4, <1>6, <1>7, <1>8, <1>9

(* What free() leaves in the headers.                                       *)
Up(h, b, p) == h.ptr[p] # 0 /\ b + h.size[b] = h.ptr[p]
Low(h, b, p) == p + h.size[p] = b
FreeLen(h, b, p) == IF Up(h, b, p) THEN h.size[b] + h.size[h.ptr[p]] ELSE h.size[b]
Nxt(h, b, p) == IF Up(h, b, p) THEN h.ptr[h.ptr[p]] ELSE h.ptr[p]
Gone(h, b, p) == (IF Up(h, b, p) THEN {h.ptr[p]} ELSE {}) \cup (IF Low(h, b, p) THEN {b} ELSE {})
JoinedTo(h, b, p, r) ==
    /\ r \in HeapType /\ r.freep = p
    /\ Low(h, b, p) => r.ptr[p] = Nxt(h, b, p) /\ r.size[p] = h.size[p] + FreeLen(h, b, p)
    /\ ~Low(h, b, p) => /\ r.ptr[p] = b /\ r.ptr[b] = Nxt(h, b, p)
                        /\ r.size[p] = h.size[p] /\ r.size[b] = FreeLen(h, b, p)
    /\ \A a \in (0 .. Top) \ (Gone(h, b, p) \cup {p, b}) : r.ptr[a] = h.ptr[a] /\ r.size[a] = h.size[a]

(* free() leaves that.                                                     *)
LEMMA JoinedIs ==
    ASSUME H!Sizes, NEW h, NEW F, NEW X, NEW T, NEW e, NEW b, NEW p, FreeCall(h, F, X, T, e, b, p)
    PROVE  JoinedTo(h, b, p, H!Joined(h, b, p))
<1> DEFINE up == h.ptr[p]
           upper == H!JoinsUpper(h, b, p)
           lower == p + h.size[p] = b
           len == h.size[b] + (IF upper THEN h.size[up] ELSE 0)
           next == IF upper THEN h.ptr[up] ELSE up
           gone == (IF upper THEN {up} ELSE {}) \cup (IF lower THEN {b} ELSE {})
           pt == IF lower THEN [h.ptr EXCEPT ![p] = next] ELSE [h.ptr EXCEPT ![b] = next, ![p] = b]
           sz == IF lower THEN [h.size EXCEPT ![p] = @ + len] ELSE [h.size EXCEPT ![b] = len]
           r == H!Joined(h, b, p)
<1>1. /\ Top \in Nat /\ b \in 2 .. Top /\ p \in 0 .. Top /\ p < b /\ h.ptr[p] \in 0 .. Top /\ h.size[p] \in Nat
      /\ h.size[b] \in Nat \ {0}
      /\ h.ptr[p] # 0 => h.ptr[p] > b /\ h.size[h.ptr[p]] \in Nat \ {0}
  BY FreeGiven
<1>2. H!Addrs = 0 .. Top /\ H!base = 0
  BY AddrsAre
<1>3. h.ptr \in [0 .. Top -> 0 .. Top] /\ h.size \in [0 .. Top -> Nat]
  BY <1>2 DEF FreeCall, HeapType
<1>4. /\ upper <=> Up(h, b, p)
      /\ lower <=> Low(h, b, p)
  BY <1>1 DEF H!JoinsUpper, Up, Low
<1>5. len = FreeLen(h, b, p) /\ len \in Nat
  BY <1>1, <1>4 DEF FreeLen, Up
<1>6. next = Nxt(h, b, p) /\ next \in 0 .. Top
  BY <1>1, <1>3, <1>4 DEF Nxt
<1>7. gone = Gone(h, b, p) /\ p \notin gone /\ (~lower => b \notin gone)
  BY <1>1, <1>4 DEF Gone, Up
<1>8. r = [ptr |-> [a \in 0 .. Top |-> IF a \in gone THEN 0 ELSE pt[a]],
           size |-> [a \in 0 .. Top |-> IF a \in gone THEN 0 ELSE sz[a]], freep |-> p]
  BY <1>2 DEF H!Joined, H!Without
<1> HIDE DEF r, len, next, gone, upper
<1> HIDE DEF lower
<1>16. b \in 0 .. Top /\ p # b
  BY <1>1
<1>9. pt \in [0 .. Top -> 0 .. Top] /\ sz \in [0 .. Top -> Nat]
  <2>1. CASE lower
    <3>1. pt = [h.ptr EXCEPT ![p] = next] /\ sz = [h.size EXCEPT ![p] = @ + len]
      BY <2>1
    <3>2. h.size[p] + len \in Nat
      BY <1>1, <1>5
    <3> HIDE DEF pt, sz
    <3>3. pt \in [0 .. Top -> 0 .. Top]
      BY <3>1, <1>1, <1>3, <1>6
    <3>4. sz \in [0 .. Top -> Nat]
      BY <3>1, <3>2, <1>1, <1>3
    <3> QED BY <3>3, <3>4
  <2>2. CASE ~lower
    BY <2>2, <1>1, <1>3, <1>5, <1>6, <1>16
  <2> QED BY <2>1, <2>2
<1>10. /\ lower => pt[p] = next /\ sz[p] = h.size[p] + len
       /\ ~lower => pt[p] = b /\ pt[b] = next /\ sz[p] = h.size[p] /\ sz[b] = len
       /\ \A a \in (0 .. Top) \ {p, b} : pt[a] = h.ptr[a] /\ sz[a] = h.size[a]
  <2>1. CASE lower
    <3>1. pt = [h.ptr EXCEPT ![p] = next] /\ sz = [h.size EXCEPT ![p] = @ + len]
      BY <2>1
    <3> QED BY <2>1, <3>1, <1>1, <1>3, <1>5, <1>6, <1>16
  <2>2. CASE ~lower
    <3>1. pt = [h.ptr EXCEPT ![b] = next, ![p] = b] /\ sz = [h.size EXCEPT ![b] = len]
      BY <2>2
    <3> HIDE DEF pt, sz
    <3>2. pt[p] = b /\ pt[b] = next /\ \A a \in (0 .. Top) \ {p, b} : pt[a] = h.ptr[a]
      BY <3>1, <1>1, <1>3, <1>5, <1>6, <1>16
    <3>3. sz[p] = h.size[p] /\ sz[b] = len /\ \A a \in (0 .. Top) \ {p, b} : sz[a] = h.size[a]
      BY <3>1, <1>1, <1>3, <1>5, <1>6, <1>16
    <3> QED BY <2>2, <3>2, <3>3
  <2> QED BY <2>1, <2>2
<1> HIDE DEF pt, sz
<1>11. r \in HeapType /\ r.freep = p
  <2>1. PICK rp, rs : /\ rp = [a \in 0 .. Top |-> IF a \in gone THEN 0 ELSE pt[a]]
                      /\ rs = [a \in 0 .. Top |-> IF a \in gone THEN 0 ELSE sz[a]]
    OBVIOUS
  <2>2. rp \in [0 .. Top -> 0 .. Top]
    BY <2>1, <1>1, <1>9
  <2>3. rs \in [0 .. Top -> Nat]
    BY <2>1, <1>9
  <2>4. r = [ptr |-> rp, size |-> rs, freep |-> p]
    BY <2>1, <1>8
  <2> QED BY <2>2, <2>3, <2>4, <1>1, <1>2 DEF HeapType
<1>12. \A a \in 0 .. Top : a \notin gone => r.ptr[a] = pt[a] /\ r.size[a] = sz[a]
  BY <1>8
<1>13. lower => r.ptr[p] = next /\ r.size[p] = h.size[p] + len
  BY <1>1, <1>7, <1>10, <1>12
<1>14. ~lower => r.ptr[p] = b /\ r.ptr[b] = next /\ r.size[p] = h.size[p] /\ r.size[b] = len
  BY <1>1, <1>7, <1>10, <1>12
<1>15. \A a \in (0 .. Top) \ (gone \cup {p, b}) : r.ptr[a] = h.ptr[a] /\ r.size[a] = h.size[a]
  BY <1>10, <1>12
<1>17. \A a \in (0 .. Top) \ (Gone(h, b, p) \cup {p, b}) : r.ptr[a] = h.ptr[a] /\ r.size[a] = h.size[a]
  BY <1>7, <1>15
<1>18. JoinedTo(h, b, p, r)
  BY <1>4, <1>5, <1>6, <1>11, <1>13, <1>14, <1>17, Zenon DEF JoinedTo
<1> QED BY <1>18 DEF r

(* Where the freed block ends, with what is joined to it, no block of the   *)
(* list begins; nor does one where another block of the list ends.          *)
LEMMA StaysSeparate ==
    ASSUME H!Sizes, NEW h, NEW F, NEW X, NEW T, NEW e, NEW b, NEW p, FreeCall(h, F, X, T, e, b, p)
    PROVE  /\ b + FreeLen(h, b, p) \notin F \cup {b}
           /\ \A f \in F : f # p => f + h.size[f] \notin F \cup {b}
           /\ p \in F /\ ~Low(h, b, p) => p + h.size[p] \notin F \cup {b}
<1>1. /\ Top \in Nat /\ F \in SUBSET (2 .. Top) /\ F \in SUBSET Nat /\ b \in Nat /\ b \in X /\ F \subseteq X
      /\ p \in F \cup {0} /\ p \in Nat /\ p < b /\ h.ptr[p] \in Nat /\ h.size[p] \in Nat
      /\ h.size[b] \in Nat \ {0} /\ \A a \in X : h.size[a] \in Nat \ {0}
      /\ h.ptr[p] # 0 => h.ptr[p] \in F /\ h.ptr[p] > b /\ \A g \in F : g > p => h.ptr[p] <= g
      /\ h.ptr[p] = 0 => \A g \in F : g <= p
  BY FreeGiven
<1>2. Separate(F, h.size) /\ Tiled(X, h.size, T, e)
  BY DEF FreeCall
<1>3. \A a, c \in X : a < c => a + h.size[a] <= c
  BY <1>2 DEF Tiled
<1>4. b + FreeLen(h, b, p) \notin F \cup {b}
  <2>1. CASE Up(h, b, p)
    <3>1. PICK u \in F : u = h.ptr[p] /\ u = b + h.size[b] /\ u > b
      BY <2>1, <1>1 DEF Up
    <3>2. u \in Nat /\ h.size[u] \in Nat \ {0} /\ u + h.size[u] \notin F
      BY <3>1, <1>1, <1>2 DEF Separate
    <3>3. b + FreeLen(h, b, p) = u + h.size[u]
      <4>1. FreeLen(h, b, p) = h.size[b] + h.size[u]
        BY <2>1, <3>1 DEF FreeLen
      <4> QED BY <4>1, <3>1, <3>2, <1>1
    <3> QED BY <3>1, <3>2, <3>3, <1>1
  <2>2. CASE ~Up(h, b, p)
    <3>1. FreeLen(h, b, p) = h.size[b]
      BY <2>2 DEF FreeLen
    <3>2. ASSUME b + h.size[b] \in F PROVE FALSE
      <4>1. PICK g \in F : g = b + h.size[b]
        BY <3>2
      <4>2. g \in Nat /\ g > b /\ g > p /\ g \in X
        BY <4>1, <1>1
      <4>3. h.ptr[p] # 0
        BY <4>2, <1>1
      <4>4. h.ptr[p] # g
        BY <4>1, <4>3, <2>2 DEF Up
      <4>5. h.ptr[p] \in X /\ h.ptr[p] > b /\ h.ptr[p] < g
        BY <4>2, <4>3, <4>4, <1>1
      <4>6. b + h.size[b] <= h.ptr[p]
        BY <4>5, <1>1, <1>3
      <4> QED BY <4>1, <4>2, <4>5, <4>6, <1>1
    <3>3. b + h.size[b] # b
      BY <1>1
    <3> QED BY <3>1, <3>2, <3>3
  <2> QED BY <2>1, <2>2
<1>5. ASSUME NEW f \in F, f # p PROVE f + h.size[f] \notin F \cup {b}
  <2>1. f \in Nat /\ f \in X /\ f # b /\ h.size[f] \in Nat \ {0} /\ f + h.size[f] \notin F
    <3>1. f # b
      BY DEF FreeCall
    <3> QED BY <3>1, <1>1, <1>2 DEF Separate
  <2>2. CASE f > b
    BY <2>1, <2>2, <1>1
  <2>3. CASE f < b
    <3>1. f <= p
      <4>1. CASE h.ptr[p] = 0
        BY <4>1, <1>1
      <4>2. CASE h.ptr[p] # 0
        <5> SUFFICES ASSUME f > p PROVE FALSE
          BY <2>1, <1>1
        <5>1. h.ptr[p] <= f /\ h.ptr[p] > b
          BY <4>2, <1>1
        <5> QED BY <5>1, <2>1, <2>3, <1>1
      <4> QED BY <4>1, <4>2
    <3>2. f < p
      BY <3>1, <1>5, <2>1, <1>1
    <3>3. p \in F
      BY <3>2, <2>1, <1>1
    <3>4. f + h.size[f] <= p
      BY <3>2, <3>3, <2>1, <1>1, <1>3
    <3>5. f + h.size[f] # b
      BY <3>4, <2>1, <1>1
    <3> QED BY <2>1, <3>5
  <2> QED BY <2>1, <2>2, <2>3, <1>1
<1>6. ASSUME p \in F, ~Low(h, b, p) PROVE p + h.size[p] \notin F \cup {b}
  BY <1>6, <1>2 DEF Separate, Low
<1> QED BY <1>4, <1>5, <1>6

(* The list after free().                                                   *)
Rest(h, F, b, p) == (F \cup {b}) \ Gone(h, b, p)

(* The list after free() has no two blocks next to each other.             *)
LEMMA RestSeparate ==
    ASSUME H!Sizes, NEW h, NEW F, NEW X, NEW T, NEW e, NEW b, NEW p, FreeCall(h, F, X, T, e, b, p),
           NEW r, JoinedTo(h, b, p, r)
    PROVE  Separate(Rest(h, F, b, p), r.size)
<1> SUFFICES ASSUME NEW f \in Rest(h, F, b, p) PROVE f + r.size[f] \notin F \cup {b}
  BY DEF Separate, Rest
<1>1. /\ Top \in Nat /\ F \in SUBSET (2 .. Top) /\ b \in 2 .. Top /\ b \notin F /\ p \in F \cup {0} /\ p < b
      /\ h.size[p] \in Nat /\ h.size[b] \in Nat \ {0} /\ h.size[0] = 0 /\ p \in 0 .. Top
      /\ h.ptr[p] # 0 => h.size[h.ptr[p]] \in Nat \ {0}
  BY FreeGiven
<1>2. /\ b + FreeLen(h, b, p) \notin F \cup {b}
      /\ \A g \in F : g # p => g + h.size[g] \notin F \cup {b}
      /\ p \in F /\ ~Low(h, b, p) => p + h.size[p] \notin F \cup {b}
  BY StaysSeparate
<1>3. FreeLen(h, b, p) \in Nat
  BY <1>1 DEF FreeLen, Up
<1>4. f \in F \cup {b} /\ f \notin Gone(h, b, p)
  BY DEF Rest
<1>5. CASE f = p
  <2>1. p \in F
    BY <1>1, <1>4, <1>5
  <2>2. CASE Low(h, b, p)
    <3>1. r.size[p] = h.size[p] + FreeLen(h, b, p) /\ p + h.size[p] = b
      BY <2>2 DEF JoinedTo, Low
    <3>2. p + r.size[p] = b + FreeLen(h, b, p)
      BY <3>1, <1>1, <1>3
    <3> QED BY <3>2, <1>2, <1>5
  <2>3. CASE ~Low(h, b, p)
    BY <2>1, <2>3, <1>2, <1>5 DEF JoinedTo
  <2> QED BY <2>2, <2>3
<1>6. CASE f = b
  <2>1. ~Low(h, b, p)
    BY <1>4, <1>6 DEF Gone
  <2> QED BY <2>1, <1>2, <1>6 DEF JoinedTo
<1>7. CASE f \notin {p, b}
  <2>1. f \in F /\ f \in 0 .. Top
    BY <1>1, <1>4, <1>7
  <2>2. r.size[f] = h.size[f]
    BY <2>1, <1>4, <1>7 DEF JoinedTo
  <2> QED BY <2>1, <2>2, <1>2, <1>7
<1> QED BY <1>5, <1>6, <1>7

(* The premises of the lemmas on a list that takes in a block, and on two   *)
(* blocks that are joined.                                                  *)
TakesIn(h, F, b, p, r) ==
    /\ Linked(h, F) /\ b \in 2 .. Top /\ b \notin F /\ Before(h, F, b, p)
    /\ r.ptr[p] = b /\ r.ptr[b] = h.ptr[p] /\ \A f \in (F \cup {0}) \ {p} : r.ptr[f] = h.ptr[f]
    /\ r.freep \in F \cup {b, 0} /\ r.size[0] = 0

Joins(h, F, X, T, e, x, y, r) ==
    /\ Linked(h, F) /\ F \subseteq X /\ Tiled(X, h.size, T, e)
    /\ x \in F /\ y \in F /\ h.ptr[x] = y /\ x + h.size[x] = y
    /\ r.ptr[x] = h.ptr[y] /\ \A f \in (F \cup {0}) \ {x, y} : r.ptr[f] = h.ptr[f]
    /\ r.size[x] = h.size[x] + h.size[y] /\ \A a \in X \ {x, y} : r.size[a] = h.size[a]
    /\ r.freep \in (F \ {y}) \cup {0} /\ r.size[0] = 0

(* A block is put into the list.                                            *)
LEMMA TakenIn ==
    ASSUME H!Sizes, NEW h, NEW F, NEW b, NEW p, NEW r, TakesIn(h, F, b, p, r)
    PROVE  Linked(r, F \cup {b})
BY LinkIn DEF TakesIn

(* free() joins a block with the one after it.                              *)
LEMMA JoinedTwo ==
    ASSUME H!Sizes, NEW h, NEW F, NEW X, NEW T, NEW e, NEW x, NEW y, NEW r, Joins(h, F, X, T, e, x, y, r)
    PROVE  Linked(r, F \ {y}) /\ Tiled(X \ {y}, r.size, T, e)
<1>1. Linked(h, F) /\ Tiled(X, h.size, T, e) /\ x \in F \cup {0} /\ y \in F /\ x \in X /\ y \in X
  BY DEF Joins
<1>2. Linked(r, F \ {y})
  BY <1>1, LinkOut DEF Joins
<1>3. Tiled(X \ {y}, r.size, T, e)
  <2>1. /\ x + h.size[x] = y /\ r.size[x] = h.size[x] + h.size[y]
        /\ \A a \in X \ {x, y} : r.size[a] = h.size[a]
    BY DEF Joins
  <2> QED BY <1>1, <2>1, TileJoin
<1> QED BY <1>2, <1>3

(* The list and the blocks after free(): bp goes in, and is joined with the *)
(* block above it, then with the one below.                                 *)
LEMMA FreedKeeps ==
    ASSUME H!Sizes, NEW h, NEW F, NEW X, NEW T, NEW e, NEW b, NEW p, FreeCall(h, F, X, T, e, b, p),
           NEW r, JoinedTo(h, b, p, r)
    PROVE  /\ Linked(r, Rest(h, F, b, p))
           /\ Tiled(X \ Gone(h, b, p), r.size, T, e)
<1>1. /\ Top \in Nat /\ F \in SUBSET (2 .. Top) /\ X \in SUBSET (2 .. Top) /\ b \in 2 .. Top /\ b \in X /\ b \notin F
      /\ F \subseteq X /\ p \in F \cup {0} /\ p \in 0 .. Top /\ p < b /\ h.ptr[p] \in 0 .. Top /\ h.size[p] \in Nat
      /\ h.size[b] \in Nat \ {0} /\ h.size[0] = 0 /\ 0 \notin X
      /\ h.ptr[p] # 0 => h.ptr[p] \in F /\ h.ptr[p] > b /\ h.size[h.ptr[p]] \in Nat \ {0}
  BY FreeGiven
<1>2. Linked(h, F) /\ Tiled(X, h.size, T, e) /\ Before(h, F, b, p)
  BY DEF FreeCall
<1>3. h.ptr \in [0 .. Top -> 0 .. Top] /\ h.size \in [0 .. Top -> Nat]
  BY AddrsAre DEF FreeCall, HeapType
<1>4. p # b /\ b # 0 /\ b \in 0 .. Top /\ 0 \in 0 .. Top /\ 0 \notin F \cup {b} /\ \A f \in F \cup {0, b} : f \in 0 .. Top
  BY <1>1
<1> DEFINE u == h.ptr[p]
           h1 == [ptr |-> [h.ptr EXCEPT ![b] = u, ![p] = b], size |-> h.size, freep |-> p]
           F1 == F \cup {b}
(* in *)
<1>5. h1.ptr[p] = b /\ h1.ptr[b] = h.ptr[p] /\ (\A f \in (0 .. Top) \ {p, b} : h1.ptr[f] = h.ptr[f])
      /\ h1.size = h.size /\ h1.freep = p
  BY <1>1, <1>3, <1>4
<1> HIDE DEF h1
<1>6. \A f \in (F \cup {0}) \ {p} : h1.ptr[f] = h.ptr[f]
  BY <1>1, <1>4, <1>5
<1>7. Linked(h1, F1)
  <2>1. h1.freep \in F \cup {b, 0} /\ h1.size[0] = 0
    BY <1>1, <1>5
  <2>2. TakesIn(h, F, b, p, h1)
    BY <2>1, <1>1, <1>2, <1>5, <1>6 DEF TakesIn
  <2> QED BY <2>2, TakenIn
<1>8. Tiled(X, h1.size, T, e) /\ F1 \subseteq X
  BY <1>1, <1>2, <1>5
(* joined with the block above *)
<1> DEFINE h2 == [ptr |-> IF Up(h, b, p) THEN [h1.ptr EXCEPT ![b] = h.ptr[u]] ELSE h1.ptr,
                  size |-> [h.size EXCEPT ![b] = FreeLen(h, b, p)], freep |-> p]
           F2 == IF Up(h, b, p) THEN F1 \ {u} ELSE F1
           X2 == IF Up(h, b, p) THEN X \ {u} ELSE X
<1>9. /\ h2.ptr[b] = Nxt(h, b, p) /\ h2.ptr[p] = b /\ h2.size[b] = FreeLen(h, b, p) /\ h2.freep = p
      /\ \A f \in (0 .. Top) \ {p, b} : h2.ptr[f] = h.ptr[f]
      /\ \A f \in (0 .. Top) \ {b} : h2.size[f] = h.size[f]
  <2>1. h2.size[b] = FreeLen(h, b, p) /\ h2.freep = p /\ \A f \in (0 .. Top) \ {b} : h2.size[f] = h.size[f]
    BY <1>3, <1>4
  <2>2. h1.ptr \in [0 .. Top -> 0 .. Top]
    BY <1>1, <1>3, <1>4 DEF h1
  <2>3. CASE Up(h, b, p)
    <3>1. h2.ptr = [h1.ptr EXCEPT ![b] = h.ptr[u]] /\ Nxt(h, b, p) = h.ptr[u]
      BY <2>3 DEF Nxt
    <3> HIDE DEF h2
    <3> QED BY <2>1, <2>2, <3>1, <1>4, <1>5, <1>1
  <2>4. CASE ~Up(h, b, p)
    <3>1. h2.ptr = h1.ptr /\ Nxt(h, b, p) = u
      BY <2>4 DEF Nxt
    <3> HIDE DEF h2
    <3> QED BY <2>1, <3>1, <1>4, <1>5, <1>1
  <2> QED BY <2>3, <2>4
<1> HIDE DEF h2
<1>10. Linked(h2, F2) /\ Tiled(X2, h2.size, T, e)
  <2>1. CASE Up(h, b, p)
    <3>1. /\ u \in F /\ u \in F1 /\ b \in F1 /\ u > b /\ u # b /\ u # p /\ u \in 0 .. Top
          /\ h1.ptr[b] = u /\ b + h1.size[b] = u /\ h1.ptr[u] = h.ptr[u]
      BY <2>1, <1>1, <1>4, <1>5 DEF Up
    <3>2. h2.ptr[b] = h1.ptr[u]
      BY <2>1, <3>1, <1>9 DEF Nxt
    <3>3. \A f \in (F1 \cup {0}) \ {b, u} : h2.ptr[f] = h1.ptr[f]
      <4> SUFFICES ASSUME NEW f \in (F1 \cup {0}) \ {b, u} PROVE h2.ptr[f] = h1.ptr[f]
        OBVIOUS
      <4>1. f \in 0 .. Top /\ f # b
        BY <1>4
      <4> QED BY <4>1, <1>5, <1>9
    <3>4. h2.size[b] = h1.size[b] + h1.size[u]
      BY <2>1, <1>5, <1>9 DEF FreeLen
    <3>5. \A a \in X \ {b, u} : h2.size[a] = h1.size[a]
      BY <1>1, <1>5, <1>9
    <3>6. h2.freep \in (F1 \ {u}) \cup {0} /\ h2.size[0] = 0
      BY <1>1, <1>4, <1>9, <3>1
    <3>7. Linked(h2, F1 \ {u}) /\ Tiled(X \ {u}, h2.size, T, e)
      <4> HIDE DEF F1, u
      <4>1. Joins(h1, F1, X, T, e, b, u, h2)
        BY <3>1, <3>2, <3>3, <3>4, <3>5, <3>6, <1>7, <1>8 DEF Joins
      <4> QED BY <4>1, JoinedTwo
    <3> QED BY <2>1, <3>7
  <2>2. CASE ~Up(h, b, p)
    <3>1. h2.ptr[b] = h1.ptr[b] /\ h2.ptr[p] = h1.ptr[p] /\ h2.size[b] = h1.size[b]
      BY <2>2, <1>5, <1>9 DEF Nxt, FreeLen
    <3>2. \A f \in F1 \cup {0} : h2.ptr[f] = h1.ptr[f]
      BY <3>1, <1>4, <1>5, <1>9
    <3>3. \A a \in X : h2.size[a] = h1.size[a]
      BY <3>1, <1>1, <1>5, <1>9
    <3>4. h2.freep = h1.freep /\ h2.size[0] = 0
      BY <1>1, <1>4, <1>5, <1>9
    <3>5. Linked(h2, F1)
      BY <3>2, <3>4, <1>7 DEF Linked
    <3>6. Tiled(X, h2.size, T, e)
      BY <3>3, <1>8, TileSame
    <3> QED BY <2>2, <3>5, <3>6
  <2> QED BY <2>1, <2>2
(* joined with the block below *)
<1>11. ~(u = b) /\ ~(Up(h, b, p) /\ p = u)
  BY <1>1 DEF Up
<1>12. F2 \subseteq X2 /\ b \in F2 /\ (p \in F => p \in F2) /\ X2 \in SUBSET (0 .. Top) /\ F2 \in SUBSET (0 .. Top)
  <2>4. X \in SUBSET (0 .. Top)
    BY <1>1
  <2>1. F1 \subseteq X /\ b \in F1 /\ (p \in F => p \in F1) /\ X \in SUBSET (0 .. Top)
    <3>1. F \subseteq X /\ b \in X
      BY <1>1
    <3> QED BY <3>1, <2>4
  <2> HIDE DEF F1, u
  <2>2. F2 \subseteq X2 /\ X2 \subseteq X
    BY <2>1
  <2>3. b \in F2 /\ (p \in F => p \in F2)
    BY <2>1, <1>11
  <2> QED BY <2>1, <2>2, <2>3
<1>13. CASE Low(h, b, p)
  <2>1. p \in F /\ p + h2.size[p] = b /\ p \in F2
    <3>1. p # 0
      BY <1>13, <1>1 DEF Low
    <3> QED BY <3>1, <1>1, <1>4, <1>9, <1>12, <1>13 DEF Low
  <2>2. /\ r.ptr[p] = h2.ptr[b] /\ r.size[p] = h2.size[p] + h2.size[b] /\ r.freep = p
    BY <1>1, <1>4, <1>9, <1>13 DEF JoinedTo
  <2>3. \A a \in (0 .. Top) \ (Gone(h, b, p) \cup {p, b}) : r.ptr[a] = h2.ptr[a] /\ r.size[a] = h2.size[a]
    BY <1>9 DEF JoinedTo
  <2>4. F2 \ {b} = Rest(h, F, b, p) /\ X2 \ {b} = X \ Gone(h, b, p)
    BY <1>13 DEF Rest, Gone
  <2>5. \A f \in (F2 \cup {0}) \ {p, b} : r.ptr[f] = h2.ptr[f]
    <3> SUFFICES ASSUME NEW f \in (F2 \cup {0}) \ {p, b} PROVE r.ptr[f] = h2.ptr[f]
      OBVIOUS
    <3>1. f \in 0 .. Top
      BY <1>4, <1>12
    <3>2. f \notin Gone(h, b, p)
      BY <1>1, <1>4 DEF Gone, Up
    <3> QED BY <3>1, <3>2, <2>3
  <2>6. \A a \in X2 \ {p, b} : r.size[a] = h2.size[a]
    <3> SUFFICES ASSUME NEW f \in X2 \ {p, b} PROVE r.size[f] = h2.size[f]
      OBVIOUS
    <3>1. f \in 0 .. Top
      BY <1>12
    <3>2. f \notin Gone(h, b, p)
      BY DEF Gone
    <3> QED BY <3>1, <3>2, <2>3
  <2>7. r.freep \in (F2 \ {b}) \cup {0}
    BY <2>1, <2>2, <1>4
  <2>8. r.size[0] = 0
    <3>1. 0 \notin Gone(h, b, p) /\ p # 0
      BY <2>1, <1>1, <1>4 DEF Gone, Up
    <3> QED BY <3>1, <2>3, <1>1, <1>4, <1>9
  <2>9. h2.ptr[p] = b
    BY <1>9
  <2>10. Linked(r, F2 \ {b}) /\ Tiled(X2 \ {b}, r.size, T, e)
    <3> HIDE DEF F2, X2
    <3>1. Joins(h2, F2, X2, T, e, p, b, r)
      BY <2>1, <2>2, <2>5, <2>6, <2>7, <2>8, <2>9, <1>10, <1>12 DEF Joins
    <3> QED BY <3>1, JoinedTwo
  <2> QED BY <2>4, <2>10
<1>14. CASE ~Low(h, b, p)
  <2>1. F2 = Rest(h, F, b, p) /\ X2 = X \ Gone(h, b, p)
    BY <1>14 DEF Rest, Gone
  <2>2. /\ r.ptr[p] = h2.ptr[p] /\ r.ptr[b] = h2.ptr[b] /\ r.freep = h2.freep
        /\ r.size[b] = h2.size[b] /\ r.size[p] = h2.size[p]
    BY <1>1, <1>4, <1>9, <1>14 DEF JoinedTo
  <2>3. ASSUME NEW a \in (0 .. Top) \ Gone(h, b, p) PROVE r.ptr[a] = h2.ptr[a] /\ r.size[a] = h2.size[a]
    <3>1. CASE a \in {p, b}
      BY <3>1, <2>2
    <3>2. CASE a \notin {p, b}
      BY <3>2, <1>9 DEF JoinedTo
    <3> QED BY <3>1, <3>2
  <2>4. 0 \notin Gone(h, b, p) /\ F2 \cap Gone(h, b, p) = {} /\ X2 \cap Gone(h, b, p) = {}
    BY <2>1, <1>1, <1>4 DEF Gone, Up, Rest
  <2>5. r.size[0] = 0 /\ \A f \in F2 \cup {0} : r.ptr[f] = h2.ptr[f]
    BY <2>3, <2>4, <1>1, <1>4, <1>9, <1>12
  <2>6. \A a \in X2 : r.size[a] = h2.size[a]
    BY <2>3, <2>4, <1>12
  <2>7. Linked(r, F2)
    <3> HIDE DEF F2
    <3> QED BY <2>2, <2>5, <1>10 DEF Linked
  <2>8. Tiled(X2, r.size, T, e)
    <3> HIDE DEF X2
    <3> QED BY <2>6, <1>10, TileSame
  <2> QED BY <2>1, <2>7, <2>8
<1> QED BY <1>13, <1>14

(* The free blocks F are in the list, no two of them next to each other,    *)
(* and with the blocks U and the units T they make up the heap up to e.     *)
Held(h, F, U, T, e) ==
    /\ h \in HeapType /\ Linked(h, F) /\ Separate(F, h.size)
    /\ F \cap U = {} /\ Tiled(F \cup U, h.size, T, e)

(* The first block from freep on, or freep itself, is as large as n.        *)
HasRoom(h, F, n) ==
    \/ h.ptr[h.freep] \in F /\ h.size[h.ptr[h.freep]] >= n
    \/ h.freep \in F /\ h.size[h.freep] >= n

(* What free() leaves.                                                      *)
FreedTo(r, h, U, T, e, b) ==
    \E G : /\ Held(r, G, U \ {b}, T, e) /\ HasRoom(r, G, h.size[b])
           /\ \A a \in U \ {b} : r.size[a] = h.size[a]

(* A block is freed.                                                        *)
LEMMA FreedHeld ==
    ASSUME H!Sizes, NEW h, NEW F, NEW U, NEW T, NEW e, Held(h, F, U, T, e), NEW b \in U
    PROVE  FreedTo(H!Freed(h, b), h, U, T, e, b)
<1> DEFINE p == H!Place(h, b)
           r == H!Joined(h, b, p)
           X == F \cup U
           G == Rest(h, F, b, p)
<1>1. h \in HeapType /\ Linked(h, F) /\ Separate(F, h.size) /\ F \cap U = {} /\ Tiled(X, h.size, T, e)
  BY DEF Held
<1>2. b \in X \ F /\ F \subseteq X /\ b \in 2 .. Top
  <2>1. X \in SUBSET (2 .. e - 1) /\ e \in 2 .. Top /\ Top \in Nat
    BY <1>1, AddrsAre DEF Tiled
  <2>2. b \in 2 .. e - 1
    BY <2>1
  <2> QED BY <2>1, <2>2, <1>1
<1>3. Before(h, F, b, p)
  BY <1>1, <1>2, PlaceIs
<1> HIDE DEF p, X
<1>4. FreeCall(h, F, X, T, e, b, p)
  BY <1>1, <1>2, <1>3 DEF FreeCall
<1>5. JoinedTo(h, b, p, r)
  BY <1>4, JoinedIs
<1>6. H!Freed(h, b) = r
  BY DEF H!Freed, p
<1> HIDE DEF r
<1>7. Linked(r, G) /\ Tiled(X \ Gone(h, b, p), r.size, T, e) /\ Separate(G, r.size)
  BY <1>4, <1>5, FreedKeeps, RestSeparate
<1>8. /\ Top \in Nat /\ F \in SUBSET (2 .. Top) /\ X \in SUBSET (2 .. Top) /\ b \in 2 .. Top
      /\ p \in F \cup {0} /\ p \in 0 .. Top /\ p < b /\ h.size[p] \in Nat /\ 0 \notin X
      /\ h.size[b] \in Nat \ {0} /\ h.size[0] = 0
      /\ h.ptr[p] # 0 => h.ptr[p] \in F /\ h.ptr[p] > b /\ h.size[h.ptr[p]] \in Nat \ {0}
  BY <1>4, FreeGiven
<1>9. Gone(h, b, p) \subseteq F \cup {b} /\ (~Low(h, b, p) => b \notin Gone(h, b, p)) /\ p \notin Gone(h, b, p)
  BY <1>8 DEF Gone, Up
<1>10. X \ Gone(h, b, p) = G \cup (U \ {b}) /\ G \cap (U \ {b}) = {}
  BY <1>1, <1>9 DEF Rest, X
<1>11. Held(r, G, U \ {b}, T, e)
  <2>1. r \in HeapType
    BY <1>5 DEF JoinedTo
  <2> HIDE DEF G
  <2> QED BY <2>1, <1>7, <1>10 DEF Held
<1>12. ASSUME NEW a \in U \ {b} PROVE r.size[a] = h.size[a]
  <2>1. a \in 0 .. Top /\ a \notin F /\ a # 0
    BY <1>1, <1>8 DEF X
  <2>2. a \in (0 .. Top) \ (Gone(h, b, p) \cup {p, b})
    BY <2>1, <1>8, <1>9
  <2> QED BY <2>2, <1>5 DEF JoinedTo
<1>13. HasRoom(r, G, h.size[b])
  <2>1. FreeLen(h, b, p) \in Nat /\ FreeLen(h, b, p) >= h.size[b] /\ r.freep = p
    BY <1>5, <1>8 DEF FreeLen, Up, JoinedTo
  <2>2. CASE Low(h, b, p)
    <3>1. p # 0
      BY <2>2, <1>8 DEF Low
    <3>2. p \in G
      BY <3>1, <1>8, <1>9 DEF Rest
    <3>3. r.size[p] = h.size[p] + FreeLen(h, b, p)
      BY <2>2, <1>5 DEF JoinedTo
    <3>4. r.size[p] >= h.size[b]
      BY <3>3, <2>1, <1>8
    <3> QED BY <3>2, <3>4, <2>1 DEF HasRoom
  <2>3. CASE ~Low(h, b, p)
    <3>1. b \in G
      BY <2>3, <1>9 DEF Rest
    <3>2. r.ptr[p] = b /\ r.size[b] = FreeLen(h, b, p)
      BY <2>3, <1>5 DEF JoinedTo
    <3> QED BY <3>1, <3>2, <2>1 DEF HasRoom
  <2> QED BY <2>2, <2>3
<1> HIDE DEF G
<1> QED BY <1>6, <1>11, <1>12, <1>13 DEF FreedTo

(* A block is handed out.                                                   *)
HandsOut(h, U, T, e, n, c) ==
    /\ c.at \notin U /\ c.heap.size[c.at] = n
    /\ \A a \in U : c.heap.size[a] = h.size[a]
    /\ \E G : Held(c.heap, G, U \cup {c.at}, T, e)

(* malloc() takes a block, or the end of one.                               *)
LEMMA CarvedHeld ==
    ASSUME H!Sizes, NEW h, NEW F, NEW U, NEW T, NEW e, Held(h, F, U, T, e), NEW n \in Nat \ {0},
           NEW p \in F, NEW q \in F \cup {0}, h.ptr[q] = p, h.size[p] >= n
    PROVE  HandsOut(h, U, T, e, n, H!Carved(h, n, q, p))
<1> DEFINE c == H!Carved(h, n, q, p)
           X == F \cup U
           rest == h.size[p] - n
<1>1. h \in HeapType /\ Linked(h, F) /\ Separate(F, h.size) /\ F \cap U = {} /\ Tiled(X, h.size, T, e)
  BY DEF Held
<1>2. h.ptr \in [0 .. Top -> 0 .. Top] /\ h.size \in [0 .. Top -> Nat] /\ H!Addrs = 0 .. Top /\ H!base = 0 /\ Top \in Nat
  BY <1>1, AddrsAre DEF HeapType
<1>3. h = [ptr |-> h.ptr, size |-> h.size, freep |-> h.freep]
  BY <1>1 DEF HeapType
<1>4. /\ X \in SUBSET (2 .. Top) /\ F \in SUBSET (2 .. Top) /\ U \in SUBSET (2 .. Top) /\ e \in 2 .. Top
      /\ X \in SUBSET (2 .. e - 1) /\ p \in X /\ p \in 2 .. Top /\ h.size[p] \in Nat \ {0} /\ p + h.size[p] <= e
  BY <1>1, <1>2 DEF Tiled
<1>5. q \in 0 .. Top /\ q < p /\ h.ptr[p] \in 0 .. Top /\ h.size[0] = 0
  <2>1. p # 0
    BY <1>4
  <2>2. q \in Nat /\ p > q
    BY <1>1, <2>1, After
  <2>3. q \in 0 .. Top /\ q < p
    BY <2>2, <1>4, <1>2
  <2> QED BY <2>3, <1>1, <1>2, <1>4 DEF Linked
<1>8. p \in 0 .. Top /\ 0 \in 0 .. Top /\ p # 0 /\ q # p
  BY <1>2, <1>4, <1>5
<1>9. \A a \in X : a \in 0 .. Top /\ a # 0
  <2> HIDE DEF X
  <2> QED BY <1>2, <1>4
<1>10. \A f \in F \cup {0} : f \in 0 .. Top
  <2>1. \A f \in F : f \in X
    OBVIOUS
  <2> QED BY <2>1, <1>8, <1>9
<1>11. \A a \in U : a \in X
  OBVIOUS
<1> HIDE DEF X
<1>6. CASE rest = 0
  <2>1. c.at = p /\ c.heap.ptr = [h.ptr EXCEPT ![q] = h.ptr[p], ![p] = 0] /\ c.heap.size = h.size /\ c.heap.freep = q
        /\ c.heap = [ptr |-> [h.ptr EXCEPT ![q] = h.ptr[p], ![p] = 0], size |-> h.size, freep |-> q]
    BY <1>2, <1>3, <1>6 DEF H!Carved
  <2> HIDE DEF c
  <2>2. c.heap \in HeapType
    <3>1. [h.ptr EXCEPT ![q] = h.ptr[p], ![p] = 0] \in [0 .. Top -> 0 .. Top]
      BY <1>2, <1>5, <1>8
    <3> QED BY <2>1, <3>1, <1>2, <1>5 DEF HeapType
  <2>3. c.heap.ptr[q] = h.ptr[p] /\ \A f \in (F \cup {0}) \ {q, p} : c.heap.ptr[f] = h.ptr[f]
    BY <2>1, <1>2, <1>5, <1>8, <1>10
  <2>4. c.heap.freep \in (F \ {p}) \cup {0} /\ c.heap.size[0] = 0
    BY <2>1, <1>4, <1>5
  <2>5. Linked(c.heap, F \ {p})
    BY <2>3, <2>4, <1>1, LinkOut
  <2>6. Separate(F \ {p}, c.heap.size)
    BY <2>1, <1>1 DEF Separate
  <2>7. (F \ {p}) \cap (U \cup {p}) = {} /\ (F \ {p}) \cup (U \cup {p}) = X
    BY <1>1 DEF X
  <2>8. Held(c.heap, F \ {p}, U \cup {c.at}, T, e)
    BY <2>1, <2>2, <2>5, <2>6, <2>7, <1>1 DEF Held
  <2>9. p \notin U /\ h.size[p] = n
    BY <1>1, <1>4, <1>6
  <2>10. HandsOut(h, U, T, e, n, c)
    BY <2>1, <2>8, <2>9 DEF HandsOut
  <2> QED BY <2>10 DEF c
<1>7. CASE rest # 0
  <2>1. rest \in Nat \ {0} /\ n < h.size[p] /\ p + rest \in 0 .. Top /\ p + rest # p /\ p + rest # 0 /\ p # 0
    <3>1. rest \in Nat \ {0} /\ n < h.size[p] /\ rest < h.size[p] /\ h.size[p] \in Nat
      BY <1>4, <1>7
    <3>2. p \in Nat /\ e \in Nat /\ e <= Top /\ p + h.size[p] <= e /\ p >= 2
      BY <1>2, <1>4
    <3> HIDE DEF rest
    <3>3. p + rest \in Nat /\ p + rest <= Top /\ p + rest # p /\ p + rest # 0
      BY <3>1, <3>2, <1>2
    <3> QED BY <3>1, <3>3, <1>2, <1>8
  <2>2. c.at = p + rest /\ c.heap.ptr = h.ptr /\ c.heap.size = [h.size EXCEPT ![p] = rest, ![p + rest] = n]
        /\ c.heap.freep = q
        /\ c.heap = [ptr |-> h.ptr, size |-> [h.size EXCEPT ![p] = rest, ![p + rest] = n], freep |-> q]
    BY <1>2, <1>3, <1>7 DEF H!Carved
  <2>3. PICK z \in 0 .. Top : z = p + rest
    BY <2>1
  <2> HIDE DEF c, rest
  <2>4. c.heap \in HeapType
    <3>1. [h.size EXCEPT ![p] = rest, ![p + rest] = n] \in [0 .. Top -> Nat]
      BY <2>1, <1>2, <1>4
    <3> QED BY <2>2, <3>1, <1>2, <1>5 DEF HeapType
  <2>5. c.heap.size[p] = rest /\ c.heap.size[z] = n /\ \A a \in (0 .. Top) \ {p, z} : c.heap.size[a] = h.size[a]
    <3>1. c.heap.size = [h.size EXCEPT ![p] = rest, ![z] = n] /\ z # p
      BY <2>1, <2>2, <2>3
    <3> QED BY <3>1, <1>2, <1>8
  <2>6. z \notin X /\ Tiled(X \cup {z}, c.heap.size, T, e)
    <3>1. c.heap.size[p] = h.size[p] - n /\ z = p + (h.size[p] - n)
      BY <2>3, <2>5 DEF rest
    <3>2. z \notin X
      <4>1. ASSUME z \in X PROVE FALSE
        <5>1. p + h.size[p] <= z
          BY <4>1, <2>1, <2>3, <1>1, <1>4 DEF Tiled
        <5> QED BY <5>1, <3>1, <2>1, <1>4
      <4> QED BY <4>1
    <3>3. \A a \in X \ {p} : c.heap.size[a] = h.size[a]
      BY <3>2, <2>5, <1>9
    <3>4. p \in X /\ n < h.size[p] /\ c.heap.size[z] = n /\ Tiled(X, h.size, T, e)
      BY <2>1, <2>5, <1>1, <1>4
    <3>5. PICK s, r : s = h.size /\ r = c.heap.size
      OBVIOUS
    <3>6. /\ r[p] = s[p] - n /\ z = p + (s[p] - n) /\ \A a \in X \ {p} : r[a] = s[a]
          /\ n < s[p] /\ r[z] = n /\ Tiled(X, s, T, e)
      BY <3>1, <3>3, <3>4, <3>5
    <3>7. z \notin X /\ Tiled(X \cup {z}, r, T, e)
      BY <3>4, <3>6, TileSplit
    <3> QED BY <3>5, <3>7
  <2>7. Linked(c.heap, F)
    <3>1. c.heap.size[0] = 0
      <4>1. 0 \in (0 .. Top) \ {p, z}
        BY <2>1, <2>3, <1>8
      <4> QED BY <4>1, <2>5, <1>5
    <3> QED BY <3>1, <2>2, <1>1 DEF Linked
  <2>8. Separate(F, c.heap.size)
    <3> SUFFICES ASSUME NEW f \in F PROVE f + c.heap.size[f] \notin F
      BY DEF Separate
    <3>1. CASE f = p
      BY <3>1, <2>3, <2>5, <2>6 DEF X
    <3>2. CASE f # p
      <4>1. f # z /\ f \in 0 .. Top
        BY <2>6, <1>2, <1>4 DEF X
      <4> QED BY <3>2, <4>1, <2>5, <1>1 DEF Separate
    <3> QED BY <3>1, <3>2
  <2>9. F \cap (U \cup {z}) = {} /\ F \cup (U \cup {z}) = X \cup {z}
    BY <2>6, <1>1 DEF X
  <2>10. Held(c.heap, F, U \cup {z}, T, e)
    BY <2>4, <2>6, <2>7, <2>8, <2>9 DEF Held
  <2>11. z \notin U /\ \A a \in U : c.heap.size[a] = h.size[a]
    <3>1. \A a \in U : a # z /\ a # p /\ a \in 0 .. Top
      <4>1. p \notin U
        BY <1>1
      <4> QED BY <4>1, <2>6, <1>9, <1>11
    <3> QED BY <3>1, <2>5
  <2>12. HandsOut(h, U, T, e, n, c)
    BY <2>2, <2>3, <2>5, <2>10, <2>11 DEF HandsOut
  <2> QED BY <2>12 DEF c
<1> QED BY <1>6, <1>7

(* Where malloc() has looked at the whole list.                             *)
LEMMA LastIs ==
    ASSUME H!Sizes, NEW h \in HeapType, NEW F, Linked(h, F), NEW n
    PROVE  \E last \in 1 .. Top + 1 :
             /\ H!Walk(h)[last] = h.freep
             /\ H!Big(h, n) = {k \in 1 .. last : h.size[H!Walk(h)[k]] >= n}
<1> DEFINE w == H!Walk(h)
           K == {k \in DOMAIN w \ {0} : w[k] = h.freep}
<1>1. DOMAIN w = 0 .. Top + 1 /\ Walks(w, h) /\ Top \in Nat
  BY WalkIs, AddrsAre
<1>2. H!Big(h, n) = {k \in 1 .. H!Min(K) : h.size[w[k]] >= n}
  BY DEF H!Big
<1> HIDE DEF w
<1>3. PICK k \in 1 .. Top + 1 : w[k] = h.freep
  BY <1>1, WalkAll
<1>4. K \in SUBSET Nat /\ k \in K
  BY <1>1, <1>3
<1>5. H!Min(K) \in K
  <2> HIDE DEF K
  <2>1. Min(K) \in K
    BY <1>4, Lowest
  <2> QED BY <2>1 DEF H!Min, Min
<1>6. PICK last \in 1 .. Top + 1 : last = H!Min(K) /\ w[last] = h.freep
  <2>1. PICK x \in K : x = H!Min(K)
    BY <1>5, Zenon
  <2>2. x \in 1 .. Top + 1 /\ w[x] = h.freep
    BY <1>1
  <2> HIDE DEF K
  <2> QED BY <2>1, <2>2
<1> QED BY <1>2, <1>6 DEF w

(* malloc() finds a block.                                                  *)
LEMMA TakenHeld ==
    ASSUME H!Sizes, NEW h, NEW F, NEW U, NEW T, NEW e, Held(h, F, U, T, e), NEW n \in Nat \ {0}, H!Big(h, n) # {}
    PROVE  HandsOut(h, U, T, e, n, H!Taken(h, n))
<1> DEFINE w == H!Walk(h)
           B == H!Big(h, n)
<1>1. h \in HeapType /\ Linked(h, F) /\ Top \in Nat /\ h.size[0] = 0
  BY AddrsAre DEF Held, Linked
<1>2. PICK last \in 1 .. Top + 1 : B = {k \in 1 .. last : h.size[w[k]] >= n}
  BY <1>1, LastIs
<1>3. H!Taken(h, n) = H!Carved(h, n, w[H!Min(B) - 1], w[H!Min(B)])
  BY DEF H!Taken
<1>4. Walks(w, h)
  BY <1>1, WalkIs
<1> HIDE DEF w, B
<1>5. B \in SUBSET Nat /\ B # {}
  BY <1>2 DEF B
<1>6. H!Min(B) \in B
  <2>1. Min(B) \in B
    BY <1>5, Lowest
  <2> QED BY <2>1 DEF H!Min, Min
<1>7. PICK k \in 1 .. Top + 1 : k = H!Min(B) /\ h.size[w[k]] >= n
  <2>1. PICK x \in B : x = H!Min(B)
    BY <1>6, Zenon
  <2>2. x \in 1 .. Top + 1 /\ h.size[w[x]] >= n
    BY <1>1, <1>2
  <2> QED BY <2>1, <2>2
<1>8. w[k] = h.ptr[w[k - 1]]
  BY <1>4 DEF Walks
<1>9. w[k] \in F \cup {0} /\ w[k - 1] \in F \cup {0}
  <2>1. k \in 0 .. Top + 1 /\ k - 1 \in 0 .. Top + 1
    BY <1>1
  <2>2. \A j \in 0 .. Top + 1 : w[j] \in F \cup {0}
    BY <1>1, <1>4, WalkStays
  <2> QED BY <2>1, <2>2
<1>10. w[k] # 0
  BY <1>1, <1>7
<1>11. PICK p \in F, q \in F \cup {0} : p = w[k] /\ q = w[k - 1]
  BY <1>9, <1>10
<1>12. HandsOut(h, U, T, e, n, H!Carved(h, n, q, p))
  BY <1>7, <1>8, <1>11, CarvedHeld
<1> QED BY <1>3, <1>7, <1>11, <1>12

(* After morecore() there is a block that is large enough.                  *)
LEMMA RoomFound ==
    ASSUME H!Sizes, NEW h \in HeapType, NEW F, Linked(h, F), NEW m, NEW n \in Nat, HasRoom(h, F, m), m \in Nat, n <= m
    PROVE  H!Big(h, n) # {}
<1> DEFINE w == H!Walk(h)
<1>1. PICK last \in 1 .. Top + 1 : w[last] = h.freep /\ H!Big(h, n) = {k \in 1 .. last : h.size[w[k]] >= n}
  BY LastIs
<1>2. Walks(w, h) /\ Top \in Nat /\ Top >= 2
  BY WalkIs, AddrsAre
<1>3. w[1] = h.ptr[h.freep]
  <2> HIDE DEF w
  <2>1. 1 \in 1 .. Top + 1 /\ 1 - 1 = 0
    BY <1>2
  <2>2. w[0] = h.freep /\ w[1] = h.ptr[w[1 - 1]]
    BY <1>2, <2>1 DEF Walks
  <2> QED BY <2>1, <2>2
<1> HIDE DEF w
<1>4. h.size \in [0 .. Top -> Nat] /\ F \in SUBSET (0 .. Top)
  BY AddrsAre DEF HeapType, Linked
<1>5. CASE h.ptr[h.freep] \in F /\ h.size[h.ptr[h.freep]] >= m
  <2>1. h.size[h.ptr[h.freep]] \in Nat
    BY <1>4, <1>5
  <2>2. h.size[w[1]] >= n /\ 1 \in 1 .. last
    BY <2>1, <1>2, <1>3, <1>5
  <2> QED BY <2>2, <1>1
<1>6. CASE h.freep \in F /\ h.size[h.freep] >= m
  <2>1. h.size[h.freep] \in Nat
    BY <1>4, <1>6
  <2>2. h.size[w[last]] >= n /\ last \in 1 .. last
    BY <2>1, <1>1, <1>2, <1>6
  <2> QED BY <2>2, <1>1
<1> QED BY <1>5, <1>6 DEF HasRoom

(* morecore(): a new block at the end of the heap is freed.                 *)
LEMMA GrownHeld ==
    ASSUME H!Sizes, NEW h, NEW F, NEW U, NEW T, NEW e, Held(h, F, U, T, e), NEW m \in Nat \ {0}, e + m <= Top,
           NEW g, g = [h EXCEPT !.size[e] = m]
    PROVE  /\ e \notin U
           /\ \E G : /\ Held(H!Freed(g, e), G, U, T, e + m)
                     /\ \A a \in U : H!Freed(g, e).size[a] = h.size[a]
                     /\ HasRoom(H!Freed(g, e), G, m)
<1>1. h \in HeapType /\ Linked(h, F) /\ Separate(F, h.size) /\ F \cap U = {} /\ Tiled(F \cup U, h.size, T, e)
  BY DEF Held
<1>2. Top \in Nat /\ H!Addrs = 0 .. Top /\ e \in 2 .. Top /\ (F \cup U) \in SUBSET (2 .. e - 1)
  BY <1>1, AddrsAre DEF Tiled
<1>3. h.ptr \in [0 .. Top -> 0 .. Top] /\ h.size \in [0 .. Top -> Nat] /\ h.freep \in 0 .. Top
  BY <1>1, <1>2 DEF HeapType
<1>4. e \in 0 .. Top /\ e # 0 /\ 0 \in 0 .. Top
  BY <1>2
<1>5. g.ptr = h.ptr /\ g.freep = h.freep /\ g.size = [h.size EXCEPT ![e] = m] /\ g \in HeapType
  BY <1>1, <1>2, <1>3, <1>4 DEF HeapType
<1>6. g.size[e] = m /\ \A a \in (0 .. Top) \ {e} : g.size[a] = h.size[a]
  BY <1>3, <1>4, <1>5
<1>7. \A a \in F \cup U : a \in (0 .. Top) \ {e} /\ a # e
  <2>1. PICK X : X = F \cup U
    OBVIOUS
  <2>2. \A a \in X : a \in (0 .. Top) \ {e} /\ a # e
    BY <2>1, <1>2
  <2> QED BY <2>1, <2>2
<1>8. \A a \in F \cup U : g.size[a] = h.size[a]
  BY <1>6, <1>7
<1>9. Linked(g, F)
  <2>1. g.size[0] = 0
    BY <1>1, <1>4, <1>6 DEF Linked
  <2> QED BY <2>1, <1>1, <1>5 DEF Linked
<1>10. Separate(F, g.size)
  BY <1>1, <1>8 DEF Separate
<1>11. e \notin F /\ e \notin U
  BY <1>7
<1>12. Tiled((F \cup U) \cup {e}, g.size, T, e + m)
  BY <1>1, <1>6, <1>8, TileGrow, ZenonT(40)
<1>13. F \cap (U \cup {e}) = {} /\ F \cup (U \cup {e}) = (F \cup U) \cup {e}
  BY <1>1, <1>11
<1>14. Held(g, F, U \cup {e}, T, e + m)
  BY <1>5, <1>9, <1>10, <1>12, <1>13 DEF Held
<1>16. PICK G : /\ Held(H!Freed(g, e), G, (U \cup {e}) \ {e}, T, e + m)
                /\ \A a \in (U \cup {e}) \ {e} : H!Freed(g, e).size[a] = g.size[a]
                /\ HasRoom(H!Freed(g, e), G, g.size[e])
  <2>1. PICK W : W = U \cup {e}
    OBVIOUS
  <2>2. PICK d : d = e + m
    OBVIOUS
  <2>3. Held(g, F, W, T, d) /\ e \in W
    BY <2>1, <2>2, <1>14
  <2>4. FreedTo(H!Freed(g, e), g, W, T, d, e)
    BY <2>3, FreedHeld
  <2> QED BY <2>1, <2>2, <2>4 DEF FreedTo
<1>17. (U \cup {e}) \ {e} = U
  BY <1>11
<1>18. \A a \in U : H!Freed(g, e).size[a] = h.size[a]
  BY <1>8, <1>16, <1>17
<1> QED BY <1>6, <1>11, <1>16, <1>17, <1>18

(* The invariant of the allocator.                                          *)
HeapInv ==
    /\ \E F : Held(heap, F, DOMAIN blocks, foreign, curbrk)
    /\ \A b \in DOMAIN blocks : heap.size[b] = blocks[b]

(* The list begins empty.                                                   *)
LEMMA HeapBegins == ASSUME H!Sizes PROVE H!Init => HeapInv
<1> SUFFICES ASSUME H!Init PROVE HeapInv
  OBVIOUS
<1>1. Top \in Nat /\ Top >= 2 /\ H!Addrs = 0 .. Top /\ H!FirstUnit = 2 /\ H!base = 0
  BY AddrsAre
<1>2. heap = [ptr |-> [a \in 0 .. Top |-> 0], size |-> [a \in 0 .. Top |-> 0], freep |-> 0]
  BY <1>1 DEF H!Init
<1>3. curbrk = 2 /\ DOMAIN blocks = {} /\ foreign = {}
  BY <1>1 DEF H!Init
<1>4. heap \in HeapType /\ heap.freep = 0 /\ heap.size[0] = 0 /\ heap.ptr[0] = 0
  BY <1>1, <1>2 DEF HeapType
<1>5. Linked(heap, {})
  BY <1>4 DEF Linked
<1>6. Tiled({} \cup {}, heap.size, {}, 2)
  BY <1>1 DEF Tiled
<1>7. Held(heap, {}, {}, {}, 2)
  BY <1>4, <1>5, <1>6 DEF Held, Separate
<1> QED BY <1>3, <1>7 DEF HeapInv

(* A block that malloc() found is handed out.                               *)
LEMMA Handed ==
    ASSUME NEW h, NEW n, NEW c, HandsOut(h, DOMAIN blocks, foreign, curbrk', n, c), H!Hand(c, n),
           UNCHANGED foreign, \A b \in DOMAIN blocks : h.size[b] = blocks[b]
    PROVE  HeapInv'
<1>1. heap' = c.heap /\ DOMAIN blocks' = DOMAIN blocks \cup {c.at}
  BY DEF H!Hand
<1>2. PICK G : Held(c.heap, G, DOMAIN blocks \cup {c.at}, foreign, curbrk')
  BY DEF HandsOut
<1>3. Held(heap', G, DOMAIN blocks', foreign', curbrk')
  BY <1>1, <1>2
<1>4. ASSUME NEW b \in DOMAIN blocks' PROVE heap'.size[b] = blocks'[b]
  <2>1. b \in DOMAIN blocks \cup {c.at} /\ blocks'[b] = IF b = c.at THEN n ELSE blocks[b]
    BY <1>1 DEF H!Hand
  <2> QED BY <2>1, <1>1 DEF HandsOut
<1> QED BY <1>3, <1>4 DEF HeapInv

(* Each call keeps the invariant.                                           *)
LEMMA MallocKeeps == ASSUME H!Sizes, HeapInv, NEW n \in Units, H!malloc(n) PROVE HeapInv'
<1>1. PICK F : Held(heap, F, DOMAIN blocks, foreign, curbrk)
  BY DEF HeapInv
<1>2. n \in Nat \ {0} /\ H!Big(heap, n) # {} /\ H!Hand(H!Taken(heap, n), n) /\ curbrk' = curbrk /\ foreign' = foreign
  BY DEF H!malloc, H!Sizes
<1>3. HandsOut(heap, DOMAIN blocks, foreign, curbrk', n, H!Taken(heap, n))
  BY <1>1, <1>2, TakenHeld
<1> QED BY <1>2, <1>3, Handed DEF HeapInv

(* morecore() asks for what is needed at least.                             *)
LEMMA MoreIs == ASSUME H!Sizes, NEW n \in Units PROVE H!More(n) \in Nat \ {0} /\ n <= H!More(n) /\ n \in Nat \ {0}
<1>1. n \in Nat \ {0} /\ NALLOC \in Nat
  BY DEF H!Sizes
<1>2. \E x \in {n, NALLOC} : \A y \in {n, NALLOC} : x >= y
  BY <1>1
<1>3. H!More(n) = CHOOSE x \in {n, NALLOC} : \A y \in {n, NALLOC} : x >= y
  BY DEF H!More, H!Max
<1>4. H!More(n) \in {n, NALLOC} /\ \A y \in {n, NALLOC} : H!More(n) >= y
  BY <1>2, <1>3
<1>5. PICK m \in {n, NALLOC} : m = H!More(n) /\ m >= n
  BY <1>4
<1> QED BY <1>1, <1>5

(* malloc() with morecore() keeps it.                                      *)
LEMMA MoreKeeps == ASSUME H!Sizes, HeapInv, NEW n \in Units, H!mallocMore(n) PROVE HeapInv'
<1>1. PICK F : Held(heap, F, DOMAIN blocks, foreign, curbrk)
  BY DEF HeapInv
<1>2. PICK m \in Nat \ {0} : m = H!More(n) /\ n <= m
  BY MoreIs
<1>3. n \in Nat \ {0} /\ n \in Nat /\ m \in Nat
  BY DEF H!Sizes
<1>4. curbrk + m <= Top /\ curbrk' = curbrk + m /\ foreign' = foreign /\ H!Hand(H!Taken(H!Grown(n), n), n)
  BY <1>2, AddrsAre DEF H!mallocMore, H!Grants, Top
<1>5. PICK g : g = [heap EXCEPT !.size[curbrk] = m]
  OBVIOUS
<1>6. H!Grown(n) = H!Freed(g, curbrk)
  BY <1>2, <1>5 DEF H!Grown
<1>7. PICK r : r = H!Grown(n)
  OBVIOUS
<1>8. PICK G : /\ Held(r, G, DOMAIN blocks, foreign, curbrk')
               /\ \A a \in DOMAIN blocks : r.size[a] = heap.size[a]
               /\ HasRoom(r, G, m)
  BY <1>1, <1>4, <1>5, <1>6, <1>7, GrownHeld
<1>9. H!Big(r, n) # {}
  <2>1. r \in HeapType /\ Linked(r, G)
    BY <1>8 DEF Held
  <2> QED BY <2>1, <1>2, <1>3, <1>8, RoomFound
<1>10. HandsOut(r, DOMAIN blocks, foreign, curbrk', n, H!Taken(r, n))
  BY <1>3, <1>8, <1>9, TakenHeld
<1>11. \A b \in DOMAIN blocks : r.size[b] = blocks[b]
  BY <1>8 DEF HeapInv
<1> QED BY <1>4, <1>7, <1>10, <1>11, Handed

(* free() keeps it.                                                        *)
LEMMA FreeKeeps == ASSUME H!Sizes, HeapInv, NEW b \in DOMAIN blocks, H!free(b) PROVE HeapInv'
<1>1. PICK F : Held(heap, F, DOMAIN blocks, foreign, curbrk)
  BY DEF HeapInv
<1>2. heap' = H!Freed(heap, b) /\ curbrk' = curbrk /\ foreign' = foreign
      /\ blocks' = [a \in DOMAIN blocks \ {b} |-> blocks[a]] /\ DOMAIN blocks' = DOMAIN blocks \ {b}
  BY DEF H!free
<1>3. FreedTo(heap', heap, DOMAIN blocks, foreign, curbrk, b)
  BY <1>1, <1>2, FreedHeld
<1>4. PICK G : /\ Held(heap', G, DOMAIN blocks \ {b}, foreign, curbrk)
               /\ \A a \in DOMAIN blocks \ {b} : heap'.size[a] = heap.size[a]
  BY <1>3 DEF FreedTo
<1>5. \A a \in DOMAIN blocks' : heap'.size[a] = blocks'[a]
  BY <1>2, <1>4 DEF HeapInv
<1> QED BY <1>2, <1>4, <1>5 DEF HeapInv

(* sbrk() keeps it.                                                        *)
LEMMA SbrkKeeps == ASSUME H!Sizes, HeapInv, H!sbrk(1) PROVE HeapInv'
<1>1. PICK F : Held(heap, F, DOMAIN blocks, foreign, curbrk)
  BY DEF HeapInv
<1>2. curbrk \in Nat
  BY <1>1, AddrsAre DEF Held, Tiled
<1>3. curbrk + 1 <= Top /\ curbrk' = curbrk + 1 /\ heap' = heap /\ blocks' = blocks
  BY AddrsAre DEF H!sbrk, H!Grants, Top
<1>4. foreign' = foreign \cup {curbrk}
  <2>1. curbrk .. curbrk + 1 - 1 = {curbrk}
    BY <1>2
  <2> QED BY <2>1 DEF H!sbrk
<1>5. Tiled(F \cup DOMAIN blocks, heap.size, foreign \cup {curbrk}, curbrk + 1)
  BY <1>1, <1>3, TileForeign DEF Held
<1>6. Held(heap', F, DOMAIN blocks', foreign', curbrk')
  BY <1>1, <1>3, <1>4, <1>5 DEF Held
<1> QED BY <1>3, <1>6 DEF HeapInv

(* So does every step.                                                      *)
LEMMA HeapSteps == ASSUME H!Sizes, HeapInv, [H!Next]_(H!vars) PROVE HeapInv'
<1>1. CASE UNCHANGED H!vars
  BY <1>1 DEF H!vars, HeapInv
<1>2. ASSUME NEW n \in Units, H!malloc(n) \/ H!mallocMore(n) \/ H!mallocFails(n) PROVE HeapInv'
  <2>1. CASE H!mallocFails(n)
    BY <2>1 DEF H!mallocFails, H!vars, HeapInv
  <2> QED BY <2>1, <1>2, MallocKeeps, MoreKeeps
<1>3. ASSUME NEW b \in DOMAIN blocks, H!free(b) PROVE HeapInv'
  BY <1>3, FreeKeeps
<1>4. CASE H!sbrk(1)
  BY <1>4, SbrkKeeps
<1> QED BY <1>1, <1>2, <1>3, <1>4 DEF H!Next

(* Each unit of the heap has one owner.                                     *)
Owners(u, F) ==
    {<<"free", f>> : f \in {g \in F : u \in H!Cells(g, heap.size[g])}}
    \cup {<<"used", b>> : b \in {c \in DOMAIN blocks : u \in H!Cells(c, blocks[c])}}
    \cup {<<"foreign", u>> : v \in {u} \cap foreign}

(* There is one.                                                           *)
LEMMA OneOwner ==
    ASSUME H!Sizes, HeapInv, NEW F, Held(heap, F, DOMAIN blocks, foreign, curbrk), NEW u \in 2 .. curbrk - 1
    PROVE  \E o \in Owners(u, F) : Owners(u, F) = {o}
<1> DEFINE U == DOMAIN blocks
           Covers(a) == a <= u /\ u < a + heap.size[a]
<1>1. /\ F \cap U = {} /\ curbrk \in Nat /\ u \in Nat
      /\ \A a \in F \cup U : a \in Nat /\ heap.size[a] \in Nat
      /\ \A a, b \in F \cup U : a < b => a + heap.size[a] <= b
      /\ \A a \in F \cup U : u \in foreign => ~Covers(a)
      /\ u \in foreign \/ \E a \in F \cup U : Covers(a)
  <2>1. Tiled(F \cup U, heap.size, foreign, curbrk) /\ F \cap U = {} /\ Top \in Nat
    BY AddrsAre DEF Held
  <2>2. PICK X : X = F \cup U
    OBVIOUS
  <2>3. curbrk \in Nat /\ X \in SUBSET (2 .. curbrk - 1) /\ \A a \in X : heap.size[a] \in Nat
    BY <2>1, <2>2 DEF Tiled
  <2>4. u \in Nat /\ \A a \in X : a \in Nat /\ heap.size[a] \in Nat
    BY <2>3
  <2>5. /\ \A a, b \in X : a < b => a + heap.size[a] <= b
        /\ \A a \in X : u \in foreign => ~Covers(a)
        /\ u \in foreign \/ \E a \in X : Covers(a)
    BY <2>1, <2>2 DEF Tiled
  <2> QED BY <2>1, <2>2, <2>3, <2>4, <2>5
<1>2. \A a \in F \cup U : u \in H!Cells(a, heap.size[a]) <=> Covers(a)
  <2> SUFFICES ASSUME NEW a \in F \cup U PROVE u \in H!Cells(a, heap.size[a]) <=> Covers(a)
    OBVIOUS
  <2>1. a \in Nat /\ heap.size[a] \in Nat
    BY <1>1
  <2> QED BY <2>1, <1>1 DEF H!Cells
<1>3. \A b \in U : u \in H!Cells(b, blocks[b]) <=> Covers(b)
  BY <1>2 DEF HeapInv
<1>4. \A a, b \in F \cup U : Covers(a) /\ Covers(b) => a = b
  <2> SUFFICES ASSUME NEW a \in F \cup U, NEW b \in F \cup U, Covers(a), Covers(b), a # b PROVE FALSE
    OBVIOUS
  <2>1. a \in Nat /\ b \in Nat /\ heap.size[a] \in Nat /\ heap.size[b] \in Nat
        /\ (a < b => a + heap.size[a] <= b) /\ (b < a => b + heap.size[b] <= a)
    BY <1>1
  <2> QED BY <2>1, <1>1
<1>5. {g \in F : u \in H!Cells(g, heap.size[g])} = {g \in F : Covers(g)}
  BY <1>2
<1>6. {c \in U : u \in H!Cells(c, blocks[c])} = {c \in U : Covers(c)}
  BY <1>3
<1> HIDE DEF Covers
<1>7. CASE u \in foreign
  <2>1. {g \in F : Covers(g)} = {} /\ {c \in U : Covers(c)} = {} /\ {u} \cap foreign = {u}
    BY <1>1, <1>7
  <2>2. Owners(u, F) = {<<"foreign", u>>}
    BY <2>1, <1>5, <1>6 DEF Owners
  <2> QED BY <2>2
<1>8. CASE u \notin foreign
  <2>1. PICK a \in F \cup U : Covers(a)
    BY <1>1, <1>8
  <2>2. {u} \cap foreign = {}
    BY <1>8
  <2>3. CASE a \in F
    <3>1. {g \in F : Covers(g)} = {a} /\ {c \in U : Covers(c)} = {}
      BY <2>1, <2>3, <1>1, <1>4
    <3>2. Owners(u, F) = {<<"free", a>>}
      BY <2>2, <3>1, <1>5, <1>6 DEF Owners
    <3> QED BY <3>2
  <2>4. CASE a \in U
    <3>1. {g \in F : Covers(g)} = {} /\ {c \in U : Covers(c)} = {a}
      BY <2>1, <2>4, <1>1, <1>4
    <3>2. Owners(u, F) = {<<"used", a>>}
      BY <2>2, <3>1, <1>5, <1>6 DEF Owners
    <3> QED BY <3>2
  <2> QED BY <2>3, <2>4
<1> QED BY <1>7, <1>8

(* The list is that of the free blocks.                                     *)
LEMMA FreeBlocksAre ==
    ASSUME H!Sizes, heap \in HeapType, NEW F, Linked(heap, F)
    PROVE  H!FreeBlocks = F
<1>1. DOMAIN H!Walk(heap) = 0 .. Top + 1 /\ Walks(H!Walk(heap), heap) /\ H!base = 0
  BY WalkIs, AddrsAre
<1>2. \A k \in 0 .. Top + 1 : H!Walk(heap)[k] \in F \cup {0}
  BY <1>1, WalkStays
<1>3. \A f \in F \cup {0} : \E k \in 0 .. Top + 1 : H!Walk(heap)[k] = f
  <2>1. PICK w : w = H!Walk(heap)
    OBVIOUS
  <2>2. Walks(w, heap)
    BY <2>1, <1>1
  <2>3. \A f \in F \cup {0} : \E k \in 0 .. Top + 1 : w[k] = f
    BY <2>2, WalkAll
  <2> QED BY <2>1, <2>3
<1>4. 0 \notin F
  BY DEF Linked
<1> QED BY <1>1, <1>2, <1>3, <1>4 DEF H!FreeBlocks

(* What the invariant says of the list.                                     *)
LEMMA ListSound ==
    ASSUME H!Sizes, NEW F, Held(heap, F, DOMAIN blocks, foreign, curbrk), NEW f \in F \cup {0}
    PROVE  /\ heap.size[f] > 0 \/ f = 0
           /\ heap.ptr[f] = 0 => \A g \in F : g <= f
           /\ heap.ptr[f] # 0 => heap.ptr[f] = H!Min({g \in F : g > f})
           /\ f + heap.size[f] \notin F
<1>1. Linked(heap, F) /\ Separate(F, heap.size) /\ \A a \in F : heap.size[a] > 0
  BY DEF Held, Tiled
<1>2. F \in SUBSET Nat /\ heap.ptr[f] \in Nat /\ 0 \notin F
      /\ (heap.ptr[f] = 0 => \A g \in F : g <= f)
      /\ (heap.ptr[f] # 0 => heap.ptr[f] \in F /\ heap.ptr[f] > f /\ \A g \in F : g > f => heap.ptr[f] <= g)
  BY <1>1, After
<1>3. f + heap.size[f] \notin F
  <2>1. CASE f \in F
    BY <2>1, <1>1 DEF Separate
  <2>2. CASE f = 0
    BY <2>2, <1>1, <1>2 DEF Linked
  <2> QED BY <2>1, <2>2
<1>4. ASSUME heap.ptr[f] # 0 PROVE heap.ptr[f] = H!Min({g \in F : g > f})
  <2> DEFINE S == {g \in F : g > f}
  <2>1. PICK x \in S : x = heap.ptr[f] /\ (\A y \in S : x <= y) /\ S \in SUBSET Nat
    BY <1>2, <1>4
  <2> HIDE DEF S
  <2>2. \A z \in S : (\A y \in S : z <= y) => z = x
    <3> SUFFICES ASSUME NEW z \in S, \A y \in S : z <= y PROVE z = x
      OBVIOUS
    <3>1. z \in Nat /\ x \in Nat /\ z <= x /\ x <= z
      BY <2>1
    <3> QED BY <3>1
  <2>3. H!Min(S) = CHOOSE z \in S : \A y \in S : z <= y
    BY DEF H!Min
  <2>4. H!Min(S) = x
    BY <2>1, <2>2, <2>3
  <2> QED BY <2>1, <2>4 DEF S
<1>5. heap.size[f] > 0 \/ f = 0
  BY <1>1
<1> QED BY <1>2, <1>3, <1>4, <1>5

(* The invariant has all that the property says.                           *)
LEMMA InvSound == ASSUME H!Sizes, HeapInv PROVE H!HeapSound
<1>1. PICK F : Held(heap, F, DOMAIN blocks, foreign, curbrk)
  BY DEF HeapInv
<1>2. H!FreeBlocks = F /\ H!FirstUnit = 2 /\ H!base = 0
  BY <1>1, FreeBlocksAre, AddrsAre DEF Held
<1>3. \A u \in 2 .. curbrk - 1 : \E o \in Owners(u, F) : Owners(u, F) = {o}
  BY <1>1, OneOwner
<1>4. \A b \in DOMAIN blocks : heap.size[b] = blocks[b]
  BY DEF HeapInv
<1>5. \A f \in F \cup {0} :
         /\ heap.size[f] > 0 \/ f = 0
         /\ heap.ptr[f] = 0 => \A g \in F : g <= f
         /\ heap.ptr[f] # 0 => heap.ptr[f] = H!Min({g \in F : g > f})
         /\ f + heap.size[f] \notin F
  BY <1>1, ListSound
<1> QED BY <1>2, <1>3, <1>4, <1>5 DEF H!HeapSound, Owners

(***************************************************************************)
(* malloc(), free() of malloc.c: whatever the program asks for, frees and  *)
(* takes with sbrk() itself, each unit of the heap is in one block, free   *)
(* or handed out, and the list has the free blocks in address order, those *)
(* next to each other joined.                                              *)
(***************************************************************************)
THEOREM HeapKept == ASSUME H!Sizes PROVE H!Spec => []HeapSound
<1>1. H!Init => HeapInv
  BY HeapBegins
<1>2. HeapInv /\ [H!Next]_(H!vars) => HeapInv'
  BY HeapSteps
<1>3. HeapInv => HeapSound
  BY InvSound DEF HeapSound
<1> QED BY <1>1, <1>2, <1>3, PTL DEF H!Spec
=============================================================================
