------------------------------ MODULE Lineage ------------------------------
(***************************************************************************)
(* What fork(), exit() and wait() promise, by process id: ids are given    *)
(* out once, a process becomes a zombie once, and a zombie is collected    *)
(* once, by whoever is its parent then.  init adopts what an exiting       *)
(* process leaves behind, so a process without children alone can exit.    *)
(***************************************************************************)
EXTENDS Integers

CONSTANTS Init_pid      \* the id of init

VARIABLES
    live,       \* ids of the processes that run or sleep
    zombie,     \* ids of those that exited and were not collected
    parentOf,   \* the parent of each of them but init
    last        \* the last id given out

lineage == <<live, zombie, parentOf, last>>

Pids == live \cup zombie

Init ==
    /\ live = {Init_pid}
    /\ zombie = {}
    /\ parentOf = [c \in {} |-> Init_pid]
    /\ last = Init_pid

Fork(p) ==
    /\ p \in live
    /\ last' = last + 1
    /\ live' = live \cup {last + 1}
    /\ parentOf' = [c \in DOMAIN parentOf \cup {last + 1} |->
                        IF c = last + 1 THEN p ELSE parentOf[c]]
    /\ UNCHANGED zombie

(* init adopts the children of p *)
Adopt(p) ==
    /\ p \in live \ {Init_pid}
    /\ parentOf' = [c \in DOMAIN parentOf |->
                        IF parentOf[c] = p THEN Init_pid ELSE parentOf[c]]
    /\ UNCHANGED <<live, zombie, last>>

Exit(p) ==
    /\ p \in live \ {Init_pid}
    /\ \A c \in DOMAIN parentOf : parentOf[c] # p
    /\ live' = live \ {p}
    /\ zombie' = zombie \cup {p}
    /\ UNCHANGED <<parentOf, last>>

Collect(z) ==
    /\ z \in zombie
    /\ parentOf[z] \in live
    /\ zombie' = zombie \ {z}
    /\ parentOf' = [c \in DOMAIN parentOf \ {z} |-> parentOf[c]]
    /\ UNCHANGED <<live, last>>

Next ==
    \/ \E p \in live : Fork(p) \/ Adopt(p) \/ Exit(p)
    \/ \E z \in zombie : Collect(z)

Spec == Init /\ [][Next]_lineage
=============================================================================
