------------------------------ MODULE Sessions ------------------------------
(***************************************************************************)
(* From boot to the shell of a user: init (etc/init.c) keeps a getty on    *)
(* each terminal of /etc/ttys, getty (etc/getty.c) reads a name and        *)
(* becomes login (bin/login.c), which reads a password, takes the          *)
(* credentials of the user (kern_prot.c, with /etc/passwd and /etc/group   *)
(* as libc reads them) and becomes a shell.  Every process but init may    *)
(* end at any time: by CTRL-c, by an error, or because it is done.         *)
(***************************************************************************)
EXTENDS Integers, FiniteSetsExt, SequencesExt

CONSTANTS
    SLOTS,      \* entries of proc[] besides that of init
    MAX_PID,    \* bound: the last process id
    NTTY,       \* terminals in /etc/ttys; the first is the console
    Passwd,     \* the entries of /etc/passwd
    Group,      \* the entries of /etc/group
    Crypt,      \* crypt(): the hash of each password
    LoginNames, \* what is typed for a name
    NGROUPS, NGROUPMEMB

VARIABLES
    at,         \* where init is
    ttys,       \* ttys[].pid of init
    pid,        \* what wait() gave to init, or the shell of single()
    t,          \* the loop of multi()
    proc,       \* the other processes: their entries in proc[] and programs
    cred,       \* the credentials of each, and what login was told
    nextpid,
    echo        \* c_lflag & ECHO of each terminal

vars == <<at, ttys, pid, t, proc, cred, nextpid, echo>>

INIT == 0
Slots == 1 .. SLOTS
Ttys == 1 .. NTTY
Passwords == DOMAIN Crypt

NoProcess ==
    [state |-> "null", pid |-> 0, parent |-> INIT, prog |-> "none", tty |-> 1, leader |-> FALSE]
Root == [uid |-> 0, gid |-> 0, groups |-> <<>>, name |-> "", key |-> "", from |-> <<>>]

(* Boot: init opened the console, and calls single() *)
Init ==
    /\ at = "single" /\ ttys = [d \in Ttys |-> -1] /\ pid = -1 /\ t = 1
    /\ proc = [p \in Slots |-> NoProcess] /\ cred = [p \in Slots |-> Root] /\ nextpid = 2
    /\ echo = [d \in Ttys |-> TRUE]

-----------------------------------------------------------------------------
(* The kernel *)

CanFork == nextpid <= MAX_PID /\ \E p \in Slots : proc[p].state = "null"
Slot == Min({p \in Slots : proc[p].state = "null"})

(* A new process, with the program that it runs and its credentials *)
Forked(parent, prog, tty, leader, who) ==
    /\ nextpid' = nextpid + 1
    /\ proc' = [proc EXCEPT ![Slot] = [state |-> "run", pid |-> nextpid, parent |-> parent, prog |-> prog,
                                       tty |-> tty, leader |-> leader]]
    /\ cred' = [cred EXCEPT ![Slot] = who]

Running(p, prog) == proc[p].state = "run" /\ proc[p].prog = prog
Zombies(parent) == {z \in Slots : proc[z].state = "zombie" /\ proc[z].parent = parent}
Childless(parent) == \A c \in Slots : proc[c].state # "null" => proc[c].parent # parent

(* exit(): the children are handed to init *)
Exited(p) ==
    [q \in Slots |->
        IF q = p THEN [proc[p] EXCEPT !.state = "zombie"]
        ELSE IF proc[q].state # "null" /\ proc[q].parent = p THEN [proc[q] EXCEPT !.parent = INIT]
        ELSE proc[q]]

(* setuid(), setgid() and setgroups() ask for uid 0 *)
Permitted(p) == cred[p].uid = 0

-----------------------------------------------------------------------------
(* init *)

initVars == <<at, ttys, pid, t>>

(* single(): a root shell on the console, and wait() until it has ended *)
Single ==
    /\ at = "single" /\ CanFork
    /\ Forked(INIT, "sh", 1, FALSE, Root)
    /\ at' = "single_wait" /\ pid' = nextpid
    /\ UNCHANGED <<ttys, t, echo>>

SingleWait ==
    /\ at = "single_wait"
    /\ \E z \in Zombies(INIT) :
        /\ proc' = [proc EXCEPT ![z] = NoProcess]
        /\ at' = IF proc[z].pid = pid THEN "wait" ELSE at
    /\ UNCHANGED <<ttys, pid, t, cred, nextpid, echo>>

(* multi(): wait(), which returns -1 when there are no children *)
Wait ==
    /\ at = "wait" /\ at' = "serve" /\ t' = 1
    /\ \/ \E z \in Zombies(INIT) : pid' = proc[z].pid /\ proc' = [proc EXCEPT ![z] = NoProcess]
       \/ Childless(INIT) /\ pid' = -1 /\ UNCHANGED proc
    /\ UNCHANGED <<ttys, cred, nextpid, echo>>

(* Mutant: any child that ends starts a getty *)
ServesAny(d) == d \in Ttys

Serves(d) == ttys[d] = pid \/ pid = -1

AtTty == at = "serve" /\ t <= NTTY

Serve ==
    /\ AtTty /\ Serves(t) /\ CanFork
    /\ Forked(INIT, "getty", t, TRUE, Root)
    /\ ttys' = [ttys EXCEPT ![t] = nextpid] /\ t' = t + 1
    /\ UNCHANGED <<at, pid, echo>>

(* fork() failed, or the terminal has its getty: the loop goes on *)
ServeNot ==
    /\ AtTty /\ ~(Serves(t) /\ CanFork)
    /\ t' = t + 1
    /\ UNCHANGED <<at, ttys, pid, proc, cred, nextpid, echo>>

Served ==
    /\ at = "serve" /\ t > NTTY /\ at' = "wait"
    /\ UNCHANGED <<ttys, pid, t, proc, cred, nextpid, echo>>

-----------------------------------------------------------------------------
(* getty and login *)

(* login for a name, started by a process that has credentials c *)
Named(c, name) == [c EXCEPT !.name = name, !.key = "", !.from = c.groups]

(* getty reads a name that is not empty and becomes login, which turns the *)
(* echo off                                                                *)
Getty(p) ==
    /\ Running(p, "getty")
    /\ proc' = [proc EXCEPT ![p].prog = "login"]
    /\ \E name \in LoginNames : cred' = [cred EXCEPT ![p] = Named(@, name)]
    /\ echo' = [echo EXCEPT ![proc[p].tty] = FALSE]
    /\ UNCHANGED <<initVars, nextpid>>

(* getpwnam(): the first entry of that name *)
Entries(name) == {e \in DOMAIN Passwd : Passwd[e].name = name}
getpwnam(name) == Passwd[Min(Entries(name))]

Matches(name, key) == Entries(name) # {} /\ Crypt[key] = getpwnam(name).passwd

(* A password is read and the echo is turned on again: login goes on when  *)
(* it is that of the user and setgid() succeeds, and otherwise exits       *)
Password(p) ==
    /\ Running(p, "login")
    /\ echo' = [echo EXCEPT ![proc[p].tty] = TRUE]
    /\ \E key \in Passwords :
        \/ /\ Matches(cred[p].name, key) /\ Permitted(p)
           /\ proc' = [proc EXCEPT ![p].prog = "setgroups"]
           /\ cred' = [cred EXCEPT ![p].key = key, ![p].gid = getpwnam(cred[p].name).gid]
        \/ /\ ~(Matches(cred[p].name, key) /\ Permitted(p))
           /\ proc' = Exited(p) /\ UNCHANGED cred
    /\ UNCHANGED <<initVars, nextpid>>

(* getgrouplist(): where /etc/group lists the user, as far as the members   *)
(* were read in.  Each such place, in the order of the file, adds the group *)
(* to the list until that is full.                                          *)
Listed(name) ==
    {l \in (DOMAIN Group) \X (1 .. NGROUPMEMB) :
        l[2] \in DOMAIN Group[l[1]].mem /\ Group[l[1]].mem[l[2]] = name}
NotAfter(x, l) == x[1] < l[1] \/ (x[1] = l[1] /\ x[2] <= l[2])
Nth(places, k) == CHOOSE l \in places : Cardinality({x \in places : NotAfter(x, l)}) = k
GroupList(places, basegid) ==
    [k \in 1 .. Min({NGROUPS, 1 + Cardinality(places)}) |->
        IF k = 1 THEN basegid ELSE Group[Nth(places, k - 1)[1]].gid]

(* Mutant: the name is not compared *)
getgrouplistAny(name, basegid) == GroupList(UNION {Listed(m) : m \in LoginNames}, basegid)

getgrouplist(name, basegid) == GroupList(Listed(name), basegid)

(* initgroups(), whose result is not looked at: parse_group() may fail     *)
Initgroups(p) ==
    /\ Running(p, "setgroups")
    /\ proc' = [proc EXCEPT ![p].prog = "setuid"]
    /\ \/ Permitted(p) /\ cred' = [cred EXCEPT ![p].groups = getgrouplist(cred[p].name, getpwnam(cred[p].name).gid)]
       \/ UNCHANGED cred
    /\ UNCHANGED <<initVars, nextpid, echo>>

(* setuid(), which cannot fail where setgid() did not, and the shell of the *)
(* user                                                                     *)
Setuid(p) ==
    /\ Running(p, "setuid") /\ Permitted(p)
    /\ proc' = [proc EXCEPT ![p].prog = "sh"]
    /\ cred' = [cred EXCEPT ![p].uid = getpwnam(cred[p].name).uid]
    /\ UNCHANGED <<initVars, nextpid, echo>>

-----------------------------------------------------------------------------
(* A shell starts login as a command, with its own credentials, and waits  *)
(* for it                                                                  *)
RunLogin(p) ==
    /\ Running(p, "sh") /\ Childless(p) /\ CanFork
    /\ \E name \in LoginNames : Forked(p, "login", proc[p].tty, FALSE, Named(cred[p], name))
    /\ echo' = [echo EXCEPT ![proc[p].tty] = FALSE]
    /\ UNCHANGED initVars

Reap(p) ==
    /\ Running(p, "sh")
    /\ \E z \in Zombies(p) : proc' = [proc EXCEPT ![z] = NoProcess]
    /\ UNCHANGED <<initVars, cred, nextpid, echo>>

Exit(p) ==
    /\ proc[p].state = "run"
    /\ proc' = Exited(p)
    /\ UNCHANGED <<initVars, cred, nextpid, echo>>

Next ==
    \/ Single \/ SingleWait \/ Wait \/ Serve \/ ServeNot \/ Served
    \/ \E p \in Slots : Getty(p) \/ Password(p) \/ Initgroups(p) \/ Setuid(p) \/ RunLogin(p) \/ Reap(p) \/ Exit(p)

Spec == Init /\ [][Next]_vars

-----------------------------------------------------------------------------
(***************************************************************************)
(* The loop of multi() starts a getty when a child ends, while orphans of  *)
(* old sessions end as well and fork() may fail: a terminal never has two  *)
(* sessions, and init knows the one it has by its pid, so that its end     *)
(* will be noticed.                                                        *)
(***************************************************************************)
OneSession ==
    \A p \in Slots : proc[p].leader => ttys[proc[p].tty] = proc[p].pid

(***************************************************************************)
(* A shell that login started is that of the user who was named: the       *)
(* password was that of the entry, uid and gid are those of the entry, and *)
(* the groups are the user's, the group of the entry first: all that list  *)
(* the user when there is room, and no other.  When /etc/group could not   *)
(* be read they are those that login was started with.                     *)
(***************************************************************************)
Identified ==
    \A p \in Slots :
        LET me == cred[p]
            entry == Passwd[CHOOSE e \in DOMAIN Passwd :
                              Passwd[e].name = me.name /\ \A d \in DOMAIN Passwd : d < e => Passwd[d].name # me.name]
            mine == {g \in Range(Group) : \E m \in DOMAIN g.mem : m <= NGROUPMEMB /\ g.mem[m] = me.name}
        IN Running(p, "sh") /\ me.name # "" =>
            /\ entry.passwd = Crypt[me.key] /\ me.uid = entry.uid /\ me.gid = entry.gid
            /\ \/ me.groups = me.from
               \/ /\ me.groups[1] = entry.gid /\ Len(me.groups) <= NGROUPS
                  /\ Range(Tail(me.groups)) \subseteq {g.gid : g \in mine}
                  /\ Len(me.groups) < NGROUPS => {g.gid : g \in mine} \subseteq Range(me.groups)
=============================================================================
