------------------------------- MODULE Shell -------------------------------
(***************************************************************************)
(* The shell of bin/sh.c: the loop of main() over the pipelines of a line, *)
(* exec_pipeline() with the processes that it starts and the descriptors   *)
(* of each, execvp() of libc, and wait_for_children().  The processes run  *)
(* concurrently, and CTRL-c may come at any time.  What the processes do   *)
(* with their pipes is module Pipe.                                        *)
(***************************************************************************)
EXTENDS Integers, FiniteSetsExt, SequencesExt

CONSTANTS
    NPROC,      \* bound: processes that the shell may have at a time
    NFILE,      \* descriptors of a process
    CmdLines,   \* bound: the lines that are typed, as sequences of pipelines
    Garbage     \* bound: what an element of pipes[] that was never set may hold

Commands == [kind : {"program", "internal", "exit"}, input : BOOLEAN, output : BOOLEAN]

(* What the constants must be; -1 stands for all that is no descriptor *)
ShellAssumption ==
    /\ NPROC \in Nat \ {0} /\ NFILE \in Nat /\ NFILE >= 3
    /\ CmdLines \subseteq Seq(Seq(Commands))
    /\ \A l \in CmdLines : l # <<>> /\ \A k \in DOMAIN l : l[k] # <<>>
    /\ Garbage \subseteq -1 .. NFILE - 1

Sh == 0                             \* the shell
Children == 1 .. NPROC
Fds == 0 .. NFILE - 1
Std == 0 .. 2

(* What a descriptor refers to: an end of a pipe, a file, the terminal *)
None == <<"none", 0>>
Tty == <<"tty", 0>>
Input == <<"input", 0>>             \* the file of a "<"
Output == <<"output", 0>>           \* the file of a ">"
R(k) == <<"read", k>>
W(k) == <<"write", k>>

VARIABLES
    pc,         \* where the shell is
    todo,       \* the pipelines of the line that are not done
    i,          \* the next command of exec_pipeline()
    pipes,      \* the pipes of the pipeline, each with its descriptors
    fds,        \* the descriptors of each process
    st,         \* how far a child is
    job,        \* what a child knows of its pipeline
    broken      \* history: a pipe() of the shell has failed

vars == <<pc, todo, i, pipes, fds, st, job, broken>>

NoFds == [f \in Fds |-> None]
Terminal == [f \in Fds |-> IF f \in Std THEN Tty ELSE None]
NoJob == [cmd |-> 0, n |-> 0, pipes |-> <<>>, input |-> FALSE, output |-> FALSE]

Init ==
    /\ pc = "prompt" /\ todo = <<>> /\ i = 0 /\ pipes = <<>>
    /\ fds = [c \in {Sh} \cup Children |-> IF c = Sh THEN Terminal ELSE NoFds]
    /\ st = [c \in Children |-> "free"]
    /\ job = [c \in Children |-> NoJob]
    /\ broken = FALSE

-----------------------------------------------------------------------------
(* The calls on descriptors, for a table of descriptors t; dup2() and       *)
(* close() refuse what is not open                                          *)

Unused(t) == {f \in Fds : t[f] = None}
Lowest(t) == Min(Unused(t))
Open(t, file) == [t EXCEPT ![Lowest(t)] = file]
Dup2(t, old, new) == IF old = -1 \/ t[old] = None THEN t ELSE [t EXCEPT ![new] = t[old]]
Close(t, which) == [f \in Fds |-> IF f \in which THEN None ELSE t[f]]

Ends(ps) == UNION {{ps[k].r, ps[k].w} : k \in DOMAIN ps}
Free == {c \in Children : st[c] = "free"}
Zombies == {c \in Children : st[c] = "zombie"}
PipesInUse == {k \in 1 .. NFILE : \E c \in DOMAIN fds : \E f \in Fds : fds[c][f] \in {R(k), W(k)}}

-----------------------------------------------------------------------------
(* fgets(), which goes on after a signal *)
ReadLine(l) ==
    /\ pc = "prompt" /\ fds[Sh][0] # None
    /\ todo' = l /\ pc' = "pipe"
    /\ UNCHANGED <<i, pipes, fds, st, job, broken>>

(* exit, or the end of the input: all descriptors are closed *)
Exit ==
    /\ pc' = "exited"
    /\ fds' = [fds EXCEPT ![Sh] = NoFds]
    /\ UNCHANGED <<todo, i, pipes, st, job, broken>>

Eof == pc = "prompt" /\ Exit

AtPipe == pc = "pipe" /\ Len(pipes) < Len(Head(todo)) - 1

(* One pipe() of the first loop of exec_pipeline() *)
MakePipe ==
    LET id == Min(1 .. NFILE \ PipesInUse)
        t == fds[Sh]
        r == Lowest(t)
        w == Lowest(Open(t, R(id)))
    IN /\ AtPipe /\ 1 .. NFILE \ PipesInUse # {}
       /\ \E f, g \in Unused(t) : f # g
       /\ fds' = [fds EXCEPT ![Sh] = Open(Open(t, R(id)), W(id))]
       /\ pipes' = Append(pipes, [id |-> id, r |-> r, w |-> w])
       /\ UNCHANGED <<pc, todo, i, st, job, broken>>

(* pipe() fails, for want of a descriptor or because the tables of the       *)
(* kernel are full: nobody looks, and pipes[] has what was on the stack     *)
PipeFails ==
    /\ AtPipe
    /\ \E r, w \in Garbage : pipes' = Append(pipes, [id |-> 0, r |-> r, w |-> w])
    /\ broken' = TRUE
    /\ UNCHANGED <<pc, todo, i, fds, st, job>>

PipesMade ==
    /\ pc = "pipe" /\ Len(pipes) = Len(Head(todo)) - 1
    /\ pc' = "fork" /\ i' = 1
    /\ UNCHANGED <<todo, pipes, fds, st, job, broken>>

Command == Head(todo)[i]
AtCommand == pc = "fork" /\ i <= Len(Head(todo))

(* internal_cmd(): exit ends the shell, the others run in it *)
Internal ==
    /\ AtCommand /\ Command.kind = "internal"
    /\ i' = i + 1
    /\ UNCHANGED <<pc, todo, pipes, fds, st, job, broken>>

InternalExit == AtCommand /\ Command.kind = "exit" /\ Exit

Fork ==
    /\ AtCommand /\ Command.kind = "program" /\ Free # {}
    /\ LET c == Min(Free)
       IN /\ st' = [st EXCEPT ![c] = "connect"]
          /\ fds' = [fds EXCEPT ![c] = fds[Sh]]
          /\ job' = [job EXCEPT ![c] =
                       [cmd |-> i, n |-> Len(Head(todo)), pipes |-> pipes,
                        input |-> Command.input, output |-> Command.output]]
    /\ i' = i + 1
    /\ UNCHANGED <<pc, todo, pipes, broken>>

(* fork() returns -1, which nobody looks at *)
ForkFails ==
    /\ AtCommand /\ Command.kind = "program"
    /\ i' = i + 1
    /\ UNCHANGED <<pc, todo, pipes, fds, st, job, broken>>

ClosePipes ==
    /\ pc = "fork" /\ i > Len(Head(todo))
    /\ fds' = [fds EXCEPT ![Sh] = Close(@, Ends(pipes))]
    /\ pipes' = <<>>
    /\ pc' = "wait"
    /\ UNCHANGED <<todo, i, st, job, broken>>

-----------------------------------------------------------------------------
(* The child in exec_pipeline() *)

Connect(c) ==
    LET j == job[c]
        in == IF j.cmd > 1 THEN Dup2(fds[c], j.pipes[j.cmd - 1].r, 0) ELSE fds[c]
        out == IF j.cmd < j.n THEN Dup2(in, j.pipes[j.cmd].w, 1) ELSE in
    IN /\ st[c] = "connect"
       /\ fds' = [fds EXCEPT ![c] = out]
       /\ st' = [st EXCEPT ![c] = "redirect"]
       /\ UNCHANGED <<pc, todo, i, pipes, job, broken>>

(* open(), dup2() and close() *)
Onto(t, file, std) ==
    LET fd == Lowest(t) IN Close(Dup2(Open(t, file), fd, std), {fd})

(* The redirections.  An open() that fails, as it must when all descriptors *)
(* are in use, leaves -1, which dup2() refuses.  What job says of them      *)
(* afterwards is what the child got.                                        *)
Redirect(c, failed) ==
    LET j == job[c]
        in == IF j.input /\ 0 \notin failed THEN Onto(fds[c], Input, 0) ELSE fds[c]
        out == IF j.output /\ 1 \notin failed THEN Onto(in, Output, 1) ELSE in
    IN /\ st[c] = "redirect"
       /\ (0 \in failed => j.input) /\ (1 \in failed => j.output)
       /\ j.input /\ Unused(fds[c]) = {} => 0 \in failed
       /\ j.output /\ Unused(in) = {} => 1 \in failed
       /\ fds' = [fds EXCEPT ![c] = out]
       /\ job' = [job EXCEPT ![c].input = @ /\ 0 \notin failed, ![c].output = @ /\ 1 \notin failed]
       /\ st' = [st EXCEPT ![c] = "exec"]
       /\ UNCHANGED <<pc, todo, i, pipes, broken>>

(* Mutant: a child closes only the ends that it uses *)
ChildClosesOwn(j) ==
    {j.pipes[k].r : k \in DOMAIN j.pipes \cap {j.cmd - 1}} \cup {j.pipes[k].w : k \in DOMAIN j.pipes \cap {j.cmd}}
ChildCloses(j) == Ends(j.pipes)

Exec(c) ==
    /\ st[c] = "exec"
    /\ fds' = [fds EXCEPT ![c] = Close(@, ChildCloses(job[c]))]
    /\ st' = [st EXCEPT ![c] = "run"]
    /\ UNCHANGED <<pc, todo, i, pipes, job, broken>>

(* The end of a program, or of execvp() that found none: exit() *)
Dies(cs) ==
    /\ st' = [c \in Children |-> IF c \in cs THEN "zombie" ELSE st[c]]
    /\ fds' = [c \in DOMAIN fds |-> IF c \in cs THEN NoFds ELSE fds[c]]
    /\ job' = [c \in Children |-> IF c \in cs THEN NoJob ELSE job[c]]

Finish(c) ==
    /\ st[c] \in {"exec", "run"}
    /\ Dies({c})
    /\ UNCHANGED <<pc, todo, i, pipes, broken>>

-----------------------------------------------------------------------------
(* wait_for_children() *)

Reap(c) ==
    /\ pc = "wait" /\ st[c] = "zombie"
    /\ st' = [st EXCEPT ![c] = "free"]
    /\ UNCHANGED <<pc, todo, i, pipes, fds, job, broken>>

(* The next pipeline, or the next line *)
NextPipeline ==
    /\ todo' = Tail(todo) /\ i' = 0
    /\ pc' = IF Tail(todo) = <<>> THEN "prompt" ELSE "pipe"

(* wait() returns ECHILD *)
NoChildren == Free = Children

Waited ==
    /\ pc = "wait" /\ NoChildren
    /\ NextPipeline
    /\ UNCHANGED <<pipes, fds, st, job, broken>>

(* CTRL-c: the programs end.  A child that has not come to exec() still has *)
(* the handler of the shell.  wait() returns EINTR, and the loop ends,      *)
(* unless there is a child to collect.                                      *)
Interrupt(ends) ==
    LET running == {c \in Children : st[c] = "run"}
    IN /\ running # {} \/ ends
       /\ pc # "exited"
       /\ ends => pc = "wait" /\ Zombies = {} /\ ~NoChildren
       /\ Dies(running)
       /\ IF ends THEN NextPipeline ELSE UNCHANGED <<pc, todo, i>>
       /\ UNCHANGED <<pipes, broken>>

Next ==
    \/ \E l \in CmdLines : ReadLine(l)
    \/ Eof \/ MakePipe \/ PipeFails \/ PipesMade \/ Internal \/ InternalExit \/ Fork \/ ForkFails \/ ClosePipes
    \/ \E c \in Children :
         \/ Connect(c) \/ Exec(c) \/ Finish(c) \/ Reap(c)
         \/ \E failed \in SUBSET {0, 1} : Redirect(c, failed)
    \/ Waited
    \/ \E ends \in BOOLEAN : Interrupt(ends)

Spec == Init /\ [][Next]_vars

-----------------------------------------------------------------------------
(***************************************************************************)
(* A program runs with its input from the pipe of the program before it,   *)
(* its output to the one after it, or the files it was redirected to, the  *)
(* terminal otherwise, and with no other end of a pipe: a stray end would  *)
(* keep a reader from its end of file.  The shell keeps none either, when  *)
(* it waits or reads the next line.  A fork() or an open() may fail, and   *)
(* CTRL-c may come at any time; but after a pipe() that failed, which      *)
(* exec_pipeline() does not notice, nothing is said: it connects and       *)
(* closes what the elements of pipes[] happen to hold.                     *)
(***************************************************************************)
PipesWired ==
    \/ broken
    \/ /\ pc \in {"wait", "prompt"} => fds[Sh] = Terminal
       /\ \A c \in Children : st[c] = "run" =>
            LET j == job[c]
                in == IF j.input THEN Input ELSE IF j.cmd > 1 THEN R(j.pipes[j.cmd - 1].id) ELSE Tty
                out == IF j.output THEN Output ELSE IF j.cmd < j.n THEN W(j.pipes[j.cmd].id) ELSE Tty
            IN fds[c] = [Terminal EXCEPT ![0] = in, ![1] = out]
=============================================================================
