------------------------------ MODULE MCShell ------------------------------
(***************************************************************************)
(* The shell that runs pipelines, together with how it reads a line, how   *)
(* it expands arguments, and the sessions that it is started in.  Shell    *)
(* takes its pipelines as they come out of CommandLine and Glob, and login *)
(* ends where the shell begins, so each behaviour exercises one of them.   *)
(***************************************************************************)
EXTENDS ShellSessions

CONSTANTS Lines, MAX_INDEX, Trees, Argvs

VARIABLES part, line, p, quote, pi, ci, cmds, cmdsCount, count, tree, args, argv, a, quoted

L == INSTANCE CommandLine
G == INSTANCE Glob

ASSUME R!ShellAssumption

typed == <<line, p, quote, pi, ci, cmds, cmdsCount, count>>
expanded == <<tree, args, argv, a, quoted>>
running == <<pc, todo, i, pipes, fds, st, job, broken>>

Upto(alphabet, n) == UNION {[1 .. k -> alphabet] : k \in 0 .. n}

(* Lines with every separator, and lines with quotes, "\" and comments *)
MCLines ==
    {l \o <<"nl">> : l \in Upto({"a", "sp", ";", "|", "<", ">"}, 6)
                           \cup Upto({"a", "sp", "quote", "escape", "#", "|"}, 5)}

Cmd(kind, in, out) == [kind |-> kind, input |-> in, output |-> out]
Prog == Cmd("program", FALSE, FALSE)
MCCmdLines ==
    { << <<Prog, Cmd("program", TRUE, TRUE)>> >>,
      << <<Prog, Cmd("program", FALSE, TRUE), Cmd("internal", FALSE, FALSE)>>, <<Prog, Cmd("exit", FALSE, FALSE)>> >> }
MCGarbage == {4}

(* All short patterns against a few names, and several arguments, in two    *)
(* directories, with a file that is empty and one that is not               *)
Dir(names) == [dir |-> TRUE, names |-> names]
File(names) == [dir |-> FALSE, names |-> names]
MCTrees ==
    { << >> @@ (<<>> :> Dir(<< <<".", "a">>, <<"a", "b">>, <<"a", "a", "b">>, <<"b">> >>))
            @@ (<< <<"b">> >> :> Dir(<< <<"a">>, <<"b", "a", "b", "a">> >>))
            @@ (<< <<"a", "b">> >> :> File(<<>>))
            @@ (<< <<"a", "a", "b">> >> :> File(<< <<"a">> >>)) }
Pats == {<<"a">>, <<"*">>, <<"?", "b">>, <<"b">>, <<"x">>}
MCArgvs ==
    LET arg(pats, q) == [argv |-> << << <<"c">> >> >> \o pats, quoted |-> <<FALSE>> \o q]
    IN {arg(<< <<pat>> >>, <<FALSE>>) : pat \in Upto({"a", "b", "*", "?"}, 4)}
       \cup {arg(<< <<<<"b">>, pat>> >>, <<FALSE>>) : pat \in Upto({"a", "b", "*", "?"}, 4)}
       \cup {arg(<< <<pat, <<"*">>>> >>, <<FALSE>>) : pat \in Upto({"a", "b", "*", "?"}, 3)}
       \cup {arg(<< <<x>>, <<y>> >>, <<q, r>>) : x \in Pats, y \in Pats, q \in BOOLEAN, r \in BOOLEAN}

(* Two users, one of them in more groups than a process may have *)
MCPasswd ==
    << [name |-> "root", passwd |-> "J4Scp1", uid |-> 0, gid |-> 0],
       [name |-> "oed", passwd |-> "JR9cp.", uid |-> 100, gid |-> 10] >>
MCGroup ==
    << [gid |-> 0, mem |-> <<"oed">>], [gid |-> 10, mem |-> <<>>],
       [gid |-> 5, mem |-> <<"root", "oed">>], [gid |-> 7, mem |-> <<"oed">>] >>
MCCrypt == "key1" :> "J4Scp1" @@ "key2" :> "JR9cp."

MCInit ==
    /\ part \in {"run", "line", "args", "login"}
    /\ Init /\ R!Init
    /\ IF part = "line" THEN L!Init ELSE line = <<>> /\ p = 1 /\ quote = FALSE /\ pi = 0 /\ ci = 0
                                         /\ cmds = <<>> /\ cmdsCount = <<>> /\ count = 0
    /\ IF part = "args" THEN G!Init ELSE tree = <<>> /\ args = <<>> /\ argv = <<>> /\ a = 2 /\ quoted = <<>>

RunNext == part = "run" /\ R!Next /\ UNCHANGED <<part, vars, typed, expanded>>
LineNext == part = "line" /\ L!Next /\ UNCHANGED <<part, vars, running, expanded>>
ArgsNext == part = "args" /\ G!Next /\ UNCHANGED <<part, vars, running, typed>>
LoginNext == part = "login" /\ Next /\ UNCHANGED <<part, running, typed, expanded>>

MCNext == RunNext \/ LineNext \/ ArgsNext \/ LoginNext
MCSpec == MCInit /\ [][MCNext]_<<part, vars, running, typed, expanded>>

(***************************************************************************)
(* CommandLine: no word of a line is lost or ends up in another command.   *)
(***************************************************************************)
WordsPlaced == part = "line" => L!WordsPlaced

(***************************************************************************)
(* Glob: every argument becomes the paths that it stands for.              *)
(***************************************************************************)
Globbed == part = "args" => G!Globbed
=============================================================================
