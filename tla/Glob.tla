-------------------------------- MODULE Glob --------------------------------
(***************************************************************************)
(* The expansion of patterns in the arguments of a command, of bin/sh.c:   *)
(* glob(), explode_pattern() and pattern_match().  A name is a sequence of *)
(* characters, a path a sequence of names, and a pattern a sequence of     *)
(* names with "*" and "?" in them.                                         *)
(***************************************************************************)
EXTENDS Integers, SequencesExt

CONSTANTS
    Trees,      \* bound: file systems: for each path that open() takes, whether it
                \* is a directory and the names that it gives when read as one
    Argvs       \* bound: arguments of a command, each with whether it is quoted

VARIABLES
    tree,       \* the files, by path
    args,       \* argv[0 ..], as it was typed
    argv,       \* argv[0 ..], as glob() leaves it
    a,          \* the next argument to look at
    quoted

vars == <<tree, args, argv, a, quoted>>

-----------------------------------------------------------------------------
(* pattern_match().  Both loops: i and j are where pattern and name are,    *)
(* mp and cp where to go on when what follows the last "*" does not match;  *)
(* mp = 0 in the first loop, which ends at the first "*".                   *)

Ch(s, i) == IF i > Len(s) THEN "0" ELSE s[i]

pattern_match(pat, s) ==
    LET fits(i, j) == Ch(pat, i) = Ch(s, j) \/ Ch(pat, i) = "?"
        loop[i \in Nat, j \in Nat, mp \in Nat, cp \in Nat] ==
          IF j > Len(s) THEN \A k \in i .. Len(pat) : pat[k] = "*"
          ELSE IF Ch(pat, i) = "*" THEN i = Len(pat) \/ loop[i + 1, j, i + 1, j + 1]
          ELSE IF fits(i, j) THEN loop[i + 1, j + 1, mp, cp]
          ELSE mp # 0 /\ loop[mp, cp, mp, cp + 1]
    IN loop[1, 1, 0, 0]

(* explode_pattern(): names that begin with "." are left out.  What it can  *)
(* open it reads as directory entries, a file that is no directory too.     *)
Names(d) == IF d \in DOMAIN tree THEN SelectSeq(tree[d].names, LAMBDA s : s[1] # ".") ELSE <<>>
Found(d, pat) == SelectSeq(Names(d), LAMBDA s : pattern_match(pat, s))

explode_pattern(pats) ==
    LET below(paths, pat) ==
          FlattenSeq([k \in DOMAIN paths |->
                        LET names == Found(paths[k], pat)
                        IN [n \in DOMAIN names |-> Append(paths[k], names[n])]])
    IN FoldLeft(below, << <<>> >>, pats)

-----------------------------------------------------------------------------
Init ==
    /\ tree \in Trees
    /\ \E as \in Argvs : args = as.argv /\ quoted = as.quoted
    /\ argv = args
    /\ a = 2        \* argv[1]

(* Mutant: quotes do not keep an argument from being expanded *)
MatchesAll(k) == explode_pattern(argv[k])
(* The paths that argument k is replaced by *)
Matches(k) == IF quoted[k] THEN <<>> ELSE explode_pattern(argv[k])

(* One round of glob(): the paths are written over the argument and those   *)
(* after it, and argv[] and quoted[] have room for more                     *)
Expand ==
    LET new == Matches(a)
        n == Len(new)
        rest == Len(argv) - (a - 1)
    IN /\ a <= Len(argv)
       /\ argv' = IF n = 0 THEN argv
                  ELSE SubSeq(argv, 1, a - 1) \o new
                       \o (IF n < rest THEN SubSeq(argv, a + n, Len(argv)) ELSE <<>>)
       /\ quoted' = quoted \o [k \in 1 .. Len(argv') - Len(quoted) |-> FALSE]
       /\ a' = a + (IF n = 0 THEN 1 ELSE n)
       /\ UNCHANGED <<tree, args>>

Next == Expand
Spec == Init /\ [][Next]_vars

-----------------------------------------------------------------------------
(* What a pattern stands for: "?" for one character, "*" for any number *)
Fits(pat, s) ==
    LET fits[i \in 1 .. Len(pat) + 1, j \in 1 .. Len(s) + 1] ==
          IF i = Len(pat) + 1 THEN j = Len(s) + 1
          ELSE IF pat[i] = "*" THEN \E k \in j .. Len(s) + 1 : fits[i + 1, k]
          ELSE j <= Len(s) /\ pat[i] \in {s[j], "?"} /\ fits[i + 1, j + 1]
    IN fits[1, 1]

Dirs == {d \in DOMAIN tree : tree[d].dir}
Paths(pats) ==
    {path \in UNION {{Append(d, tree[d].names[i]) : i \in DOMAIN tree[d].names} : d \in Dirs} :
        Len(path) = Len(pats) /\ \A i \in DOMAIN pats : path[i][1] # "." /\ Fits(pats[i], path[i])}

(* Only the last argument may stand for several names: those of any other   *)
(* would be written over the arguments after it                             *)
OnlyLastMany == \A k \in 2 .. Len(args) - 1 : Cardinality(Paths(args[k])) <= 1

(* No file is looked for in what is not a directory and has something in it *)
OnlyInDirs ==
    \A k \in 2 .. Len(args) : \A n \in 1 .. Len(args[k]) - 1 :
        \A d \in Paths(SubSeq(args[k], 1, n)) \ Dirs : d \in DOMAIN tree => tree[d].names = <<>>

(***************************************************************************)
(* glob() replaces the last argument by all the paths that it stands for   *)
(* and each other one by the path it stands for, leaves quoted arguments   *)
(* and those that stand for none as they are, and loses none; unless a     *)
(* pattern goes through a file that is no directory, the bytes of which    *)
(* explode_pattern() takes for names.                                      *)
(***************************************************************************)
Globbed ==
    a > Len(argv) /\ OnlyLastMany /\ OnlyInDirs =>
        LET same(k) == quoted[k] \/ Paths(args[k]) = {}
            n == Len(args)
        IN /\ \A k \in 1 .. n - 1 : IF k = 1 \/ same(k) THEN argv[k] = args[k] ELSE argv[k] \in Paths(args[k])
           /\ n > 1 => IF same(n) THEN argv = SubSeq(argv, 1, n - 1) \o <<args[n]>>
                       ELSE ToSet(SubSeq(argv, n, Len(argv))) = Paths(args[n])
=============================================================================
