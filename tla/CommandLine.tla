----------------------------- MODULE CommandLine -----------------------------
(***************************************************************************)
(* How bin/sh.c reads a command line: truncate_comments(), tokenize() with *)
(* parse_redir() and copy_token(), and the expansion of patterns by        *)
(* glob().  A line is a sequence of classes of characters ("a" stands for  *)
(* every character without a meaning of its own) and ends with the         *)
(* newline that fgets() leaves there.  A word is the sequence of the       *)
(* positions in the line that it is made of.                               *)
(***************************************************************************)
EXTENDS Integers, FiniteSetsExt, SequencesExt

CONSTANTS
    Lines,      \* bound: the lines that are typed
    MAX_INDEX   \* bound: the last pipeline, and the last command of one

VARIABLES
    line,           \* cmdline
    p, quote,       \* where tokenize() is, and whether within quotes
    pi, ci,         \* pipe_index and cmd_index
    cmds,           \* pipelines[].cmds[]
    cmdsCount,      \* pipelines[].cmds_count
    count           \* pipelines_count

index == <<pi, ci>>
counts == <<cmdsCount, count>>
vars == <<line, p, quote, index, cmds, counts>>

Indexes == 0 .. MAX_INDEX
Space == {"sp", "nl"}
Meta == {";", "|", "<", ">"}

-----------------------------------------------------------------------------
(* truncate_comments() *)
Truncated(l) ==
    LET quoted(i) == Cardinality({j \in 1 .. i : /\ l[j] = "quote"
                                                 /\ j = 1 \/ l[j - 1] # "escape"}) % 2 = 1
        comments == {i \in DOMAIN l : l[i] = "#" /\ ~quoted(i) /\ (i = 1 \/ l[i - 1] # "escape")}
    IN IF comments = {} THEN l ELSE SubSeq(l, 1, Min(comments) - 1)

(* reset_pipelines(), for a line that was read *)
NoCommand == [argv |-> <<>>, quoted |-> <<>>, input |-> <<>>, output |-> <<>>, append |-> FALSE]

Init ==
    /\ line \in {Truncated(l) : l \in Lines}
    /\ p = 1 /\ quote = FALSE
    /\ pi = 0 /\ ci = 0
    /\ cmds = [i \in Indexes |-> [c \in Indexes |-> NoCommand]]
    /\ cmdsCount = [i \in Indexes |-> 0] /\ count = 0

-----------------------------------------------------------------------------
End == Len(line) + 1            \* where the terminating 0 is
At(i) == IF i >= End THEN "0" ELSE line[i]
FirstFrom(i, Stop(_)) == Min({j \in i .. End : j = End \/ Stop(j)})

(* The inner loop of tokenize(): a character after "\" is not looked at.    *)
(* The loop never sees a "\" before the 0, as the newline or a comment      *)
(* follows.                                                                 *)
Scan[i \in Nat, q \in BOOLEAN] ==
    IF i >= End \/ At(i) \in Meta \/ (At(i) \in Space /\ ~q) THEN <<i, q>>
    ELSE IF At(i) = "escape" THEN Scan[i + 2, q]
    ELSE Scan[i + 1, IF At(i) = "quote" THEN ~q ELSE q]

(* copy_token(): what it leaves of the characters i .. to - 1 *)
Copied[i \in Nat, to \in Nat, q \in BOOLEAN] ==
    IF i >= to THEN <<>>
    ELSE IF At(i) = "quote" THEN Copied[i + 1, to, ~q]
    ELSE IF At(i) = "escape" /\ i + 1 < to /\ ~q /\ At(i + 1) \in {"sp", "escape", "quote"}
         THEN <<i + 1>> \o Copied[i + 2, to, q]
    ELSE <<i>> \o Copied[i + 1, to, q]

(* parse_redir(), for the redirections from position i0 on: the command and *)
(* where they end.  A newline does not end the name of a file.              *)
Redirs(i0, cmd0) ==
    LET one(i, cmd) ==
          LET appends == At(i + 1) = ">"
              from == FirstFrom(i + (IF appends THEN 2 ELSE 1), LAMBDA j : At(j) # "sp")
              to == FirstFrom(from, LAMBDA j : At(j) \in Meta \cup {"sp"})
              name == [k \in 1 .. to - from |-> from + k - 1]
          IN [at |-> to,
              cmd |-> IF At(i) = "<" /\ ~appends
                      THEN [cmd EXCEPT !.input = name]
                      ELSE [cmd EXCEPT !.output = name, !.append = @ \/ appends]]
        again(r, k) == IF At(r.at) \in {"<", ">"} THEN one(r.at, r.cmd) ELSE r
    IN FoldLeft(again, one(i0, cmd0), [k \in 1 .. Len(line) |-> k])

-----------------------------------------------------------------------------
(* tokenize(): a round of its loop, for each of the characters that may     *)
(* follow a word                                                            *)

Start == FirstFrom(p, LAMBDA j : At(j) \notin Space)
Stop == Scan[Start, quote][1]
HasWord == Stop # Start
(* Mutant: only the first command of a pipeline counts *)
FirstWordOfLine == HasWord /\ ci = 0 /\ cmds[pi][ci].argv = <<>>
FirstWord == HasWord /\ cmds[pi][ci].argv = <<>>

WithWord ==
    IF ~HasWord THEN cmds[pi][ci]
    ELSE [cmds[pi][ci] EXCEPT !.argv = Append(@, Copied[Start, Stop, FALSE]),
                              !.quoted = Append(@, At(Start) = "quote")]
CmdsCounted == IF FirstWord THEN cmdsCount[pi] + 1 ELSE cmdsCount[pi]

(* What every round does with a word, if there is one *)
Token(sep) ==
    /\ p < End /\ At(Stop) \in sep
    /\ quote' = Scan[Start, quote][2]
    /\ count' = IF FirstWord /\ ci = 0 THEN count + 1 ELSE count
    /\ UNCHANGED line

(* A space, or the end of the line *)
Word ==
    /\ Token(Space \cup {"0"})
    /\ cmds' = [cmds EXCEPT ![pi][ci] = WithWord]
    /\ cmdsCount' = [cmdsCount EXCEPT ![pi] = CmdsCounted]
    /\ p' = Min({Stop + 1, End})
    /\ UNCHANGED <<pi, ci>>

Pipe ==
    /\ Token({"|"}) /\ ci < MAX_INDEX
    /\ cmds' = [cmds EXCEPT ![pi][ci] = WithWord]
    /\ cmdsCount' = [cmdsCount EXCEPT ![pi] = CmdsCounted]
    /\ ci' = ci + 1
    /\ p' = Stop + 1
    /\ UNCHANGED pi

Semicolon ==
    /\ Token({";"}) /\ pi < MAX_INDEX
    /\ cmds' = [cmds EXCEPT ![pi][ci] = WithWord]
    /\ cmdsCount' = [cmdsCount EXCEPT ![pi] = ci + 1]
    /\ pi' = pi + 1 /\ ci' = 0
    /\ p' = Stop + 1

(* The character that ends the redirections is taken, whatever it is *)
Redirection ==
    LET r == Redirs(Stop, WithWord)
    IN /\ Token({"<", ">"})
       /\ cmds' = [cmds EXCEPT ![pi][ci] = r.cmd]
       /\ cmdsCount' = [cmdsCount EXCEPT ![pi] = CmdsCounted]
       /\ p' = Min({r.at + 1, End})
       /\ UNCHANGED <<pi, ci>>

Next == Word \/ Pipe \/ Semicolon \/ Redirection

Spec == Init /\ [][Next]_vars

-----------------------------------------------------------------------------
(* A line as its user reads it.  "\" takes the meaning of the character     *)
(* after it away, quotes that of a space.                                   *)

Escaped(i) == \E n \in 1 .. i - 1 : /\ n % 2 = 1 /\ \A j \in i - n .. i - 1 : line[j] = "escape"
                                    /\ i - n = 1 \/ line[i - n - 1] # "escape"
Quotes(i) == Cardinality({j \in 1 .. i - 1 : line[j] = "quote" /\ ~Escaped(j)})
Quoted(i) == Quotes(i) % 2 = 1
Sep(i, cs) == line[i] \in cs /\ ~Escaped(i)
Blank(i) == Sep(i, Space) /\ ~Quoted(i)

Letters == {x \in DOMAIN line : line[x] = "a"}
LastSep(x, cs) == Max({0} \cup {i \in 1 .. x - 1 : Sep(i, cs)})
PipelineOf(x) == Cardinality({i \in 1 .. x - 1 : Sep(i, {";"})})
CommandOf(x) == Cardinality({i \in LastSep(x, {";"}) + 1 .. x - 1 : Sep(i, {"|"})})

(* x is in the name of a file *)
IsTarget(x) ==
    LET r == LastSep(x, Meta)
    IN /\ r > 0 /\ line[r] \in {"<", ">"}
       /\ \A b \in r + 1 .. x - 1 : Blank(b) => \A j \in r + 1 .. b : Blank(j)
WordOf(x) ==
    {y \in Letters : \A i \in Min({x, y}) .. Max({x, y}) : ~Blank(i) /\ ~Sep(i, Meta)}

(* The newline, for the word that ends the line *)
NewlineAfter(x) == {n \in DOMAIN line : line[n] = "nl" /\ n - 1 \in WordOf(x)}

(* Lines that sh.c reads as they are meant: each command has a word, a name *)
(* of a file is followed by a space and has no quotes, a command has one    *)
(* input and one output at most, and no separator is quoted                 *)
WellFormed ==
    /\ \A s \in DOMAIN line : Sep(s, Meta) => ~Quoted(s)
    /\ \A s \in DOMAIN line : Sep(s, {";", "|"}) =>
         LET from == LastSep(s, {";", "|"})
             r == LastSep(s, Meta)
         IN /\ \E x \in Letters : x \in from + 1 .. s - 1 /\ ~IsTarget(x)
            /\ r > from => \E b \in r + 2 .. s - 1 : Blank(b) /\ ~Blank(b - 1)
    /\ \A x \in Letters : \E y \in Letters : ~IsTarget(y) /\ PipelineOf(y) = PipelineOf(x)
                                           /\ CommandOf(y) = CommandOf(x)
    /\ \A r \in DOMAIN line : Sep(r, {"<", ">"}) =>
         /\ \A q \in r + 1 .. Len(line) : line[q] \in {"quote", "escape"} =>
               \E b \in r + 2 .. q - 1 : Blank(b) /\ ~Blank(b - 1)
         /\ \A s \in r + 1 .. Len(line) : Sep(s, {line[r]}) =>
               s = r + 1 \/ LastSep(s, {";", "|"}) > r

(***************************************************************************)
(* tokenize() puts every word of a well-formed line where it belongs: in   *)
(* the command between its separators, after the words before it, or as    *)
(* the name of the file it reads or writes; no word loses a letter or gets *)
(* one of another; and the counts reach every command.  The name of a file *)
(* is exactly its word, unless it ends the line: parse_redir() does not    *)
(* stop at the newline, so that "> a" opens a file whose name ends in it.  *)
(***************************************************************************)
WordsPlaced ==
    p >= End /\ WellFormed =>
        \A x \in Letters :
            LET c == cmds[PipelineOf(x)][CommandOf(x)]
                kept(word) == ToSet(word) \cap Letters
                holds == {k \in DOMAIN c.argv : x \in kept(c.argv[k])}
            IN /\ PipelineOf(x) < count /\ CommandOf(x) < cmdsCount[PipelineOf(x)]
               /\ IF IsTarget(x)
                  THEN /\ holds = {}
                       /\ ToSet(IF line[LastSep(x, Meta)] = "<" THEN c.input ELSE c.output)
                            = WordOf(x) \cup NewlineAfter(x)
                  ELSE /\ Cardinality(holds) = 1
                       /\ \A k \in holds :
                            /\ kept(c.argv[k]) = WordOf(x)
                            /\ \A j \in 1 .. k - 1 : \A y \in ToSet(c.argv[j]) : y < x
=============================================================================
