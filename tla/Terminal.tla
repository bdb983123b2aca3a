------------------------------ MODULE Terminal ------------------------------
(***************************************************************************)
(* A terminal of kern/tty.c: the input ring that tty_input() fills from    *)
(* the interrupt of the keyboard or of the serial line, the line editing   *)
(* of tty_read(), echo, and CTRL-c.  Several processes may read the same   *)
(* terminal.  What tty_write() shows of the line that is being typed is    *)
(* kept, from the start of its row to the cursor, for a line that fits in  *)
(* a row; the screen itself is module Screen.                              *)
(***************************************************************************)
EXTENDS Integers, FiniteSetsExt, SequencesExt

CONSTANTS
    Procs,
    Pgrp,       \* the process group of each process
    Counts,     \* bound: how many bytes the processes ask for in a read, 0 for none
    RX,         \* size of rx_buf (256)
    VGA_WIDTH,  \* columns of a row
    Prompt,     \* what is in the row before the line begins
    Lflags      \* bound: what programs set c_lflag to

(* What the constants must be *)
TerminalAssumption ==
    /\ Pgrp \in [Procs -> Nat \ {0}] /\ Counts \subseteq [Procs -> Nat]
    /\ RX \in Nat /\ RX > 1
    /\ Prompt \in Seq({"$"})
    /\ \A f \in Lflags : f \subseteq {"ICANON", "ECHO"}

Input == {"a", "sp", "tab", "esc", "lf", "cr", "bs", "^W", "^U", "^L", "^D"}

VARIABLES
    rx,         \* rx_buf, from rx_tail to rx_head
    lflag,      \* termios.c_lflag
    tpgrp,      \* tty->pgrp
    pc,         \* user, read, spaces, word or line (it runs), sleep, woken or exited
    dest,       \* what a read has so far: dest[0 .. i - 1]
    cut,        \* CTRL-w: dest[i], what was taken away last
    erased,     \* CTRL-u: how many of its characters are erased
    ended,      \* the last character it took is a newline
    count,      \* how many bytes it reads at once
    pending,    \* processes with SIGINT pending
    shown,      \* the row on the screen up to the cursor, while echo is on
    tabbed,     \* history: a tab was typed since the line began
    zero        \* the character after which the last read() returned 0, if it did

vars == <<rx, lflag, tpgrp, pc, dest, cut, erased, ended, count, pending, shown, tabbed, zero>>

Init ==
    /\ rx = <<>> /\ lflag = {"ICANON", "ECHO"} /\ tpgrp = 0
    /\ pc = [p \in Procs |-> "user"]
    /\ dest = [p \in Procs |-> <<>>]
    /\ cut = [p \in Procs |-> "none"] /\ erased = [p \in Procs |-> 0]
    /\ ended = [p \in Procs |-> FALSE]
    /\ count \in Counts
    /\ pending = {}
    /\ shown = [p \in Procs |-> Prompt]
    /\ tabbed = [p \in Procs |-> FALSE]
    /\ zero = "none"

Editing == {"spaces", "word", "line"}       \* the loops of CTRL-w and CTRL-u
InKernel == \E p \in Procs : pc[p] \in {"read"} \cup Editing
Is(flag) == flag \in lflag

-----------------------------------------------------------------------------
(* Interrupts.  A ring that is full loses its oldest character.             *)

Pushed(c) == IF Len(rx) = RX - 1 THEN Tail(rx) \o <<c>> ELSE rx \o <<c>>

(* Mutant: only one of the readers is woken up *)
WokenOne(ps) == [p \in Procs |-> IF p \in ps /\ \A q \in ps : p <= q THEN "woken" ELSE pc[p]]
Woken(ps) == [p \in Procs |-> IF p \in ps THEN "woken" ELSE pc[p]]
Sleepers == {p \in Procs : pc[p] = "sleep"}

TtyInput(c) ==
    /\ ~InKernel
    /\ rx' = Pushed(c)
    /\ pc' = Woken(Sleepers)
    /\ UNCHANGED <<lflag, tpgrp, count, dest, cut, erased, ended, pending, shown, tabbed, zero>>

(* CTRL-c: SIGINT for the group of the last reader *)
TtyInterrupt ==
    LET group == {p \in Procs : pc[p] # "exited" /\ Pgrp[p] = tpgrp}
    IN /\ ~InKernel /\ tpgrp > 1 /\ ~(group \subseteq pending)
       /\ pending' = pending \cup group
       /\ pc' = Woken(Sleepers \cap group)          \* sched() runs them
       /\ UNCHANGED <<rx, lflag, tpgrp, count, dest, cut, erased, ended, shown, tabbed, zero>>

-----------------------------------------------------------------------------
(* What tty_write() does to the row, while it is known what is there.       *)
(* A tab goes to a column that 4 divides, at least 5 further on.  What the  *)
(* console makes of an escape sequence is not looked at, nor a line that    *)
(* goes on in the next row.                                                 *)

Unknown == <<"?">>

(* "\b \b" *)
Erase(s) == IF s = <<>> THEN s ELSE Front(s)

Tab(s) == s \o [i \in 1 .. ((Len(s) + 8) \div 4) * 4 - Len(s) |-> "gap"]

Put(s, c) ==
    LET row == IF c = "tab" THEN Tab(s) ELSE Append(s, c)
    IN IF c = "esc" \/ Len(row) > VGA_WIDTH THEN Unknown ELSE row

(* if (tty->termios.c_lflag & ECHO) tty_write(): the row after it *)
Echo(p, row) == IF Is("ECHO") /\ shown[p] # Unknown THEN row ELSE Unknown

-----------------------------------------------------------------------------
(* tty_read() *)

Read(p) ==
    /\ ~InKernel /\ pc[p] = "user" /\ count[p] > 0
    /\ pc' = [pc EXCEPT ![p] = "read"]
    /\ tpgrp' = Pgrp[p]
    /\ dest' = [dest EXCEPT ![p] = <<>>]
    /\ ended' = [ended EXCEPT ![p] = FALSE]
    /\ shown' = [shown EXCEPT ![p] = Prompt]
    /\ tabbed' = [tabbed EXCEPT ![p] = FALSE]
    /\ UNCHANGED <<rx, lflag, count, cut, erased, pending, zero>>

(* The end of the system call: a pending signal is taken, by a handler or   *)
(* by the end of the process                                                *)
Return(p, n, c) ==
    /\ zero' = IF n = 0 THEN c ELSE "none"
    /\ dest' = [dest EXCEPT ![p] = <<>>]
    /\ ended' = [ended EXCEPT ![p] = FALSE]
    /\ shown' = [shown EXCEPT ![p] = Prompt]
    /\ tabbed' = [tabbed EXCEPT ![p] = FALSE]
    /\ pending' = pending \ {p}
    /\ pc' \in {[pc EXCEPT ![p] = "user"]}
               \cup (IF p \in pending THEN {[pc EXCEPT ![p] = "exited"]} ELSE {})
    /\ UNCHANGED <<lflag, tpgrp, count, cut, erased>>

AtLoop(p) == pc[p] = "read"
More(p) == Len(dest[p]) < count[p] /\ ~ended[p]

(* Not ICANON: one character *)
ReadRaw(p) ==
    /\ AtLoop(p) /\ More(p) /\ rx # <<>> /\ ~Is("ICANON")
    /\ rx' = Tail(rx)
    /\ Return(p, Len(dest[p]) + 1, Head(rx))

(* ICANON: the next character is one of these *)
Take(p, chars) ==
    /\ AtLoop(p) /\ More(p) /\ rx # <<>> /\ Is("ICANON")
    /\ Head(rx) \in chars
    /\ rx' = Tail(rx)

(* CTRL-l at the start of a line leaves the loop, CTRL-d the function *)
ReadEnds(p) ==
    /\ Take(p, {"^D"} \cup (IF dest[p] = <<>> THEN {"^L"} ELSE {}))
    /\ Return(p, 0, Head(rx))

(* "\b \b" and --i, with what dest[i] is then *)
EraseLast(p) ==
    /\ dest' = [dest EXCEPT ![p] = Front(@)]
    /\ shown' = [shown EXCEPT ![p] = Echo(p, Erase(@))]

(* Backspace, and CTRL-l within a line, which does nothing *)
ReadErase(p) ==
    /\ Take(p, {"bs"} \cup (IF dest[p] # <<>> THEN {"^L"} ELSE {}))
    /\ IF Head(rx) = "bs" /\ dest[p] # <<>>
       THEN EraseLast(p)
       ELSE UNCHANGED <<dest, shown>>
    /\ UNCHANGED <<lflag, tpgrp, count, pc, cut, erased, ended, pending, tabbed, zero>>

(* CTRL-w: kill word *)
KillWord(p) ==
    /\ Take(p, {"^W"})
    /\ IF dest[p] # <<>>
       THEN EraseLast(p) /\ cut' = [cut EXCEPT ![p] = Last(dest[p])]
       ELSE UNCHANGED <<dest, shown, cut>>
    /\ pc' = [pc EXCEPT ![p] = "spaces"]
    /\ UNCHANGED <<lflag, tpgrp, count, erased, ended, pending, tabbed, zero>>

(* Its loops look at dest[i], the character that was just taken away *)
(* Mutant: the first loop does not show what it does *)
KillSpacesUnseen(p) ==
    /\ pc[p] = "spaces" /\ dest[p] # <<>> /\ cut[p] = "sp"
    /\ dest' = [dest EXCEPT ![p] = Front(@)] /\ cut' = [cut EXCEPT ![p] = Last(dest[p])]
    /\ UNCHANGED <<rx, lflag, tpgrp, count, pc, erased, ended, pending, shown, tabbed, zero>>
KillSpaces(p) ==
    /\ pc[p] = "spaces" /\ dest[p] # <<>> /\ cut[p] = "sp"
    /\ EraseLast(p) /\ cut' = [cut EXCEPT ![p] = Last(dest[p])]
    /\ UNCHANGED <<rx, lflag, tpgrp, count, pc, erased, ended, pending, tabbed, zero>>

SpacesKilled(p) ==
    /\ pc[p] = "spaces" /\ ~(dest[p] # <<>> /\ cut[p] = "sp")
    /\ pc' = [pc EXCEPT ![p] = "word"]
    /\ UNCHANGED <<rx, lflag, tpgrp, count, dest, cut, erased, ended, pending, shown, tabbed, zero>>

KillLetters(p) ==
    /\ pc[p] = "word" /\ dest[p] # <<>> /\ cut[p] # "sp"
    /\ EraseLast(p) /\ cut' = [cut EXCEPT ![p] = Last(dest[p])]
    /\ UNCHANGED <<rx, lflag, tpgrp, count, pc, erased, ended, pending, tabbed, zero>>

WordKilled(p) ==
    /\ pc[p] = "word" /\ ~(dest[p] # <<>> /\ cut[p] # "sp")
    /\ pc' = [pc EXCEPT ![p] = "read"]
    /\ cut' = [cut EXCEPT ![p] = "none"]
    /\ UNCHANGED <<rx, lflag, tpgrp, count, dest, erased, ended, pending, shown, tabbed, zero>>

(* CTRL-u: kill line, which is erased first and then given up *)
KillLine(p) ==
    /\ Take(p, {"^U"})
    /\ pc' = [pc EXCEPT ![p] = "line"]
    /\ erased' = [erased EXCEPT ![p] = 0]
    /\ UNCHANGED <<lflag, tpgrp, count, dest, cut, ended, pending, shown, tabbed, zero>>

EraseLine(p) ==
    /\ pc[p] = "line" /\ erased[p] < Len(dest[p])
    /\ shown' = [shown EXCEPT ![p] = Echo(p, Erase(@))]
    /\ erased' = [erased EXCEPT ![p] = @ + 1]
    /\ UNCHANGED <<rx, lflag, tpgrp, count, pc, dest, cut, ended, pending, tabbed, zero>>

LineKilled(p) ==
    /\ pc[p] = "line" /\ erased[p] >= Len(dest[p])
    /\ dest' = [dest EXCEPT ![p] = <<>>]
    /\ erased' = [erased EXCEPT ![p] = 0]
    /\ pc' = [pc EXCEPT ![p] = "read"]
    /\ UNCHANGED <<rx, lflag, tpgrp, count, cut, ended, pending, shown, tabbed, zero>>

(* All other characters, with a newline for a carriage return *)
ReadChar(p) ==
    LET c == IF Head(rx) = "cr" THEN "lf" ELSE Head(rx) IN
    /\ Take(p, Input \ {"bs", "^W", "^U", "^L", "^D"})
    /\ dest' = [dest EXCEPT ![p] = Append(@, c)]
    /\ ended' = [ended EXCEPT ![p] = (c = "lf")]
    /\ shown' = [shown EXCEPT ![p] = Echo(p, Put(@, c))]
    /\ tabbed' = [tabbed EXCEPT ![p] = @ \/ c = "tab"]
    /\ UNCHANGED <<lflag, tpgrp, count, pc, cut, erased, pending, zero>>

ReadReturn(p) ==
    /\ AtLoop(p) /\ ~More(p)
    /\ Return(p, Len(dest[p]), "lf")
    /\ UNCHANGED rx

ReadBlock(p) ==
    /\ AtLoop(p) /\ More(p) /\ rx = <<>> /\ p \notin pending
    /\ pc' = [pc EXCEPT ![p] = "sleep"]
    /\ UNCHANGED <<rx, lflag, tpgrp, count, dest, cut, erased, ended, pending, shown, tabbed, zero>>

Resume(p) ==
    /\ ~InKernel /\ pc[p] = "woken"
    /\ pc' = [pc EXCEPT ![p] = "read"]
    /\ UNCHANGED <<rx, lflag, tpgrp, count, dest, cut, erased, ended, pending, shown, tabbed, zero>>

(* EINTR *)
ReadInterrupted(p) ==
    /\ AtLoop(p) /\ More(p) /\ rx = <<>> /\ p \in pending
    /\ Return(p, -1, "none")
    /\ UNCHANGED rx

(* tty_ioctl(): TIOCSETA *)
Ioctl(p, flags) ==
    /\ ~InKernel /\ pc[p] = "user" /\ lflag # flags
    /\ lflag' = flags
    /\ UNCHANGED <<rx, tpgrp, count, pc, dest, cut, erased, ended, pending, shown, tabbed, zero>>

Next ==
    \/ \E c \in Input : TtyInput(c)
    \/ TtyInterrupt
    \/ \E p \in Procs :
         \/ Read(p) \/ ReadRaw(p) \/ ReadEnds(p) \/ ReadChar(p) \/ ReadReturn(p)
         \/ ReadErase(p) \/ KillWord(p) \/ KillLine(p) \/ EraseLine(p) \/ LineKilled(p)
         \/ KillSpaces(p) \/ SpacesKilled(p) \/ KillLetters(p) \/ WordKilled(p)
         \/ ReadBlock(p) \/ Resume(p) \/ ReadInterrupted(p)
         \/ \E flags \in Lflags : Ioctl(p, flags)

Spec == Init /\ [][Next]_vars

-----------------------------------------------------------------------------
(***************************************************************************)
(* Line editing and echo agree, also after words and lines were taken      *)
(* away: with echo on since the line began, the row shows what read() will *)
(* return.  A tab is echoed as 5 to 8 columns and erased as one, so after  *)
(* one the row may show more than the line has; but it never shows less,   *)
(* so that what was there before the line is not erased.  Nothing is said  *)
(* after an ESC, which is echoed too and then belongs to the console, nor  *)
(* of a line that does not fit in its row.                                 *)
(***************************************************************************)
Shows(s, d, tab) ==
    /\ IsPrefix(Prompt, s) /\ Len(s) >= Len(Prompt) + Len(d)
    /\ ~tab => s = Prompt \o d
EchoIsLine ==
    \A p \in Procs : pc[p] \notin Editing =>
        shown[p] = Unknown \/ Shows(shown[p], dest[p], tabbed[p])

(***************************************************************************)
(* No reader of the terminal sleeps while there is input or a SIGINT for   *)
(* it, whoever took the last character, and however many wait.             *)
(***************************************************************************)
ReadersWoken == \A p \in Procs : pc[p] = "sleep" => rx = <<>> /\ p \notin pending

(***************************************************************************)
(* As read(2) says, "A return value of 0 indicates end-of-file", which is  *)
(* CTRL-d on a terminal.                                                   *)
(***************************************************************************)
ZeroIsEof == zero \in {"none", "^D"}
=============================================================================
