----------------------------- MODULE MCTerminal -----------------------------
(***************************************************************************)
(* The terminal, the screen and the keyboard.  Terminal knows of the other *)
(* two only what its actions say of tty_input() and tty_write(), so they   *)
(* need not move together: each behaviour exercises one of the three.      *)
(***************************************************************************)
EXTENDS Screen

CONSTANTS Procs, Pgrp, Counts, RX, Prompt, Lflags, NBYTES

VARIABLES part, rx, lflag, tpgrp, pc, dest, cut, erased, ended, count, pending, shown, tabbed, zero,
          down, kbState, ring, kpc, kdev, got, ksignal

T == INSTANCE Terminal
K == INSTANCE Keyboard WITH RING <- RX, pc <- kpc, dev <- kdev, pending <- ksignal

ASSUME Given == T!TerminalAssumption

terminal == <<rx, lflag, tpgrp, pc, dest, cut, erased, ended, count, pending, shown, tabbed, zero>>
keyboard == <<down, kbState, ring, kpc, kdev, got, ksignal>>

MCPgrp == [p \in Procs |-> 2]
(* One that reads lines, or two that read characters *)
MCCounts == {[p \in Procs |-> IF p = 1 THEN 3 ELSE 0], [p \in Procs |-> 1]}
MCPrompt == <<"$", "$">>
MCLflags == {{}, {"ICANON"}, {"ICANON", "ECHO"}}

MCInit ==
    /\ part \in {"terminal", "screen", "keyboard"}
    /\ T!Init /\ K!Init
    /\ Init /\ (part # "screen" => cursor = 0)

TerminalNext == part = "terminal" /\ T!Next /\ UNCHANGED <<part, vars, keyboard>>
ScreenNext == part = "screen" /\ Next /\ UNCHANGED <<part, terminal, keyboard>>
KeyboardNext == part = "keyboard" /\ K!Next /\ UNCHANGED <<part, vars, terminal>>

MCNext == TerminalNext \/ ScreenNext \/ KeyboardNext
MCSpec == MCInit /\ [][MCNext]_<<part, vars, terminal, keyboard>>

(***************************************************************************)
(* Terminal: what tty_read() echoes is the line that it returns, and of    *)
(* what was on the screen before it erases nothing, even after a tab.      *)
(***************************************************************************)
EchoIsLine == T!EchoIsLine

(***************************************************************************)
(* No wakeup is lost between an interrupt and a reader, of the terminal,   *)
(* the keyboard or the serial line: who sleeps has neither input nor a     *)
(* signal.                                                                 *)
(***************************************************************************)
InputWakes == T!ReadersWoken /\ K!SleepsOnEmpty
=============================================================================
