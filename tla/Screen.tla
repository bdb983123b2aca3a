------------------------------- MODULE Screen -------------------------------
(***************************************************************************)
(* The console of i386/cons.c: the cursor, scrolling, and the state        *)
(* machine for escape sequences.  Any program may write any character; so  *)
(* may the echo of tty_read().  What is on the screen is left out.         *)
(***************************************************************************)
EXTENDS Integers, Sequences

CONSTANTS
    VGA_WIDTH, VGA_HEIGHT,
    UINT16, UINT32, \* the number of values of uint16_t and unsigned int
    MAX_ARGS,       \* bound: arguments of an escape sequence (args[] has 4)
    MAX_ARG         \* bound: the value of an argument

(* isdigit() and c - '0' *)
Value == [c \in {"0", "1", "2"} |-> CASE c = "0" -> 0 [] c = "1" -> 1 [] OTHER -> 2]
Digits == DOMAIN Value
Chars == {"char", "cr", "lf", "bs", "tab", "esc", "[", ";", "H", "J", "K", "f"} \cup Digits

VARIABLES
    cursor,     \* cn_cursor_pos
    esc,        \* the state of cn_putchar()
    args,       \* args[0 .. args_count - 1], and what is written there
    written     \* the cells of cn_buffer that the last character changed

vars == <<cursor, esc, args, written>>

Cells == VGA_WIDTH * VGA_HEIGHT
LineStart(pos) == (pos \div VGA_WIDTH) * VGA_WIDTH

Init == cursor \in 0 .. Cells - 1 /\ esc = "normal" /\ args = <<>> /\ written = {}

-----------------------------------------------------------------------------
(* Where a character takes the cursor, before the screen scrolls *)
Moved(pos, c) ==
    CASE c = "cr" -> LineStart(pos)
      [] c = "lf" -> LineStart(pos) + VGA_WIDTH
      [] c = "bs" -> (pos - 1) % UINT16
      [] c = "tab" -> ((pos + 8) \div 4) * 4
      [] OTHER -> pos + 1

Wrote(pos, c) == IF c \in {"cr", "lf", "bs", "tab"} THEN {} ELSE {pos}

(* Mutant: the screen scrolls when the cursor is past the line below the last *)
ScrolledLate(pos) == IF pos > Cells THEN Cells - VGA_WIDTH ELSE pos
Scrolled(pos) == IF pos >= Cells THEN Cells - VGA_WIDTH ELSE pos

(* cn_putchar_raw() *)
Raw(pos, c) == Scrolled(Moved(pos, c))

(* cn_goto() counts lines from 1, with unsigned numbers *)
Goto(x, y) == (((y - 1) % UINT32) % VGA_HEIGHT) * VGA_WIDTH + (x % VGA_WIDTH)

-----------------------------------------------------------------------------
(* cn_putchar(), one action for each state *)

Normal(c) ==
    /\ esc = "normal"
    /\ IF c = "esc"
       THEN /\ esc' = "start" /\ args' = <<>>
            /\ written' = {} /\ UNCHANGED cursor
       ELSE /\ cursor' = Raw(cursor, c) /\ written' = Wrote(cursor, c)
            /\ UNCHANGED <<esc, args>>

Start(c) ==
    /\ esc = "start"
    /\ IF c = "["
       THEN /\ esc' = "bracket"
            /\ written' = {} /\ UNCHANGED <<cursor, args>>
       ELSE /\ esc' = "normal"
            /\ cursor' = Raw(Raw(cursor, "esc"), c)
            /\ written' = Wrote(cursor, "esc") \cup Wrote(Raw(cursor, "esc"), c)
            /\ UNCHANGED args

(* A digit goes to the last argument, and there is one from the first digit *)
(* or the first ";" on                                                      *)
Digit(c) ==
    LET given == IF args = <<>> THEN <<0>> ELSE args
        n == Len(given)
    IN /\ given[n] * 10 + Value[c] <= MAX_ARG
       /\ args' = [given EXCEPT ![n] = @ * 10 + Value[c]]
       /\ written' = {} /\ UNCHANGED <<cursor, esc>>

Semicolon ==
    /\ Len(args) < MAX_ARGS
    /\ args' = args \o <<0>>
    /\ written' = {} /\ UNCHANGED <<cursor, esc>>

Command(c) ==
    /\ esc' = "normal"
    /\ cursor' = CASE c = "H" -> 0
                   [] c = "f" /\ Len(args) = 2 -> Goto(args[2], args[1])
                   [] OTHER -> cursor
    /\ written' = CASE c = "J" -> 0 .. Cells - 1                            \* cn_clear
                    [] c = "K" /\ Len(args) = 1 ->                          \* cn_erase_line
                         LineStart(cursor) .. LineStart(cursor) + VGA_WIDTH - 1
                    [] OTHER -> {}
    /\ args' = <<>>     \* not looked at before the next sequence clears them

Bracket(c) ==
    /\ esc = "bracket"
    /\ \/ c \in Digits /\ Digit(c)
       \/ c = ";" /\ Semicolon
       \/ c \notin Digits \cup {";"} /\ Command(c)

Next == \E c \in Chars : Normal(c) \/ Start(c) \/ Bracket(c)

Spec == Init /\ [][Next]_vars

-----------------------------------------------------------------------------
(***************************************************************************)
(* Whatever a program writes, backspaces in the first cell, tabs in the    *)
(* last line and positions of line 0 included, the cursor is on the screen *)
(* and no cell outside cn_buffer was written.                              *)
(***************************************************************************)
CursorOnScreen == cursor \in 0 .. Cells - 1 /\ written \subseteq 0 .. Cells - 1
=============================================================================
