------------------------------- MODULE Editor -------------------------------
(* The editor vi and what it promises, under names of their own *)
CONSTANTS ROWS, MAX_ROWS, MAX_COLS, Files, Keys, Chars, MAX_KEYS, MAX_COUNT

VARIABLES buffer, lines, cur, mode, cmd, count, file, past, full, typed

V == INSTANCE Vi

(***************************************************************************)
(* Vi: the cursor is in the text and in the window after every key.        *)
(***************************************************************************)
CursorInText == V!CursorInText

(***************************************************************************)
(* Vi: a key changes no line but that of the cursor, and loses none.       *)
(***************************************************************************)
OthersKept == V!OthersKept
=============================================================================
