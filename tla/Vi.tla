--------------------------------- MODULE Vi ---------------------------------
(***************************************************************************)
(* The editor usr.bin/vi: the text buffer, the cursor and the scrolled     *)
(* window, and what a key does in command mode (command.c), insert mode    *)
(* (insert.c) and on the command line (commandline.c).  A line is an array *)
(* that "end" ends, with whatever was left behind it.  What is drawn is left *)
(* out, and so is the text that is typed on the command line.              *)
(***************************************************************************)
EXTENDS Integers, Sequences, FiniteSetsExt

CONSTANTS
    ROWS,       \* rows of the screen, the last for the status line
    MAX_ROWS, MAX_COLS,
    Files,      \* bound: the texts of files, as sequences of lines
    Keys,       \* bound: keys that are typed
    Chars,      \* bound: those that are typed as text
    MAX_KEYS,   \* bound: how many
    MAX_COUNT   \* bound: of a count before a command

(* The screen, and files that fit in the arrays; "end" is not typed *)
Fit ==
    /\ ROWS \in Nat /\ ROWS > 2 /\ MAX_ROWS \in Nat \ {0} /\ MAX_COLS \in Nat
    /\ \A t \in Files : Len(t) \in 0 .. MAX_ROWS /\ \A x \in 1 .. Len(t) : Len(t[x]) < MAX_COLS
    /\ "end" \notin Chars

VARIABLES
    buffer, lines,
    cur,        \* [row, col, want, off]: the cursor, want_col and row_offset
    mode,       \* "Command", "Insert", "CommandLine" or "quit"
    cmd,        \* the keys of a command that is not complete
    count,
    file,       \* the file that is edited
    past,       \* history: :r left the cursor behind the end of its line
    full,       \* history: a key went beyond the arrays; what it overwrote is not followed
    typed       \* keys so far

vars == <<buffer, lines, cur, mode, cmd, count, file, past, full, typed>>

Rows == 0 .. MAX_ROWS - 1
Cols == 0 .. MAX_COLS - 1
Empty == [c \in Cols |-> "end"]
Array(s) == [c \in Cols |-> IF c < Len(s) THEN s[c + 1] ELSE "end"]
strlen(a) == Min({c \in Cols : a[c] = "end"} \cup {MAX_COLS})
Text(a) == [c \in 1 .. strlen(a) |-> a[c - 1]]

(* load_file(): an array keeps what is behind the end of the new line *)
Loaded(b, t) ==
    [r \in Rows |-> IF r < Len(t) THEN [c \in Cols |-> IF c <= Len(t[r + 1]) THEN Array(t[r + 1])[c] ELSE b[r][c]]
                    ELSE b[r]]
LinesOf(t) == Max({1, Len(t)})

Init ==
    /\ file \in Files
    /\ buffer = Loaded([r \in Rows |-> Empty], file)
    /\ lines = LinesOf(file)
    /\ cur = [row |-> 0, col |-> 0, want |-> 0, off |-> 0]
    /\ mode = "Command" /\ cmd = <<>> /\ count = 0
    /\ past = FALSE /\ full = FALSE /\ typed = 0

-----------------------------------------------------------------------------
(* Mutant: the end of the line is the same in both modes *)
LastColAny(m, len) == len
(* The last column that the cursor may be in *)
LastCol(m, len) == IF len = 0 THEN 0 ELSE IF m = "Command" THEN len - 1 ELSE len

(* The window follows the cursor *)
Scrolled(row) ==
    IF row >= cur.off + ROWS - 1 THEN row - (ROWS - 2) ELSE IF row < cur.off THEN row ELSE cur.off

(* move_cursor(r, c) in mode m, with the buffer b of n lines: moving to     *)
(* another line in the same column goes back to the column wanted last      *)
Moved(b, n, m, r0, c0) ==
    LET c == Max({0, c0})
        r == Max({0, r0})
        row == Min({r, n - 1})
        col == IF c = cur.col /\ cur.row # r /\ cur.want > c THEN cur.want ELSE c
        last == LastCol(m, strlen(b[row]))
    IN [row |-> row, col |-> Min({col, last}), want |-> IF col > last THEN col ELSE cur.want, off |-> Scrolled(row)]

Line == buffer[cur.row]
Edited(a) == [buffer EXCEPT ![cur.row] = a]

(* delete_lines() *)
Deleted(n) ==
    IF cur.row + n > lines THEN buffer
    ELSE [r \in Rows |-> IF r < cur.row \/ r >= lines THEN buffer[r]
                         ELSE IF r + n < lines THEN buffer[r + n] ELSE Empty]
Left(n) == IF cur.row + n > lines THEN lines ELSE Max({1, lines - n})

(* "x": memmove() of as many bytes as are left of the line.  What is behind *)
(* its end comes along, from the next row too.                              *)
Byte(r, c) == IF c < MAX_COLS THEN buffer[r][c] ELSE buffer[r + 1][c - MAX_COLS]
Cut(n) == [c \in Cols |-> IF c \in cur.col .. strlen(Line) - 1 THEN Byte(cur.row, c + n) ELSE Line[c]]

(* memmove() of what is from column e on to column col *)
Closed(a, col, e) ==
    [c \in Cols |-> IF c >= col /\ c + (e - col) < MAX_COLS THEN a[c + (e - col)] ELSE a[c]]

(* delete_word(): from the column after the cursor *)
WordEnd(a, from, spaces) ==
    LET stop == Min({c \in Cols : c >= from /\ a[c] \in {"end", "sp", "."}})
    IN IF spaces THEN Min({c \in Cols : c >= stop /\ a[c] # "sp"}) ELSE stop
WordDeleted(spaces) == Closed(Line, cur.col, WordEnd(Line, cur.col + 1, spaces))

-----------------------------------------------------------------------------
Key == typed < MAX_KEYS /\ mode # "quit" /\ typed' = typed + 1
Same == UNCHANGED <<buffer, lines, file>>
cursor(r, c) == cur' = Moved(buffer', lines', mode', r, c)

(* command_mode_input(): a digit of the count, a key that is not the last   *)
(* of a command, or the last one                                            *)
Digits == {"0", "2"}
Value(d) == IF d = "0" THEN 0 ELSE 2
IsDigit(k) == cmd = <<>> /\ k \in Digits /\ (k = "0" => count > 0)
Digit(k) ==
    /\ IsDigit(k)
    /\ count * 10 + Value(k) <= MAX_COUNT
    /\ count' = count * 10 + Value(k)
    /\ Same /\ UNCHANGED <<cur, mode, cmd, past>>

(* replace_char() reads its own key, so "r" is one of them *)
Incomplete == {<<"d">>, <<"c">>, <<"Z">>, <<"r">>, <<"esc">>, <<"esc", "[">>, <<"esc", "[", "5">>, <<"esc", "[", "6">>}
Prefix(k) ==
    /\ Append(cmd, k) \in Incomplete
    /\ cmd' = Append(cmd, k)
    /\ Same /\ UNCHANGED <<cur, mode, count, past>>

Times == Max({1, count})

(* Where the cursor goes.  The end of the line is that of another line once *)
(* the window has moved.                                                    *)
Target(c) ==
    CASE c \in {<<"h">>, <<"esc", "[", "D">>} -> <<cur.row, cur.col - Times>>
      [] c \in {<<"l">>, <<"esc", "[", "C">>} -> <<cur.row, cur.col + Times>>
      [] c \in {<<"k">>, <<"esc", "[", "A">>} -> <<cur.row - Times, cur.col>>
      [] c \in {<<"j">>, <<"esc", "[", "B">>} -> <<cur.row + Times, cur.col>>
      [] c = <<"esc", "[", "5", "~">> -> <<cur.row - (ROWS - 1) * Times + 1, cur.col>>
      [] c = <<"esc", "[", "6", "~">> -> <<cur.row + (ROWS - 1) * Times - 1, cur.col>>
      [] c \in {<<"0">>, <<"esc", "[", "H">>} -> <<cur.row, 0>>
      [] c \in {<<"$">>, <<"esc", "[", "F">>} -> <<cur.row, Max({0, strlen(buffer[cur.row + cur.off]) - 1})>>
      [] c = <<"G">> -> <<IF count # 0 THEN count - 1 ELSE lines - 1, cur.col>>
Motions == {<<m>> : m \in {"h", "l", "k", "j", "0", "$", "G"}}
           \cup {<<"esc", "[", m>> : m \in {"A", "B", "C", "D", "H", "F"}}
           \cup {<<"esc", "[", m, "~">> : m \in {"5", "6"}}

Motion(c) ==
    /\ c \in Motions
    /\ Same /\ UNCHANGED mode
    /\ cursor(Target(c)[1], Target(c)[2])

Insert(c) ==
    /\ c \in {<<"i">>, <<"a">>}
    /\ mode' = "Insert"
    /\ Same
    /\ IF c = <<"a">> THEN cursor(cur.row, cur.col + 1) ELSE UNCHANGED cur

(* There are not as many characters as the count says *)
TooFew == cur.col + Times > strlen(Line)

(* replace_char() *)
Replace(c) ==
    /\ c \in {<<"r", k>> : k \in Chars}
    /\ buffer' = IF TooFew THEN buffer
                 ELSE Edited([i \in Cols |-> IF i \in cur.col .. cur.col + Times - 1 THEN c[2] ELSE Line[i]])
    /\ UNCHANGED <<lines, file, cur, mode>>

(* The cursor is only moved when something is deleted *)
DeleteChars(c) ==
    /\ c = <<"x">>
    /\ UNCHANGED <<lines, file, mode>>
    /\ \/ TooFew /\ UNCHANGED <<buffer, cur>>
       \/ ~TooFew /\ buffer' = Edited(Cut(Times)) /\ cursor(cur.row, cur.col)

DeleteLines(c) ==
    /\ c = <<"d", "d">>
    /\ buffer' = Deleted(Times) /\ lines' = Left(Times)
    /\ UNCHANGED <<file, mode>>
    /\ cursor(cur.row, cur.col)

DeleteWord(c) ==
    /\ c \in {<<"d", "w">>, <<"c", "w">>}
    /\ buffer' = Edited(WordDeleted(c[1] = "d"))
    /\ mode' = IF c[1] = "c" THEN "Insert" ELSE mode
    /\ UNCHANGED <<lines, file>>
    /\ cursor(cur.row, cur.col)

Contents == [i \in 1 .. lines |-> Text(buffer[i - 1])]

(* save() may not be able to open the file *)
Leave(saved) ==
    /\ mode' = "quit"
    /\ file' = IF saved THEN Contents ELSE file
    /\ UNCHANGED <<buffer, lines, cur>>

Other(c) ==
    \/ c = <<":">> /\ mode' = "CommandLine" /\ Same /\ UNCHANGED cur
    \/ c = <<"Z", "Z">> /\ \E saved \in BOOLEAN : Leave(saved)

Known(c) == c \in Motions \cup {<<"i">>, <<"a">>, <<"x">>, <<"d", "d">>, <<"d", "w">>, <<"c", "w">>, <<":">>, <<"Z", "Z">>}
            \/ c[1] = "r"

(* Commands that read behind the array of the line, or behind all of them:  *)
(* "$" takes the length of a row that there is not, a word has no end, and  *)
(* "x" moves bytes from behind the last row.                                *)
ReadsBeyond(c) ==
    \/ c \in {<<"$">>, <<"esc", "[", "F">>} /\ cur.row + cur.off >= MAX_ROWS
    \/ c \in {<<"d", "w">>, <<"c", "w">>} /\ \A e \in Cols : e > cur.col => Line[e] # "end"
    \/ c = <<"x">> /\ ~TooFew /\ cur.row = MAX_ROWS - 1 /\ strlen(Line) + Times > MAX_COLS

(* What leaves the cursor where it is *)
Stays(c) == c[1] \in {"i", "r", ":"} \/ (c = <<"x">> /\ TooFew) \/ ~Known(c)

(* run_command(): what is not a command is forgotten *)
run_command(c) ==
    /\ c \notin Incomplete /\ ~ReadsBeyond(c)
    /\ cmd' = <<>> /\ count' = 0
    /\ past' = (past /\ Stays(c))
    /\ \/ Motion(c) \/ Insert(c) \/ Replace(c) \/ DeleteChars(c) \/ DeleteLines(c) \/ DeleteWord(c) \/ Other(c)
       \/ ~Known(c) /\ Same /\ UNCHANGED <<cur, mode>>

CommandKey(k) ==
    /\ mode = "Command" /\ Key
    /\ Digit(k) \/ Prefix(k) \/ (~IsDigit(k) /\ run_command(Append(cmd, k)))

-----------------------------------------------------------------------------
(* insert_mode_input() *)

Escape(k) ==
    /\ k = "esc"
    /\ mode' = "Command"
    /\ Same
    /\ cursor(cur.row, cur.col - 1)

(* Backspace ends the line where it deletes *)
Backspace(k) ==
    /\ k = "del" /\ cur.col > 0
    /\ buffer' = Edited([Line EXCEPT ![cur.col - 1] = "end"])
    /\ UNCHANGED <<lines, file, mode>>
    /\ cursor(cur.row, cur.col - 1)

(* Mutant: the first line below is not moved down *)
SplitLate(b) ==
    [r \in Rows |-> IF r = cur.row THEN [Line EXCEPT ![cur.col] = "end"]
                    ELSE IF r = cur.row + 1 THEN Array(SubSeq(Text(Line), cur.col + 1, strlen(Line)))
                    ELSE IF r > cur.row + 2 /\ r <= lines THEN b[r - 1] ELSE b[r]]
(* split_line() *)
Split(b) ==
    [r \in Rows |-> IF r = cur.row THEN [Line EXCEPT ![cur.col] = "end"]
                    ELSE IF r = cur.row + 1 THEN Array(SubSeq(Text(Line), cur.col + 1, strlen(Line)))
                    ELSE IF r > cur.row + 1 /\ r <= lines THEN b[r - 1] ELSE b[r]]

Newline(k) ==
    /\ k = "nl"
    /\ buffer' = Split(buffer) /\ lines' = lines + 1
    /\ UNCHANGED <<file, mode>>
    /\ cursor(cur.row + 1, 0)

(* Any other key, and backspace in the first column *)
Typed(k) == k \in Chars /\ (k = "del" => cur.col = 0)
Char(k) ==
    /\ Typed(k)
    /\ buffer' = Edited([c \in Cols |-> IF c = cur.col THEN k ELSE IF c > cur.col THEN Line[c - 1] ELSE Line[c]])
    /\ cur' = [cur EXCEPT !.col = @ + 1]
    /\ UNCHANGED <<lines, file, mode>>

(* A line below the last row, or a line that its array has no end for *)
WritesBeyond(k) ==
    \/ k = "nl" /\ lines >= MAX_ROWS
    \/ Typed(k) /\ strlen(Line) >= MAX_COLS - 1

InsertKey(k) ==
    /\ mode = "Insert" /\ Key /\ ~WritesBeyond(k)
    /\ Escape(k) \/ Backspace(k) \/ Newline(k) \/ Char(k)
    /\ past' = (past /\ mode' = "Insert")
    /\ UNCHANGED <<cmd, count>>

-----------------------------------------------------------------------------
(* commandline_mode_input() up to the end of the line: run_commandline().   *)
(* ":sh" and what is no command change nothing.                             *)
Read ==
    \E t \in Files :
        /\ buffer' = Loaded(buffer, t) /\ lines' = LinesOf(t)
        /\ file' = t
        /\ cur' = Moved(buffer', lines', "CommandLine", 0, 0)
        /\ past' = (cur'.col > LastCol("Command", strlen(buffer'[0])))
        /\ mode' = "Command"

Write ==
    /\ file' \in {file, Contents}
    /\ mode' = "Command"
    /\ UNCHANGED <<buffer, lines, cur, past>>

Quit == (\E saved \in BOOLEAN : Leave(saved)) /\ UNCHANGED past

LineEsc == mode' = "Command" /\ Same /\ UNCHANGED <<cur, past>>

CommandLine ==
    /\ mode = "CommandLine" /\ Key
    /\ Read \/ Write \/ Quit \/ LineEsc
    /\ UNCHANGED <<cmd, count>>

(* The sizes of the arrays are checked nowhere *)
GoBeyond(k) ==
    /\ Key
    /\ \/ mode = "Command" /\ ReadsBeyond(Append(cmd, k))
       \/ mode = "Insert" /\ WritesBeyond(k)
    /\ full' = TRUE
    /\ UNCHANGED <<buffer, lines, cur, mode, cmd, count, file, past>>

Next ==
    /\ ~full
    /\ \/ CommandLine /\ UNCHANGED full
       \/ \E k \in Keys : CommandKey(k) /\ UNCHANGED full
       \/ \E k \in Keys : InsertKey(k) /\ UNCHANGED full
       \/ \E k \in Keys : GoBeyond(k)
Spec == Init /\ [][Next]_vars

-----------------------------------------------------------------------------
(***************************************************************************)
(* move_cursor(): the cursor is in a line of the text that the window      *)
(* shows, on a character of it in command mode and at most behind the last *)
(* one in insert mode; only ":r", which moves it in another mode, leaves   *)
(* it one too far until it is moved again.  Nothing is said once a key has *)
(* gone beyond the arrays.                                                 *)
(***************************************************************************)
CursorInText ==
    LET len == strlen(buffer[cur.row])
    IN full \/
       /\ cur.row < lines /\ lines <= MAX_ROWS
       /\ cur.row \in cur.off .. cur.off + ROWS - 2
       /\ cur.col <= len
       /\ mode = "Command" /\ ~past /\ len > 0 => cur.col < len

(* A key that is not typed on the command line, and stays in the arrays *)
LinesKept ==
    mode # "CommandLine" /\ ~full' =>
        LET old == Contents
            new == Contents'
            here == cur.row + 1
            n == lines' - lines
        IN /\ SubSeq(new, 1, cur.row) = SubSeq(old, 1, cur.row)
           /\ n = 0 => SubSeq(new, here + 1, lines) = SubSeq(old, here + 1, lines)
           /\ n > 0 => n = 1 /\ SubSeq(new, here + 2, lines + 1) = SubSeq(old, here + 1, lines)
                             /\ new[here] \o new[here + 1] = old[here]
           /\ n < 0 => lines > 1 /\ SubSeq(new, here, lines') \in
                         {SubSeq(old, here - n, lines), << <<>> >>}

(***************************************************************************)
(* command.c, insert.c: a key changes no line but the one the cursor is    *)
(* in.  A new line takes the end of that one, and those below it move down *)
(* or, when it is deleted, up; none is lost, unless by a key that goes     *)
(* beyond the arrays.                                                      *)
(***************************************************************************)
OthersKept == [][LinesKept]_vars
=============================================================================
