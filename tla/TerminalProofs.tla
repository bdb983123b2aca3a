--------------------------- MODULE TerminalProofs ---------------------------
(***************************************************************************)
(* Proofs about MCTerminal, for any number of readers, any size of the     *)
(* rings and any size of the screen that 16 bits can address: what is      *)
(* echoed of a line is what is returned of it, no wakeup of a reader is    *)
(* lost, and cn_putchar() keeps the cursor on the screen and writes no     *)
(* cell outside it.                                                        *)
(***************************************************************************)
EXTENDS MCTerminal, SequenceTheorems, TLAPS

(* What a row of the screen is made of.                                      *)
Cell == T!Input \cup {"?", "$", "gap"}

(* The types that the readers of the terminal and of the devices need.      *)
TtyTyped ==
    /\ rx \in Seq(T!Input)
    /\ DOMAIN pc = Procs
    /\ dest \in [Procs -> Seq(T!Input)] /\ shown \in [Procs -> Seq(Cell)]
    /\ tabbed \in [Procs -> BOOLEAN] /\ erased \in [Procs -> Nat]
DevTyped == DOMAIN ring = K!Devs /\ kdev \in K!Devs

(* The row s behind the prompt, when n characters at the end of the line d  *)
(* are erased on the screen but still in the buffer.                        *)
Row(s, d, tab, n) ==
    /\ Len(s) >= Len(Prompt) + Len(d) - n
    /\ \A i \in 1 .. Len(Prompt) : s[i] = Prompt[i]
    /\ ~tab => /\ Len(s) = Len(Prompt) + Len(d) - n
               /\ \A i \in 1 .. Len(d) - n : s[Len(Prompt) + i] = d[i]

(* What the steps of tty_read() keep of the row: during CTRL-u it is some   *)
(* characters ahead of the line.                                            *)
RowKept(p) ==
    /\ erased[p] =< Len(dest[p]) /\ (pc[p] # "line" => erased[p] = 0)
    /\ shown[p] = T!Unknown \/ Row(shown[p], dest[p], tabbed[p], erased[p])
RowsKept == \A p \in Procs : RowKept(p)

(* What every step of the three keeps.                                      *)
TtyInv == TtyTyped /\ RowsKept /\ T!ReadersWoken
InputInv == TtyInv /\ DevTyped /\ InputWakes

-----------------------------------------------------------------------------
(* The row is that of EchoIsLine when the line and the screen agree.        *)
LEMMA RowShows ==
    ASSUME NEW s \in Seq(Cell), NEW d \in Seq(T!Input), NEW tab \in BOOLEAN, Row(s, d, tab, 0)
    PROVE  T!Shows(s, d, tab)
<1>1. Prompt \in Seq(Cell) /\ Len(Prompt) \in Nat
  BY Given DEF T!TerminalAssumption, Cell
<1>2. Len(s) >= Len(Prompt) + Len(d)
  BY <1>1 DEF Row
<1>3. T!IsPrefix(Prompt, s)
  <2>1. Len(Prompt) =< Len(s)
    BY <1>1, <1>2
  <2>2. SubSeq(Prompt, 1, Len(Prompt)) = SubSeq(s, 1, Len(Prompt))
    BY <1>1, <2>1 DEF Row
  <2> QED BY <2>1, <2>2 DEF T!IsPrefix
<1>4. ASSUME ~tab PROVE s = Prompt \o d
  <2>1. d \in Seq(Cell)
    BY DEF Cell
  <2>2. /\ Len(s) = Len(Prompt) + Len(d)
        /\ \A i \in 1 .. Len(Prompt) : s[i] = Prompt[i]
        /\ \A i \in 1 .. Len(d) : s[Len(Prompt) + i] = d[i]
    BY <1>1, <1>4 DEF Row
  <2>3. Prompt \o d \in Seq(Cell) /\ Len(Prompt \o d) = Len(s)
    BY <1>1, <2>1, <2>2, ConcatProperties
  <2>4. ASSUME NEW i \in 1 .. Len(s) PROVE s[i] = (Prompt \o d)[i]
    <3>1. (Prompt \o d)[i] = IF i <= Len(Prompt) THEN Prompt[i] ELSE d[i - Len(Prompt)]
      BY <1>1, <2>1, <2>2, ConcatProperties
    <3>2. CASE i <= Len(Prompt)
      BY <1>1, <2>2, <3>1, <3>2
    <3>3. CASE ~(i <= Len(Prompt))
      <4>1. i - Len(Prompt) \in 1 .. Len(d) /\ i = Len(Prompt) + (i - Len(Prompt))
        BY <1>1, <2>2, <3>3
      <4> QED BY <2>2, <3>1, <3>3, <4>1
    <3> QED BY <3>2, <3>3
  <2> QED BY <2>3, <2>4, SeqEqual
<1> QED BY <1>2, <1>3, <1>4 DEF T!Shows

(* The first n of a sequence.                                               *)
LEMMA Cut ==
    ASSUME NEW S, NEW n \in Nat, NEW s, \A i \in 1 .. n : s[i] \in S
    PROVE  /\ SubSeq(s, 1, n) \in Seq(S) /\ Len(SubSeq(s, 1, n)) = n
           /\ \A i \in 1 .. n : SubSeq(s, 1, n)[i] = s[i]
<1>1. /\ SubSeq(s, 1, n) \in Seq(S) /\ Len(SubSeq(s, 1, n)) = IF 1 <= n THEN n - 1 + 1 ELSE 0
      /\ \A i \in 1 .. n - 1 + 1 : SubSeq(s, 1, n)[i] = s[1 + i - 1]
  BY SubSeqProperties
<1>2. n - 1 + 1 = n /\ \A i \in 1 .. n : 1 + i - 1 = i
  OBVIOUS
<1>3. \A i \in 1 .. n : SubSeq(s, 1, n)[i] = s[i]
  BY <1>1, <1>2
<1>4. Len(SubSeq(s, 1, n)) = n
  BY <1>1
<1> QED BY <1>1, <1>3, <1>4

(* "\b \b" takes the last cell of the row, and never one of the prompt when *)
(* a character of the line is still shown.                                  *)
LEMMA EraseCell ==
    ASSUME NEW s \in Seq(Cell), NEW d \in Seq(T!Input), NEW tab \in BOOLEAN, NEW n \in Nat,
           n < Len(d), Row(s, d, tab, n)
    PROVE  T!Erase(s) \in Seq(Cell) /\ Row(T!Erase(s), d, tab, n + 1)
<1>1. Len(Prompt) \in Nat /\ Len(s) \in Nat /\ Len(d) \in Nat
  BY Given DEF T!TerminalAssumption
<1>2. Len(s) >= Len(Prompt) + 1
  BY <1>1 DEF Row
<1>3. T!Erase(s) = SubSeq(s, 1, Len(s) - 1)
  BY <1>1, <1>2 DEF T!Erase, T!Front
<1>4. /\ T!Erase(s) \in Seq(Cell) /\ Len(T!Erase(s)) = Len(s) - 1
      /\ \A i \in 1 .. Len(s) - 1 : T!Erase(s)[i] = s[i]
  <2>1. \A i \in 1 .. Len(s) - 1 : s[i] \in Cell
    BY <1>1
  <2>2. Len(s) - 1 \in Nat
    BY <1>1, <1>2
  <2>3. /\ SubSeq(s, 1, Len(s) - 1) \in Seq(Cell) /\ Len(SubSeq(s, 1, Len(s) - 1)) = Len(s) - 1
        /\ \A i \in 1 .. Len(s) - 1 : SubSeq(s, 1, Len(s) - 1)[i] = s[i]
    <3> DEFINE m == Len(s) - 1
    <3>1. m \in Nat /\ \A i \in 1 .. m : s[i] \in Cell
      BY <2>1, <2>2
    <3> HIDE DEF m
    <3>2. /\ SubSeq(s, 1, m) \in Seq(Cell) /\ Len(SubSeq(s, 1, m)) = m
          /\ \A i \in 1 .. m : SubSeq(s, 1, m)[i] = s[i]
      BY <3>1, Cut
    <3> QED BY <3>2 DEF m
  <2> QED BY <1>3, <2>3
<1> HIDE DEF T!Erase
<1>5. Len(T!Erase(s)) >= Len(Prompt) + Len(d) - (n + 1)
  BY <1>1, <1>4 DEF Row
<1>6. \A i \in 1 .. Len(Prompt) : T!Erase(s)[i] = Prompt[i]
  BY <1>1, <1>2, <1>4 DEF Row
<1>7. ASSUME ~tab
      PROVE  /\ Len(T!Erase(s)) = Len(Prompt) + Len(d) - (n + 1)
             /\ \A i \in 1 .. Len(d) - (n + 1) : T!Erase(s)[Len(Prompt) + i] = d[i]
  <2>1. Len(s) = Len(Prompt) + Len(d) - n /\ \A i \in 1 .. Len(d) - n : s[Len(Prompt) + i] = d[i]
    BY <1>7 DEF Row
  <2>2. ASSUME NEW i \in 1 .. Len(d) - (n + 1) PROVE T!Erase(s)[Len(Prompt) + i] = d[i]
    <3>1. i \in 1 .. Len(d) - n /\ Len(Prompt) + i \in 1 .. Len(s) - 1
      BY <1>1, <2>1
    <3> QED BY <1>4, <2>1, <3>1
  <2> QED BY <1>1, <1>4, <2>1, <2>2
<1> QED BY <1>4, <1>5, <1>6, <1>7 DEF Row

(* So does --i with the line.                                               *)
LEMMA EraseBoth ==
    ASSUME NEW s \in Seq(Cell), NEW d \in Seq(T!Input), NEW tab \in BOOLEAN,
           d # <<>>, Row(s, d, tab, 0)
    PROVE  /\ T!Erase(s) \in Seq(Cell) /\ T!Front(d) \in Seq(T!Input)
           /\ Row(T!Erase(s), T!Front(d), tab, 0)
<1>1. Len(d) \in Nat \ {0} /\ Len(Prompt) \in Nat
  BY Given DEF T!TerminalAssumption
<1>2. T!Erase(s) \in Seq(Cell) /\ Row(T!Erase(s), d, tab, 1)
  BY <1>1, EraseCell
<1>3. /\ T!Front(d) \in Seq(T!Input) /\ Len(T!Front(d)) = Len(d) - 1
      /\ \A i \in 1 .. Len(d) - 1 : T!Front(d)[i] = d[i]
  <2>1. \A i \in 1 .. Len(d) - 1 : d[i] \in T!Input
    BY <1>1
  <2>2. T!Front(d) = SubSeq(d, 1, Len(d) - 1)
    BY DEF T!Front
  <2>3. Len(d) - 1 \in Nat
    BY <1>1
  <2>4. /\ SubSeq(d, 1, Len(d) - 1) \in Seq(T!Input) /\ Len(SubSeq(d, 1, Len(d) - 1)) = Len(d) - 1
        /\ \A i \in 1 .. Len(d) - 1 : SubSeq(d, 1, Len(d) - 1)[i] = d[i]
    <3> DEFINE m == Len(d) - 1
    <3>1. m \in Nat /\ \A i \in 1 .. m : d[i] \in T!Input
      BY <2>1, <2>3
    <3> HIDE DEF m
    <3>2. /\ SubSeq(d, 1, m) \in Seq(T!Input) /\ Len(SubSeq(d, 1, m)) = m
          /\ \A i \in 1 .. m : SubSeq(d, 1, m)[i] = d[i]
      BY <3>1, Cut
    <3> QED BY <3>2 DEF m
  <2> QED BY <2>2, <2>4
<1> QED BY <1>1, <1>2, <1>3 DEF Row

(* The echo of a character adds it to the row, or more than one cell for a  *)
(* tab, unless the row is no longer known.                                  *)
LEMMA PutCell ==
    ASSUME NEW s \in Seq(Cell), NEW d \in Seq(T!Input), NEW tab \in BOOLEAN,
           NEW c \in T!Input, Row(s, d, tab, 0)
    PROVE  /\ T!Put(s, c) \in Seq(Cell)
           /\ T!Put(s, c) = T!Unknown \/ Row(T!Put(s, c), Append(d, c), tab \/ c = "tab", 0)
<1> DEFINE w == ((Len(s) + 8) \div 4) * 4 - Len(s)
           gap == [i \in 1 .. w |-> "gap"]
           row == IF c = "tab" THEN T!Tab(s) ELSE Append(s, c)
<1>1. Len(Prompt) \in Nat /\ Len(s) \in Nat /\ Len(d) \in Nat /\ T!Unknown \in Seq(Cell)
  BY Given DEF T!TerminalAssumption, T!Unknown, Cell
<1>2. /\ Append(d, c) \in Seq(T!Input) /\ Len(Append(d, c)) = Len(d) + 1
      /\ Append(d, c)[Len(d) + 1] = c /\ \A i \in 1 .. Len(d) : Append(d, c)[i] = d[i]
  OBVIOUS
<1>3. T!Put(s, c) \in {T!Unknown, row}
  BY DEF T!Put
<1>4. CASE c = "tab"
  <2>1. w \in Nat /\ w >= 1
    BY <1>1
  <2>2. T!Tab(s) = s \o gap
    BY DEF T!Tab
  <2> HIDE DEF w
  <2>3. gap \in Seq(Cell) /\ Len(gap) = w
    BY <2>1 DEF Cell
  <2> HIDE DEF gap
  <2>4. /\ T!Tab(s) \in Seq(Cell) /\ Len(T!Tab(s)) = Len(s) + w
        /\ \A i \in 1 .. Len(s) : T!Tab(s)[i] = s[i]
    <3>1. T!Tab(s) \in Seq(Cell) /\ Len(T!Tab(s)) = Len(s) + w
      BY <2>2, <2>3, ConcatProperties
    <3>2. ASSUME NEW i \in 1 .. Len(s) PROVE T!Tab(s)[i] = s[i]
      <4>1. i \in 1 .. Len(s) + Len(gap) /\ i <= Len(s)
        BY <1>1, <2>1, <2>3
      <4> QED BY <2>2, <2>3, <4>1, ConcatProperties
    <3> QED BY <3>1, <3>2
  <2>5. Row(T!Tab(s), Append(d, c), TRUE, 0)
    BY <1>1, <1>2, <2>1, <2>4 DEF Row
  <2> QED BY <1>1, <1>3, <1>4, <2>4, <2>5
<1>5. CASE c # "tab"
  <2>1. /\ Append(s, c) \in Seq(Cell) /\ Len(Append(s, c)) = Len(s) + 1
        /\ Append(s, c)[Len(s) + 1] = c /\ \A i \in 1 .. Len(s) : Append(s, c)[i] = s[i]
    BY DEF Cell
  <2>2. Row(Append(s, c), Append(d, c), tab, 0)
    <3>1. Len(Append(s, c)) >= Len(Prompt) + Len(Append(d, c)) - 0
      BY <1>1, <1>2, <2>1 DEF Row
    <3>2. \A i \in 1 .. Len(Prompt) : Append(s, c)[i] = Prompt[i]
      BY <1>1, <2>1 DEF Row
    <3>3. ASSUME ~tab
          PROVE  /\ Len(Append(s, c)) = Len(Prompt) + Len(Append(d, c)) - 0
                 /\ \A i \in 1 .. Len(Append(d, c)) - 0 : Append(s, c)[Len(Prompt) + i] = Append(d, c)[i]
      <4>1. Len(s) = Len(Prompt) + Len(d) /\ \A i \in 1 .. Len(d) : s[Len(Prompt) + i] = d[i]
        BY <1>1, <3>3 DEF Row
      <4>2. ASSUME NEW i \in 1 .. Len(d) + 1 PROVE Append(s, c)[Len(Prompt) + i] = Append(d, c)[i]
        <5>1. CASE i \in 1 .. Len(d)
          <6>1. Len(Prompt) + i \in 1 .. Len(s)
            BY <1>1, <4>1, <5>1
          <6> QED BY <1>2, <2>1, <4>1, <5>1, <6>1
        <5>2. CASE i = Len(d) + 1
          <6>1. Len(Prompt) + i = Len(s) + 1
            BY <1>1, <4>1, <5>2
          <6>2. Append(s, c)[Len(Prompt) + i] = c
            BY <2>1, <6>1
          <6> QED BY <1>2, <5>2, <6>2
        <5>3. i \in 1 .. Len(d) \/ i = Len(d) + 1
          BY <1>1
        <5> QED BY <5>1, <5>2, <5>3
      <4> QED BY <1>1, <1>2, <2>1, <4>1, <4>2
    <3> QED BY <3>1, <3>2, <3>3 DEF Row
  <2> QED BY <1>1, <1>3, <1>5, <2>1, <2>2
<1> QED BY <1>4, <1>5

-----------------------------------------------------------------------------
(* A call of tty_read() that begins or returns: the row begins anew.        *)
LEMMA RowBegins ==
    ASSUME NEW tab
    PROVE  Row(Prompt, <<>>, tab, 0) /\ 0 =< Len(<<>>)
BY Given DEF T!TerminalAssumption, Row

(* The prompt is part of the row.                                           *)
LEMMA PromptTyped == Prompt \in Seq(Cell)
BY Given DEF T!TerminalAssumption, Cell

LEMMA TtyReturn ==
    ASSUME NEW p \in Procs, NEW n, NEW c, TtyInv, T!AtLoop(p),
           T!Return(p, n, c), rx' \in Seq(T!Input), rx = <<>> => rx' = <<>>
    PROVE  TtyInv'
<1> USE DEF TtyInv
<1>1. DOMAIN pc' = Procs /\ pc'[p] # "sleep" /\ \A q \in Procs \ {p} : pc'[q] = pc[q]
  BY DEF T!Return, TtyTyped
<1>2. TtyTyped'
  BY <1>1, PromptTyped DEF T!Return, TtyTyped
<1>3. RowsKept'
  <2> SUFFICES ASSUME NEW q \in Procs PROVE RowKept(q)'
    BY DEF RowsKept
  <2>1. CASE q = p
    <3>1. dest'[p] = <<>> /\ shown'[p] = Prompt /\ tabbed'[p] = FALSE /\ erased'[p] = erased[p]
      BY DEF T!Return, TtyTyped
    <3>2. erased[p] = 0
      BY DEF RowsKept, RowKept, T!AtLoop
    <3>3. Row(Prompt, <<>>, tabbed'[p], 0) /\ 0 =< Len(<<>>)
      BY RowBegins
    <3> QED BY <2>1, <3>1, <3>2, <3>3 DEF RowKept
  <2>2. CASE q # p
    BY <1>1, <2>2 DEF T!Return, TtyTyped, RowsKept, RowKept
  <2> QED BY <2>1, <2>2
<1>4. T!ReadersWoken'
  BY <1>1 DEF T!Return, T!ReadersWoken
<1> QED BY <1>2, <1>3, <1>4

(* A step that leaves the lines and their rows alone, and only wakes        *)
(* readers up, or lets one go on.                                           *)
LEMMA RowsStay ==
    ASSUME TtyInv, UNCHANGED <<dest, shown, tabbed, erased>>, DOMAIN pc' = Procs,
           \A q \in Procs : pc'[q] # pc[q] => pc[q] # "line" \/ erased[q] = 0
    PROVE  RowsKept'
<1> SUFFICES ASSUME NEW q \in Procs PROVE RowKept(q)'
  BY DEF RowsKept
<1>1. RowKept(q)
  BY DEF TtyInv, RowsKept
<1> QED BY <1>1 DEF RowKept

(* A step of reader p on its line: the rows of the others stay.             *)
LEMMA RowOfOne ==
    ASSUME TtyInv, NEW p \in Procs,
           \A q \in Procs \ {p} : /\ dest'[q] = dest[q] /\ shown'[q] = shown[q] /\ pc'[q] = pc[q]
                                  /\ tabbed'[q] = tabbed[q] /\ erased'[q] = erased[q],
           RowKept(p)'
    PROVE  RowsKept'
<1> SUFFICES ASSUME NEW q \in Procs, q # p PROVE RowKept(q)'
  BY DEF RowsKept
<1>1. RowKept(q)
  BY DEF TtyInv, RowsKept
<1> QED BY <1>1 DEF RowKept

(* One more "\b \b" and --i.                                                *)
LEMMA ErasesLast ==
    ASSUME TtyInv, NEW p \in Procs, T!EraseLast(p), dest[p] # <<>>, erased[p] = 0, erased' = erased,
           tabbed' = tabbed, DOMAIN pc' = Procs, \A q \in Procs \ {p} : pc'[q] = pc[q]
    PROVE  /\ dest' \in [Procs -> Seq(T!Input)] /\ shown' \in [Procs -> Seq(Cell)]
           /\ RowsKept'
<1> USE DEF TtyInv, TtyTyped
<1>1. /\ dest' = [dest EXCEPT ![p] = T!Front(dest[p])]
      /\ shown' = [shown EXCEPT ![p] = T!Echo(p, T!Erase(shown[p]))]
  BY DEF T!EraseLast
<1>2. T!Front(dest[p]) \in Seq(T!Input) /\ T!Unknown \in Seq(Cell)
  BY DEF T!Front, T!Unknown, Cell
<1>3. \/ T!Echo(p, T!Erase(shown[p])) = T!Unknown
      \/ /\ T!Echo(p, T!Erase(shown[p])) = T!Erase(shown[p])
         /\ shown[p] # T!Unknown
  BY DEF T!Echo
<1>4. shown[p] # T!Unknown => /\ T!Erase(shown[p]) \in Seq(Cell)
                              /\ Row(T!Erase(shown[p]), T!Front(dest[p]), tabbed[p], 0)
  BY EraseBoth DEF RowsKept, RowKept
<1>5. /\ T!Echo(p, T!Erase(shown[p])) \in Seq(Cell)
      /\ \/ T!Echo(p, T!Erase(shown[p])) = T!Unknown
         \/ Row(T!Echo(p, T!Erase(shown[p])), T!Front(dest[p]), tabbed[p], 0)
  BY <1>2, <1>3, <1>4
<1>6. dest' \in [Procs -> Seq(T!Input)] /\ shown' \in [Procs -> Seq(Cell)]
  BY <1>1, <1>2, <1>5
<1>7. RowKept(p)'
  <2>1. dest'[p] = T!Front(dest[p]) /\ shown'[p] = T!Echo(p, T!Erase(shown[p])) /\ erased'[p] = 0
    BY <1>1
  <2>2. Len(T!Front(dest[p])) \in Nat
    BY <1>2
  <2> QED BY <1>5, <2>1, <2>2 DEF RowKept
<1>8. \A q \in Procs \ {p} : dest'[q] = dest[q] /\ shown'[q] = shown[q]
  BY <1>1
<1>9. RowsKept'
  BY <1>7, <1>8, RowOfOne
<1> QED BY <1>6, <1>9

-----------------------------------------------------------------------------
(* Each step of the terminal.                                               *)
LEMMA TtyStep ==
    ASSUME TtyInv, T!Next
    PROVE  TtyInv'
<1>1. ASSUME NEW c \in T!Input, T!TtyInput(c) PROVE TtyInv'
  <2>1. rx' \in Seq(T!Input)
    BY <1>1, Given DEF T!TtyInput, T!Pushed, TtyInv, TtyTyped, T!TerminalAssumption
  <2>2. DOMAIN pc' = Procs /\ \A q \in Procs : /\ pc'[q] # "sleep"
                                               /\ pc'[q] # pc[q] => pc[q] = "sleep"
    BY <1>1 DEF T!TtyInput, T!Woken, T!Sleepers, TtyInv, TtyTyped
  <2>3. UNCHANGED <<dest, shown, tabbed, erased>>
    BY <1>1 DEF T!TtyInput
  <2>4. RowsKept'
    BY <2>2, <2>3, RowsStay
  <2> QED BY <2>1, <2>2, <2>3, <2>4 DEF TtyInv, TtyTyped, T!ReadersWoken
<1>2. ASSUME T!TtyInterrupt PROVE TtyInv'
  <2> DEFINE group == {p \in Procs : pc[p] # "exited" /\ Pgrp[p] = tpgrp}
  <2>1. pc' = T!Woken(T!Sleepers \cap group) /\ pending' = pending \cup group
    BY <1>2 DEF T!TtyInterrupt
  <2>2. DOMAIN pc' = Procs /\ \A q \in Procs : /\ pc'[q] = "sleep" => pc[q] = "sleep" /\ q \notin group
                                               /\ pc'[q] # pc[q] => pc[q] = "sleep"
    <3> HIDE DEF group
    <3> QED BY <2>1 DEF T!Woken, T!Sleepers, TtyInv, TtyTyped
  <2>3. UNCHANGED <<rx, dest, shown, tabbed, erased>>
    BY <1>2 DEF T!TtyInterrupt
  <2> HIDE DEF group
  <2>4. RowsKept'
    BY <2>2, <2>3, RowsStay
  <2> QED BY <2>1, <2>2, <2>3, <2>4 DEF TtyInv, TtyTyped, T!ReadersWoken
<1>3. ASSUME NEW p \in Procs, T!Read(p) PROVE TtyInv'
  <2>1. /\ dest' = [dest EXCEPT ![p] = <<>>] /\ shown' = [shown EXCEPT ![p] = Prompt]
        /\ tabbed' = [tabbed EXCEPT ![p] = FALSE] /\ pc' = [pc EXCEPT ![p] = "read"]
        /\ pc[p] = "user" /\ UNCHANGED <<rx, erased, pending>>
    BY <1>3 DEF T!Read
  <2>2. TtyTyped'
    BY <2>1, PromptTyped DEF TtyInv, TtyTyped
  <2>3. erased[p] = 0
    BY <2>1 DEF TtyInv, RowsKept, RowKept
  <2>4. RowKept(p)'
    <3>1. dest'[p] = <<>> /\ shown'[p] = Prompt /\ tabbed'[p] = FALSE /\ erased'[p] = 0
      BY <2>1, <2>3 DEF TtyInv, TtyTyped
    <3>2. Row(Prompt, <<>>, tabbed'[p], 0) /\ 0 =< Len(<<>>)
      BY RowBegins
    <3> QED BY <3>1, <3>2 DEF RowKept
  <2>5. RowsKept'
    BY <2>1, <2>4, RowOfOne DEF TtyInv, TtyTyped
  <2> QED BY <2>1, <2>2, <2>5 DEF TtyInv, TtyTyped, T!ReadersWoken
<1>4. ASSUME NEW p \in Procs, T!ReadRaw(p) PROVE TtyInv'
  <2>1. /\ rx' \in Seq(T!Input) /\ rx # <<>> /\ T!Return(p, Len(dest[p]) + 1, Head(rx))
        /\ T!AtLoop(p)
    BY <1>4 DEF T!ReadRaw, TtyInv, TtyTyped
  <2> QED BY <2>1, TtyReturn
<1>5. ASSUME NEW p \in Procs, T!ReadEnds(p) PROVE TtyInv'
  <2>1. rx' \in Seq(T!Input) /\ rx # <<>> /\ T!Return(p, 0, Head(rx)) /\ T!AtLoop(p)
    BY <1>5 DEF T!ReadEnds, T!Take, TtyInv, TtyTyped
  <2> QED BY <2>1, TtyReturn
<1>6. ASSUME NEW p \in Procs, T!ReadChar(p) PROVE TtyInv'
  <2> DEFINE c == IF Head(rx) = "cr" THEN "lf" ELSE Head(rx)
             d == dest[p]
             s == shown[p]
             new == T!Echo(p, T!Put(s, c))
  <2>1. /\ rx # <<>> /\ rx' = Tail(rx) /\ T!AtLoop(p) /\ UNCHANGED <<pc, pending, erased>>
        /\ dest' = [dest EXCEPT ![p] = Append(d, c)]
        /\ shown' = [shown EXCEPT ![p] = new]
        /\ tabbed' = [tabbed EXCEPT ![p] = tabbed[p] \/ c = "tab"]
    BY <1>6 DEF T!ReadChar, T!Take
  <2>2. c \in T!Input /\ rx' \in Seq(T!Input)
    BY <2>1 DEF TtyInv, TtyTyped, T!Input
  <2>3. /\ d \in Seq(T!Input) /\ s \in Seq(Cell) /\ T!Unknown \in Seq(Cell)
        /\ tabbed[p] \in BOOLEAN
    BY DEF TtyInv, TtyTyped, T!Unknown, Cell
  <2>4. erased[p] = 0 /\ (s = T!Unknown \/ Row(s, d, tabbed[p], 0))
    BY <2>1 DEF TtyInv, RowsKept, RowKept, T!AtLoop
  <2>5. new = T!Unknown \/ (new = T!Put(s, c) /\ s # T!Unknown)
    BY DEF T!Echo
  <2> HIDE DEF c, d, s, new
  <2>6. /\ new \in Seq(Cell)
        /\ new = T!Unknown \/ Row(new, Append(d, c), tabbed[p] \/ c = "tab", 0)
    BY <2>2, <2>3, <2>4, <2>5, PutCell
  <2>7. Append(d, c) \in Seq(T!Input) /\ (tabbed[p] \/ c = "tab") \in BOOLEAN
    BY <2>2, <2>3
  <2>8. TtyTyped'
    BY <2>1, <2>2, <2>6, <2>7 DEF TtyInv, TtyTyped
  <2>9. RowKept(p)'
    <3>1. /\ dest'[p] = Append(d, c) /\ shown'[p] = new /\ erased'[p] = 0
          /\ tabbed'[p] = (tabbed[p] \/ c = "tab")
      BY <2>1, <2>4 DEF TtyInv, TtyTyped
    <3>2. Len(Append(d, c)) \in Nat
      BY <2>7
    <3> QED BY <2>6, <3>1, <3>2 DEF RowKept
  <2>10. RowsKept'
    BY <2>1, <2>9, RowOfOne DEF TtyInv, TtyTyped
  <2> QED BY <2>1, <2>8, <2>10 DEF TtyInv, T!ReadersWoken
<1>7. ASSUME NEW p \in Procs, T!ReadReturn(p) PROVE TtyInv'
  <2>1. rx' = rx /\ T!Return(p, Len(dest[p]), "lf") /\ T!AtLoop(p)
    BY <1>7 DEF T!ReadReturn
  <2> QED BY <2>1, TtyReturn DEF TtyInv, TtyTyped
<1>8. ASSUME NEW p \in Procs, T!ReadErase(p) PROVE TtyInv'
  <2>1. /\ T!AtLoop(p) /\ rx # <<>> /\ rx' = Tail(rx) /\ UNCHANGED <<pc, pending, erased, tabbed>>
        /\ (dest[p] # <<>> /\ T!EraseLast(p)) \/ UNCHANGED <<dest, shown>>
    BY <1>8 DEF T!ReadErase, T!Take
  <2>2. rx' \in Seq(T!Input) /\ erased[p] = 0
    BY <2>1 DEF TtyInv, TtyTyped, RowsKept, RowKept, T!AtLoop
  <2>3. /\ dest' \in [Procs -> Seq(T!Input)] /\ shown' \in [Procs -> Seq(Cell)]
        /\ RowsKept'
    <3>1. CASE dest[p] # <<>> /\ T!EraseLast(p)
      BY <2>1, <2>2, <3>1, ErasesLast DEF TtyInv, TtyTyped
    <3>2. CASE UNCHANGED <<dest, shown>>
      BY <2>1, <3>2, RowsStay DEF TtyInv, TtyTyped
    <3> QED BY <2>1, <3>1, <3>2
  <2> QED BY <2>1, <2>2, <2>3 DEF TtyInv, TtyTyped, T!ReadersWoken
<1>9. ASSUME NEW p \in Procs, T!KillWord(p) PROVE TtyInv'
  <2>1. /\ T!AtLoop(p) /\ rx # <<>> /\ rx' = Tail(rx) /\ UNCHANGED <<pending, erased, tabbed>>
        /\ (dest[p] # <<>> /\ T!EraseLast(p)) \/ UNCHANGED <<dest, shown>>
        /\ pc' = [pc EXCEPT ![p] = "spaces"]
    BY <1>9 DEF T!KillWord, T!Take
  <2>2. rx' \in Seq(T!Input) /\ erased[p] = 0
    BY <2>1 DEF TtyInv, TtyTyped, RowsKept, RowKept, T!AtLoop
  <2>3. DOMAIN pc' = Procs /\ pc'[p] = "spaces" /\ \A q \in Procs \ {p} : pc'[q] = pc[q]
    BY <2>1 DEF TtyInv, TtyTyped
  <2>4. /\ dest' \in [Procs -> Seq(T!Input)] /\ shown' \in [Procs -> Seq(Cell)]
        /\ RowsKept'
    <3>1. CASE dest[p] # <<>> /\ T!EraseLast(p)
      BY <2>1, <2>2, <2>3, <3>1, ErasesLast
    <3>2. CASE UNCHANGED <<dest, shown>>
      <4>1. \A q \in Procs : pc'[q] # pc[q] => pc[q] # "line"
        BY <2>1, <2>3 DEF T!AtLoop
      <4> QED BY <2>1, <2>3, <3>2, <4>1, RowsStay DEF TtyInv, TtyTyped
    <3> QED BY <2>1, <3>1, <3>2
  <2> QED BY <2>1, <2>2, <2>3, <2>4 DEF TtyInv, TtyTyped, T!ReadersWoken
<1>10. ASSUME NEW p \in Procs, T!KillSpaces(p) \/ T!KillLetters(p) PROVE TtyInv'
  <2>1. /\ pc[p] \in {"spaces", "word"} /\ dest[p] # <<>> /\ T!EraseLast(p)
        /\ UNCHANGED <<rx, pc, pending, erased, tabbed>>
    BY <1>10 DEF T!KillSpaces, T!KillLetters
  <2>2. erased[p] = 0
    BY <2>1 DEF TtyInv, RowsKept, RowKept
  <2>3. /\ dest' \in [Procs -> Seq(T!Input)] /\ shown' \in [Procs -> Seq(Cell)]
        /\ RowsKept'
    BY <2>1, <2>2, ErasesLast DEF TtyInv, TtyTyped
  <2> QED BY <2>1, <2>3 DEF TtyInv, TtyTyped, T!ReadersWoken
<1>11. ASSUME NEW p \in Procs, T!SpacesKilled(p) \/ T!WordKilled(p) PROVE TtyInv'
  <2>1. /\ pc[p] \in {"spaces", "word"} /\ UNCHANGED <<rx, dest, shown, pending, erased, tabbed>>
        /\ \E to \in {"word", "read"} : pc' = [pc EXCEPT ![p] = to]
    BY <1>11 DEF T!SpacesKilled, T!WordKilled
  <2>2. DOMAIN pc' = Procs /\ pc'[p] # "sleep" /\ \A q \in Procs \ {p} : pc'[q] = pc[q]
    BY <2>1 DEF TtyInv, TtyTyped
  <2>3. RowsKept'
    BY <2>1, <2>2, RowsStay
  <2> QED BY <2>1, <2>2, <2>3 DEF TtyInv, TtyTyped, T!ReadersWoken
<1>12. ASSUME NEW p \in Procs, T!KillLine(p) PROVE TtyInv'
  <2>1. /\ T!AtLoop(p) /\ rx # <<>> /\ rx' = Tail(rx) /\ UNCHANGED <<dest, shown, pending, tabbed>>
        /\ pc' = [pc EXCEPT ![p] = "line"] /\ erased' = [erased EXCEPT ![p] = 0]
    BY <1>12 DEF T!KillLine, T!Take
  <2>2. rx' \in Seq(T!Input) /\ erased[p] = 0 /\ erased' = erased
    BY <2>1 DEF TtyInv, TtyTyped, RowsKept, RowKept, T!AtLoop
  <2>3. DOMAIN pc' = Procs /\ pc'[p] # "sleep" /\ \A q \in Procs \ {p} : pc'[q] = pc[q]
    BY <2>1 DEF TtyInv, TtyTyped
  <2>4. RowsKept'
    BY <2>1, <2>2, <2>3, RowsStay
  <2> QED BY <2>1, <2>2, <2>3, <2>4 DEF TtyInv, TtyTyped, T!ReadersWoken
<1>13. ASSUME NEW p \in Procs, T!EraseLine(p) PROVE TtyInv'
  <2> DEFINE s == shown[p]
             new == T!Echo(p, T!Erase(s))
  <2>1. /\ pc[p] = "line" /\ erased[p] < Len(dest[p]) /\ UNCHANGED <<rx, dest, pc, pending, tabbed>>
        /\ shown' = [shown EXCEPT ![p] = new] /\ erased' = [erased EXCEPT ![p] = erased[p] + 1]
    BY <1>13 DEF T!EraseLine
  <2>2. /\ s \in Seq(Cell) /\ T!Unknown \in Seq(Cell) /\ erased[p] \in Nat /\ tabbed[p] \in BOOLEAN
        /\ dest[p] \in Seq(T!Input)
    BY DEF TtyInv, TtyTyped, T!Unknown, Cell
  <2>3. s = T!Unknown \/ Row(s, dest[p], tabbed[p], erased[p])
    BY DEF TtyInv, RowsKept, RowKept
  <2>4. new = T!Unknown \/ (new = T!Erase(s) /\ s # T!Unknown)
    BY DEF T!Echo
  <2> HIDE DEF s, new
  <2>5. new \in Seq(Cell) /\ (new = T!Unknown \/ Row(new, dest[p], tabbed[p], erased[p] + 1))
    BY <2>1, <2>2, <2>3, <2>4, EraseCell
  <2>6. TtyTyped'
    BY <2>1, <2>2, <2>5 DEF TtyInv, TtyTyped
  <2>7. RowKept(p)'
    <3>1. shown'[p] = new /\ erased'[p] = erased[p] + 1
      BY <2>1 DEF TtyInv, TtyTyped
    <3>2. Len(dest[p]) \in Nat
      BY <2>2
    <3> QED BY <2>1, <2>2, <2>5, <3>1, <3>2 DEF RowKept
  <2>8. RowsKept'
    BY <2>1, <2>7, RowOfOne DEF TtyInv, TtyTyped
  <2> QED BY <2>1, <2>6, <2>8 DEF TtyInv, T!ReadersWoken
<1>14. ASSUME NEW p \in Procs, T!LineKilled(p) PROVE TtyInv'
  <2>1. /\ pc[p] = "line" /\ erased[p] >= Len(dest[p]) /\ UNCHANGED <<rx, shown, pending, tabbed>>
        /\ dest' = [dest EXCEPT ![p] = <<>>] /\ erased' = [erased EXCEPT ![p] = 0]
        /\ pc' = [pc EXCEPT ![p] = "read"]
    BY <1>14 DEF T!LineKilled
  <2>2. TtyTyped'
    BY <2>1 DEF TtyInv, TtyTyped
  <2>3. DOMAIN pc' = Procs /\ pc'[p] = "read" /\ \A q \in Procs \ {p} : pc'[q] = pc[q]
    BY <2>1 DEF TtyInv, TtyTyped
  <2>4. RowKept(p)'
    <3>1. dest'[p] = <<>> /\ erased'[p] = 0
      BY <2>1 DEF TtyInv, TtyTyped
    <3>2. erased[p] = Len(dest[p]) /\ Len(dest[p]) \in Nat
      BY <2>1 DEF TtyInv, TtyTyped, RowsKept, RowKept
    <3>3. shown[p] = T!Unknown \/ Row(shown[p], dest[p], tabbed[p], Len(dest[p]))
      BY <3>2 DEF TtyInv, RowsKept, RowKept
    <3>4. Len(Prompt) \in Nat
      BY Given DEF T!TerminalAssumption
    <3>5. Row(shown[p], dest[p], tabbed[p], Len(dest[p])) => Row(shown[p], <<>>, tabbed[p], 0)
      BY <3>2, <3>4 DEF Row
    <3> QED BY <2>1, <3>1, <3>3, <3>5 DEF RowKept
  <2>5. RowsKept'
    BY <2>1, <2>3, <2>4, RowOfOne DEF TtyInv, TtyTyped
  <2> QED BY <2>1, <2>2, <2>3, <2>5 DEF TtyInv, T!ReadersWoken
<1>15. ASSUME NEW p \in Procs, T!ReadBlock(p) \/ T!Resume(p) PROVE TtyInv'
  <2>1. /\ UNCHANGED <<rx, dest, shown, tabbed, erased, pending>> /\ pc[p] \in {"read", "woken"}
        /\ \/ pc' = [pc EXCEPT ![p] = "sleep"] /\ rx = <<>> /\ p \notin pending
           \/ pc' = [pc EXCEPT ![p] = "read"]
    BY <1>15 DEF T!ReadBlock, T!Resume, T!AtLoop
  <2>2. DOMAIN pc' = Procs /\ \A q \in Procs \ {p} : pc'[q] = pc[q]
    BY <2>1 DEF TtyInv, TtyTyped
  <2>3. RowsKept'
    BY <2>1, <2>2, RowsStay
  <2> QED BY <2>1, <2>2, <2>3 DEF TtyInv, TtyTyped, T!ReadersWoken
<1>16. ASSUME NEW p \in Procs, T!ReadInterrupted(p) PROVE TtyInv'
  <2>1. rx' = rx /\ T!Return(p, -1, "none") /\ T!AtLoop(p)
    BY <1>16 DEF T!ReadInterrupted
  <2> QED BY <2>1, TtyReturn DEF TtyInv, TtyTyped
<1>17. ASSUME NEW p \in Procs, NEW flags \in Lflags, T!Ioctl(p, flags) PROVE TtyInv'
  <2>1. UNCHANGED <<rx, pc, dest, shown, tabbed, erased, pending>>
    BY <1>17 DEF T!Ioctl
  <2>2. RowsKept'
    BY <2>1, RowsStay DEF TtyInv, TtyTyped
  <2> QED BY <2>1, <2>2 DEF TtyInv, TtyTyped, T!ReadersWoken
<1> QED BY <1>1, <1>2, <1>3, <1>4, <1>5, <1>6, <1>7, <1>8, <1>9, <1>10, <1>11, <1>12, <1>13,
           <1>14, <1>15, <1>16, <1>17 DEF T!Next

-----------------------------------------------------------------------------
(* Each step of the keyboard, the serial line and their reader.             *)
LEMMA DevStep ==
    ASSUME DevTyped, K!SleepsOnEmpty, K!Next
    PROVE  DevTyped' /\ K!SleepsOnEmpty'
<1> USE DEF DevTyped, K!SleepsOnEmpty
<1>1. ASSUME NEW k \in K!Keys, NEW pressed \in BOOLEAN, K!KbIrq(k, pressed) PROVE DevTyped' /\ K!SleepsOnEmpty'
  <2>1. UNCHANGED <<kdev, got, ksignal>>
    BY <1>1 DEF K!KbIrq
  <2>2. CASE UNCHANGED <<ring, kpc>>
    BY <2>1, <2>2
  <2>3. CASE /\ DOMAIN ring' = DOMAIN ring /\ \A d \in K!Devs \ {"kb"} : ring'[d] = ring[d]
             /\ kpc' = K!Woken("kb")
    BY <2>1, <2>3 DEF K!Woken
  <2>4. \/ UNCHANGED <<ring, kpc>>
        \/ /\ ring' = [ring EXCEPT !["kb"] = K!FoldLeft(K!Put, ring["kb"], K!Cooked(k))]
           /\ kpc' = K!Woken("kb")
    BY <1>1 DEF K!KbIrq
  <2> QED BY <2>2, <2>3, <2>4
<1>2. ASSUME K!UartIntr("c") PROVE DevTyped' /\ K!SleepsOnEmpty'
  <2>1. /\ UNCHANGED <<kdev, got, ksignal>> /\ kpc' = K!Woken("uart")
        /\ ring' = [ring EXCEPT !["uart"] = K!Put(@, "c")]
    BY <1>2 DEF K!UartIntr
  <2>2. DOMAIN ring' = DOMAIN ring /\ \A d \in K!Devs \ {"uart"} : ring'[d] = ring[d]
    BY <2>1
  <2> QED BY <2>1, <2>2 DEF K!Woken
<1>3. ASSUME K!Kill PROVE DevTyped' /\ K!SleepsOnEmpty'
  BY <1>3 DEF K!Kill
<1>4. ASSUME NEW d \in K!Devs, K!Read(d) PROVE DevTyped' /\ K!SleepsOnEmpty'
  BY <1>4 DEF K!Read
<1>5. ASSUME K!Take PROVE DevTyped' /\ K!SleepsOnEmpty'
  BY <1>5 DEF K!Take
<1>6. ASSUME K!Block PROVE DevTyped' /\ K!SleepsOnEmpty'
  BY <1>6 DEF K!Block, K!Waits
<1>7. ASSUME K!Resume PROVE DevTyped' /\ K!SleepsOnEmpty'
  BY <1>7 DEF K!Resume
<1>8. ASSUME K!Return PROVE DevTyped' /\ K!SleepsOnEmpty'
  BY <1>8 DEF K!Return
<1> QED BY <1>1, <1>2, <1>3, <1>4, <1>5, <1>6, <1>7, <1>8 DEF K!Next, K!Interrupted, K!Done

-----------------------------------------------------------------------------
(* The three start out with nothing read and nothing shown.                 *)
LEMMA InputInit == ASSUME MCInit PROVE InputInv
<1>1. TtyTyped
  BY PromptTyped DEF MCInit, T!Init, TtyTyped
<1>2. DevTyped
  BY DEF MCInit, K!Init, DevTyped
<1>3. RowsKept
  <2>1. \A p \in Procs : Row(Prompt, <<>>, tabbed[p], 0) /\ 0 =< Len(<<>>)
    BY RowBegins
  <2> QED BY <2>1 DEF MCInit, T!Init, RowsKept, RowKept
<1>4. InputWakes /\ T!ReadersWoken
  BY DEF MCInit, T!Init, K!Init, InputWakes, T!ReadersWoken, K!SleepsOnEmpty
<1> QED BY <1>1, <1>2, <1>3, <1>4 DEF InputInv, TtyInv

(* A step of one of the three keeps what is said of it and leaves the other *)
(* two alone.                                                               *)
LEMMA InputStep ==
    ASSUME InputInv, [MCNext]_<<part, vars, terminal, keyboard>>
    PROVE  InputInv'
<1>1. ASSUME UNCHANGED terminal PROVE TtyInv'
  <2>1. UNCHANGED <<rx, pc, dest, shown, tabbed, erased, pending>>
    BY <1>1 DEF terminal
  <2>2. RowsKept'
    BY <2>1, RowsStay DEF InputInv, TtyInv, TtyTyped
  <2> QED BY <2>1, <2>2 DEF InputInv, TtyInv, TtyTyped, T!ReadersWoken
<1>2. ASSUME UNCHANGED keyboard PROVE DevTyped' /\ K!SleepsOnEmpty'
  BY <1>2 DEF InputInv, InputWakes, DevTyped, K!SleepsOnEmpty, keyboard
<1>3. ASSUME TerminalNext PROVE InputInv'
  <2>1. T!Next /\ UNCHANGED keyboard
    BY <1>3 DEF TerminalNext
  <2>2. TtyInv'
    BY <2>1, TtyStep DEF InputInv
  <2> QED BY <1>2, <2>1, <2>2 DEF InputInv, TtyInv, InputWakes
<1>4. ASSUME KeyboardNext PROVE InputInv'
  <2>1. K!Next /\ UNCHANGED terminal
    BY <1>4 DEF KeyboardNext
  <2>2. DevTyped' /\ K!SleepsOnEmpty'
    BY <2>1, DevStep DEF InputInv, InputWakes
  <2> QED BY <1>1, <2>1, <2>2 DEF InputInv, TtyInv, InputWakes
<1>5. ASSUME UNCHANGED <<terminal, keyboard>> PROVE InputInv'
  BY <1>1, <1>2, <1>5 DEF InputInv, TtyInv, InputWakes
<1> QED BY <1>3, <1>4, <1>5 DEF MCNext, ScreenNext

(* The line that tty_read() returns is the one that it echoed, whatever was *)
(* erased of it, and no more was erased than it had, for any number of      *)
(* readers, any size of the ring and of a row.                              *)
THEOREM LineEchoed == MCSpec => []EchoIsLine
<1>1. InputInv => EchoIsLine
  <2> SUFFICES ASSUME InputInv, NEW p \in Procs, pc[p] \notin T!Editing
               PROVE  shown[p] = T!Unknown \/ T!Shows(shown[p], dest[p], tabbed[p])
    BY DEF EchoIsLine, T!EchoIsLine
  <2>1. erased[p] = 0 /\ (shown[p] = T!Unknown \/ Row(shown[p], dest[p], tabbed[p], erased[p]))
    BY DEF InputInv, TtyInv, RowsKept, RowKept, T!Editing
  <2>2. shown[p] \in Seq(Cell) /\ dest[p] \in Seq(T!Input) /\ tabbed[p] \in BOOLEAN
    BY DEF InputInv, TtyInv, TtyTyped
  <2> QED BY <2>1, <2>2, RowShows
<1> QED BY <1>1, InputInit, InputStep, PTL DEF MCSpec

(* No wakeup is lost between tty_input(), kb_irq() or uart_intr() and those *)
(* that read: who sleeps has neither input nor a signal.                    *)
THEOREM ReadersAwake == MCSpec => []InputWakes
<1>1. InputInv => InputWakes
  BY DEF InputInv
<1> QED BY <1>1, InputInit, InputStep, PTL DEF MCSpec

-----------------------------------------------------------------------------
(* The sizes: a screen is not empty, and uint16_t holds each position and   *)
(* one more.                                                                *)
Sizes ==
    /\ VGA_WIDTH \in Nat \ {0} /\ VGA_HEIGHT \in Nat \ {0}
    /\ UINT16 \in Nat /\ Cells < UINT16 /\ UINT32 \in Nat \ {0}

ScreenInv == CursorOnScreen /\ args \in Seq(Nat)

(* Quotient and remainder of a natural number.                              *)
LEMMA Quotient ==
    ASSUME NEW n \in Nat \ {0}, NEW a \in Nat
    PROVE  a \div n \in Nat /\ a % n \in 0 .. n - 1 /\ a = (a \div n) * n + (a % n)
OBVIOUS

(* The last cell of line y is within a screen of more than y lines.         *)
LEMMA LineFits ==
    ASSUME NEW w \in Nat \ {0}, NEW h \in Nat, NEW y \in Nat, y < h
    PROVE  y * w \in Nat /\ y * w + w =< h * w
<1>1. PICK k \in Nat : h = y + 1 + k
  BY h - y - 1 \in Nat, h = y + 1 + (h - y - 1)
<1>2. h * w = y * w + w + k * w
  BY <1>1
<1>3. k * w \in Nat /\ y * w \in Nat
  OBVIOUS
<1> QED BY <1>2, <1>3

(* The number of cells.                                                     *)
LEMMA CellsFit == ASSUME Sizes PROVE Cells \in Nat /\ VGA_WIDTH =< Cells
<1>1. 0 * VGA_WIDTH + VGA_WIDTH =< VGA_HEIGHT * VGA_WIDTH
  BY LineFits DEF Sizes
<1>2. Cells = VGA_HEIGHT * VGA_WIDTH /\ Cells \in Nat
  BY DEF Cells, Sizes
<1> QED BY <1>1, <1>2 DEF Sizes

(* A line that has a cell of the screen is on it as a whole.                *)
LEMMA LineOnScreen ==
    ASSUME Sizes, NEW pos \in 0 .. Cells - 1
    PROVE  LineStart(pos) \in Nat /\ LineStart(pos) =< pos /\ LineStart(pos) + VGA_WIDTH =< Cells
<1> DEFINE y == pos \div VGA_WIDTH
<1>1. pos \in Nat /\ pos < VGA_HEIGHT * VGA_WIDTH /\ Cells = VGA_HEIGHT * VGA_WIDTH
  BY CellsFit DEF Cells, Sizes
<1>2. y \in Nat /\ pos % VGA_WIDTH \in Nat /\ pos = y * VGA_WIDTH + (pos % VGA_WIDTH)
  BY <1>1, Quotient DEF Sizes
<1>3. LineStart(pos) = y * VGA_WIDTH /\ y * VGA_WIDTH \in Nat
  BY <1>2 DEF LineStart, Sizes
<1> HIDE DEF y
<1>4. y < VGA_HEIGHT
  <2> SUFFICES ASSUME y >= VGA_HEIGHT PROVE FALSE
    BY <1>2 DEF Sizes
  <2>1. PICK k \in Nat : y = VGA_HEIGHT + k
    BY <1>2, y - VGA_HEIGHT \in Nat, y = VGA_HEIGHT + (y - VGA_HEIGHT) DEF Sizes
  <2>2. y * VGA_WIDTH = VGA_HEIGHT * VGA_WIDTH + k * VGA_WIDTH /\ k * VGA_WIDTH \in Nat
    BY <2>1 DEF Sizes
  <2> QED BY <1>1, <1>2, <1>3, <2>2 DEF Sizes
<1>5. y * VGA_WIDTH + VGA_WIDTH =< VGA_HEIGHT * VGA_WIDTH
  BY <1>2, <1>4, LineFits DEF Sizes
<1> QED BY <1>1, <1>2, <1>3, <1>5

(* cn_putchar_raw() leaves the cursor on the screen: a backspace in the     *)
(* first cell wraps to a position that scrolls.                             *)
LEMMA RawOnScreen ==
    ASSUME Sizes, NEW pos \in 0 .. Cells - 1, NEW c
    PROVE  Raw(pos, c) \in 0 .. Cells - 1 /\ Wrote(pos, c) \subseteq 0 .. Cells - 1
<1>1. Cells \in Nat /\ VGA_WIDTH =< Cells /\ VGA_WIDTH \in Nat \ {0}
  BY CellsFit DEF Sizes
<1>2. LineStart(pos) \in Nat
  BY LineOnScreen
<1>3. (pos - 1) % UINT16 \in Nat
  BY <1>1 DEF Sizes
<1>4. ((pos + 8) \div 4) * 4 \in Nat
  BY <1>1
<1>5. Moved(pos, c) \in Nat
  BY <1>1, <1>2, <1>3, <1>4 DEF Moved
<1>6. Raw(pos, c) \in 0 .. Cells - 1
  BY <1>1, <1>5 DEF Raw, Scrolled
<1> QED BY <1>6 DEF Wrote

(* cn_goto() takes any two numbers to a cell of the screen.                 *)
LEMMA GotoOnScreen ==
    ASSUME Sizes, NEW x \in Nat, NEW y \in Nat
    PROVE  Goto(x, y) \in 0 .. Cells - 1
<1> DEFINE r == ((y - 1) % UINT32) % VGA_HEIGHT
           k == x % VGA_WIDTH
<1>1. (y - 1) % UINT32 \in Nat
  BY DEF Sizes
<1>2. r \in 0 .. VGA_HEIGHT - 1
  BY <1>1, Quotient DEF Sizes
<1>3. k \in 0 .. VGA_WIDTH - 1
  BY Quotient DEF Sizes
<1>4. Goto(x, y) = r * VGA_WIDTH + k
  BY DEF Goto
<1> HIDE DEF r, k
<1>5. r * VGA_WIDTH \in Nat /\ r * VGA_WIDTH + VGA_WIDTH =< VGA_HEIGHT * VGA_WIDTH
  BY <1>2, LineFits DEF Sizes
<1>6. Cells = VGA_HEIGHT * VGA_WIDTH /\ Cells \in Nat
  BY DEF Cells, Sizes
<1> QED BY <1>3, <1>4, <1>5, <1>6 DEF Sizes

(* Each state of cn_putchar() keeps the invariant.                          *)
LEMMA ScreenStep == ASSUME Sizes, ScreenInv, [Next]_vars PROVE ScreenInv'
<1> USE DEF ScreenInv, CursorOnScreen
<1>1. Cells \in Nat /\ VGA_WIDTH =< Cells /\ VGA_WIDTH \in Nat \ {0}
  BY CellsFit DEF Sizes
<1>2. ASSUME NEW c \in Chars, Normal(c) PROVE ScreenInv'
  <2>1. Raw(cursor, c) \in 0 .. Cells - 1 /\ Wrote(cursor, c) \subseteq 0 .. Cells - 1
    BY RawOnScreen
  <2>2. <<>> \in Seq(Nat)
    OBVIOUS
  <2> QED BY <1>2, <2>1, <2>2 DEF Normal
<1>3. ASSUME NEW c \in Chars, Start(c) PROVE ScreenInv'
  <2>1. CASE c = "["
    BY <1>3, <2>1 DEF Start
  <2>2. CASE c # "["
    <3>1. Raw(cursor, "esc") \in 0 .. Cells - 1 /\ Wrote(cursor, "esc") \subseteq 0 .. Cells - 1
      BY RawOnScreen
    <3>2. /\ Raw(Raw(cursor, "esc"), c) \in 0 .. Cells - 1
          /\ Wrote(Raw(cursor, "esc"), c) \subseteq 0 .. Cells - 1
      BY <3>1, RawOnScreen
    <3> QED BY <1>3, <2>2, <3>1, <3>2 DEF Start
  <2> QED BY <2>1, <2>2
<1>4. ASSUME NEW c \in Digits, Digit(c) PROVE ScreenInv'
  <2>1. Value[c] \in Nat
    BY DEF Value, Digits
  <2> DEFINE given == IF args = <<>> THEN <<0>> ELSE args
  <2>2. given \in Seq(Nat) /\ Len(given) \in 1 .. Len(given)
    OBVIOUS
  <2>3. args' = [given EXCEPT ![Len(given)] = @ * 10 + Value[c]]
    BY <1>4 DEF Digit
  <2> HIDE DEF given
  <2>4. given[Len(given)] * 10 + Value[c] \in Nat
    BY <2>1, <2>2
  <2>5. args' \in Seq(Nat)
    BY <2>2, <2>3, <2>4
  <2> QED BY <1>4, <2>5 DEF Digit
<1>5. CASE Semicolon
  BY <1>5 DEF Semicolon
<1>6. ASSUME NEW c, Command(c) PROVE ScreenInv'
  <2>1. cursor' \in 0 .. Cells - 1
    <3>1. ASSUME Len(args) = 2 PROVE Goto(args[2], args[1]) \in 0 .. Cells - 1
      <4>1. args \in Seq(Nat) /\ 1 \in 1 .. Len(args) /\ 2 \in 1 .. Len(args)
        BY <3>1
      <4>2. \A i \in 1 .. Len(args) : args[i] \in Nat
        BY <4>1
      <4> QED BY <4>1, <4>2, GotoOnScreen
    <3> QED BY <1>1, <1>6, <3>1 DEF Command
  <2>2. LineStart(cursor) \in Nat /\ LineStart(cursor) + VGA_WIDTH =< Cells
    BY LineOnScreen
  <2>3. written' \subseteq 0 .. Cells - 1
    BY <1>1, <1>6, <2>2 DEF Command
  <2> QED BY <1>6, <2>1, <2>3 DEF Command
<1>7. CASE UNCHANGED vars
  BY <1>7 DEF vars
<1> QED BY <1>2, <1>3, <1>4, <1>5, <1>6, <1>7 DEF Next, Bracket

(* Whatever is written to the console, the cursor stays on the screen and   *)
(* cn_putchar() writes to no cell outside cn_buffer.                        *)
THEOREM CursorStays == ASSUME Sizes PROVE Spec => []CursorOnScreen
<1>1. Init => ScreenInv
  BY DEF Init, ScreenInv, CursorOnScreen
<1>2. ScreenInv /\ [Next]_vars => ScreenInv'
  BY ScreenStep
<1>3. ScreenInv => CursorOnScreen
  BY DEF ScreenInv
<1> QED BY <1>1, <1>2, <1>3, PTL DEF Spec
=============================================================================
