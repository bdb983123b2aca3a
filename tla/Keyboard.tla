------------------------------ MODULE Keyboard ------------------------------
(***************************************************************************)
(* Input from the keyboard (i386/kb.c) and from a serial line              *)
(* (i386/uart.c): the modifier keys, and the two rings of characters with  *)
(* the calls that read them.  Interrupts come when no process runs in the  *)
(* kernel; one that was woken up may still wait for the CPU.               *)
(***************************************************************************)
EXTENDS Integers, SequencesExt

CONSTANTS
    RING,       \* size of the rings (256)
    NBYTES      \* bytes that a read asks for

Mods == {"lshift", "rshift", "ctrl", "alt"}
Keys == Mods \cup {"letter", "arrow"}
Devs == {"kb", "uart"}

VARIABLES
    down,       \* the keys that are held down
    kbState,    \* kb_state: the modifiers that kb_cook() takes for held down
    ring,       \* kb_buffer and rx_buffer, from tail to head
    pc, dev,    \* the process that reads, and from which device
    got,        \* what its read has so far
    pending     \* signal_pending() for it

vars == <<down, kbState, ring, pc, dev, got, pending>>

Init ==
    /\ down = {} /\ kbState = {}
    /\ ring = [d \in Devs |-> <<>>]
    /\ pc = "user" /\ dev \in Devs /\ got = <<>> /\ pending = FALSE

-----------------------------------------------------------------------------
(* A ring that is full loses its oldest character *)
Put(r, c) == IF Len(r) = RING - 1 THEN Tail(r) \o <<c>> ELSE r \o <<c>>

(* wakeup(kb_irq) or wakeup(uart_intr) *)
Woken(d) == IF pc = "sleep" /\ dev = d THEN "woken" ELSE pc

(* The characters of a key: kb_map, kb_map_shift, kb_map_ctrl *)
Shifted == kbState \cap {"lshift", "rshift"} # {}
Cooked(k) ==
    CASE Shifted -> IF k = "letter" THEN <<"A">> ELSE <<>>
      [] ~Shifted /\ "ctrl" \in kbState -> IF k = "letter" THEN <<"^A">> ELSE <<>>
      [] OTHER -> IF k = "letter" THEN <<"a">> ELSE <<"esc", "[", "A">>

(* kb_cook() looks at the lower seven bits of the code of a modifier *)
Toggled(k) == (kbState \ {k}) \cup ({k} \ kbState)

(* kb_irq() for a key that is pressed or let go; a key that is held down    *)
(* does not repeat                                                          *)
KbIrq(k, pressed) ==
    /\ pc # "read"
    /\ pressed = (k \notin down)
    /\ down' = IF pressed THEN down \cup {k} ELSE down \ {k}
    /\ kbState' = IF k \in Mods THEN Toggled(k) ELSE kbState
    /\ IF k \notin Mods /\ pressed /\ Cooked(k) # <<>>
       THEN ring' = [ring EXCEPT !["kb"] = FoldLeft(Put, @, Cooked(k))] /\ pc' = Woken("kb")
       ELSE UNCHANGED <<ring, pc>>
    /\ UNCHANGED <<dev, got, pending>>

UartIntr(c) ==
    /\ pc # "read"
    /\ ring' = [ring EXCEPT !["uart"] = Put(@, c)]
    /\ pc' = Woken("uart")
    /\ UNCHANGED <<down, kbState, dev, got, pending>>

(* A signal; sched() runs a sleeping process that has one *)
Kill ==
    /\ pc # "read" /\ ~pending
    /\ pending' = TRUE
    /\ pc' = IF pc = "sleep" THEN "woken" ELSE pc
    /\ UNCHANGED <<down, kbState, ring, dev, got>>

-----------------------------------------------------------------------------
Read(d) ==
    /\ pc = "user"
    /\ pc' = "read" /\ dev' = d
    /\ UNCHANGED <<down, kbState, ring, got, pending>>

(* The end of the call; a signal handler is run then *)
Return ==
    /\ pc' = "user" /\ got' = <<>> /\ pending' = FALSE
    /\ UNCHANGED <<down, kbState, ring, dev>>

Take ==
    /\ pc = "read" /\ ring[dev] # <<>> /\ Len(got) < NBYTES
    /\ got' = Append(got, Head(ring[dev]))
    /\ ring' = [ring EXCEPT ![dev] = Tail(@)]
    /\ UNCHANGED <<down, kbState, pc, dev, pending>>

(* kb_read() waits for the first character only, uart_read() for all of them *)
Waits == pc = "read" /\ ring[dev] = <<>> /\ Len(got) < NBYTES /\ (dev = "kb" => got = <<>>)

Block ==
    /\ Waits /\ ~pending
    /\ pc' = "sleep"
    /\ UNCHANGED <<down, kbState, ring, dev, got, pending>>

(* uart_getc() looks for a signal again when it was woken up *)
Resume ==
    /\ pc = "woken" /\ ~(dev = "uart" /\ pending)
    /\ pc' = "read"
    /\ UNCHANGED <<down, kbState, ring, dev, got, pending>>

(* EINTR: what uart_read() has read is lost *)
Interrupted ==
    /\ (Waits /\ pending) \/ (pc = "woken" /\ dev = "uart" /\ pending)
    /\ Return

Done ==
    /\ pc = "read"
    /\ Len(got) = NBYTES \/ (dev = "kb" /\ ring[dev] = <<>> /\ got # <<>>)
    /\ Return

Next ==
    \/ \E k \in Keys, pressed \in BOOLEAN : KbIrq(k, pressed)
    \/ UartIntr("c") \/ Kill
    \/ \E d \in Devs : Read(d)
    \/ Take \/ Block \/ Resume \/ Interrupted \/ Done

Spec == Init /\ [][Next]_vars

-----------------------------------------------------------------------------
(***************************************************************************)
(* A process that sleeps in kb_read() or uart_read() has nothing to read   *)
(* and no signal: whatever came in after it looked woke it up, and as many *)
(* characters as it got before it slept are still with it.                 *)
(***************************************************************************)
SleepsOnEmpty == pc = "sleep" => ring[dev] = <<>> /\ ~pending /\ Len(got) < NBYTES
=============================================================================
