------------------------------- MODULE Signals -------------------------------
(***************************************************************************)
(* Signals as one process sees them (kern/kern_signal.c, libc/signal.c):   *)
(* pending signals and the mask, handlers with the one context that is     *)
(* saved for them, sigreturn(), what exec() does with all this, and        *)
(* sleep(2), which a tick of i386/pit.c or a signal ends.  Signals are     *)
(* taken at the end of a system call only.  A context is where the         *)
(* program goes on: in main() or in the handler of a signal.               *)
(***************************************************************************)
EXTENDS Integers, FiniteSetsExt

CONSTANTS
    Sigs,           \* numbers of signals
    SIGKILL,
    PIT_FREQ,       \* ticks per second
    TICKS,          \* number of values of pit_ticks (2^32)
    Seconds,        \* bound: arguments of sleep()
    MAX_KILLS       \* bound: how many signals are sent

(* What is assumed of them *)
Numbers ==
    /\ Sigs \subseteq Nat \ {0} /\ SIGKILL \in Sigs
    /\ PIT_FREQ \in Nat \ {0} /\ TICKS \in Nat /\ MAX_KILLS \in Nat
    /\ \A n \in Seconds : n \in Nat \ {0} /\ PIT_FREQ * n < TICKS

VARIABLES
    pending, mask,  \* p->sig_pending and p->sig_mask
    handlers,       \* sigact.handlers
    context,        \* *p->context
    saved,          \* sigact.context
    state,          \* RUNNING, SLEEP (in sys_sleep()), woken or exited
    ticks,          \* pit_ticks
    wchan,          \* wakeup_time
    due,            \* ticks until the time asked for is over
    left,           \* what sleep() returned last
    sent,           \* how many signals were sent
    nested,         \* history: a handler began in another one
    inherited       \* history: the mask when exec() was called

sigs == <<pending, mask, handlers, context, saved, nested, inherited>>
clock == <<ticks, wchan, due, left>>
vars == <<sigs, state, clock, sent>>

Main == 0       \* the context of main()

Init ==
    /\ pending = {} /\ mask = {}
    /\ handlers = [s \in Sigs |-> "SIG_DFL"]
    /\ context = Main /\ saved = Main
    /\ state = "RUNNING"
    /\ ticks \in 0 .. TICKS - 1 /\ wchan = 0 /\ due = 0 /\ left = 0
    /\ sent = 0 /\ nested = FALSE /\ inherited = {}

-----------------------------------------------------------------------------
(* signal_pending() and issignal(): the lowest number first *)
Unmasked(pend, m) == pend \ m
(* Mutant: the highest number first *)
PostedLast(pend, m) == Max(Unmasked(pend, m))
Posted(pend, m) == Min(Unmasked(pend, m))

(* Mutant: the signal is not masked while its handler runs *)
MaskedNot(m, s) == m
Masked(m, s) == m \cup {s}

(* postsig() *)
Post(s, pend, m, c) ==
    CASE handlers'[s] = "SIG_IGN" ->
           /\ pending' = pend /\ mask' = m /\ context' = c
           /\ UNCHANGED <<saved, nested>>
           /\ state' = "RUNNING"
      [] handlers'[s] = "SIG_DFL" ->
           /\ pending' = pend /\ mask' = m /\ context' = c
           /\ UNCHANGED <<saved, nested>>
           /\ state' = "exited"
      [] OTHER ->
           /\ saved' = c /\ context' = s
           /\ mask' = Masked(m, s)
           /\ pending' = pend \ {s}
           /\ nested' = (nested \/ c # Main)
           /\ state' = "RUNNING"

(* The end of a system call that leaves these values behind *)
Leave(pend, m, c) ==
    IF Unmasked(pend, m) # {}
    THEN Post(Posted(pend, m), pend, m, c)
    ELSE /\ pending' = pend /\ mask' = m /\ context' = c
         /\ UNCHANGED <<saved, nested>>
         /\ state' = "RUNNING"

-----------------------------------------------------------------------------
(* kill() by another process; sched() runs a sleeping process that has a    *)
(* signal                                                                   *)
Kill(s) ==
    /\ state # "exited" /\ sent < MAX_KILLS
    /\ sent' = sent + 1
    /\ pending' = pending \cup {s}
    /\ state' = IF state = "SLEEP" /\ s \notin mask THEN "woken" ELSE state
    /\ UNCHANGED <<mask, handlers, context, saved, nested, inherited, clock>>

(* Mutant: a process is woken up by the tick after the one it waits for *)
WokenLate == state = "SLEEP" /\ wchan = ticks
(* The process sleeps on the tick that comes now *)
WokenNow == state = "SLEEP" /\ wchan = ticks'

(* pit_irq() *)
Tick ==
    /\ state # "exited"
    /\ ticks' = (ticks + 1) % TICKS
    /\ state' = IF WokenNow THEN "woken" ELSE state
    /\ due' = IF due > 0 THEN due - 1 ELSE 0
    /\ UNCHANGED <<sigs, wchan, left, sent>>

-----------------------------------------------------------------------------
(* System calls.  Any that does nothing with signals: *)
Syscall ==
    /\ state = "RUNNING"
    /\ UNCHANGED handlers
    /\ Leave(pending, mask, context)
    /\ UNCHANGED <<inherited, clock, sent>>

(* signal(): kern_signal() refuses SIGKILL *)
Signal(s, handler) ==
    /\ state = "RUNNING" /\ s # SIGKILL
    /\ handlers' = [handlers EXCEPT ![s] = handler]
    /\ Leave(pending, mask, context)
    /\ UNCHANGED <<inherited, clock, sent>>

(* sig_handler_dispatch(), after the handler *)
Sigreturn ==
    /\ state = "RUNNING" /\ context # Main
    /\ UNCHANGED handlers
    /\ Leave(pending, mask \ {context}, saved)
    /\ UNCHANGED <<inherited, clock, sent>>

(* exec(): the handlers are reset, the mask is not, and a pending signal    *)
(* waits for the next system call                                           *)
Exec ==
    /\ state = "RUNNING"
    /\ handlers' = [s \in Sigs |-> "SIG_DFL"]
    /\ context' = Main
    /\ inherited' = mask
    /\ nested' = FALSE
    /\ UNCHANGED <<pending, mask, saved, state, clock, sent>>

(* sys_sleep() *)
SysSleep(n) ==
    /\ state = "RUNNING"
    /\ wchan' = (ticks + PIT_FREQ * n) % TICKS
    /\ due' = PIT_FREQ * n
    /\ state' = IF Unmasked(pending, mask) # {} THEN "woken" ELSE "SLEEP"
    /\ UNCHANGED <<sigs, ticks, left, sent>>

SleepReturns ==
    /\ state = "woken"
    /\ left' = IF ticks < wchan THEN (wchan - ticks) \div PIT_FREQ ELSE 0
    /\ wchan' = 0 /\ due' = 0
    /\ UNCHANGED <<handlers, inherited, ticks, sent>>
    /\ Leave(pending, mask, context)

Next ==
    \/ \E s \in Sigs : Kill(s)
    \/ Tick
    \/ Syscall \/ Sigreturn \/ Exec \/ SleepReturns
    \/ \E s \in Sigs, handler \in {"SIG_DFL", "SIG_IGN", "handler"} : Signal(s, handler)
    \/ \E n \in Seconds : SysSleep(n)

Spec == Init /\ [][Next]_vars

(* The clock ticks, and sched() runs a process that is woken up.  That a    *)
(* program calls the kernel is not given: pit_irq() returns to one that     *)
(* loops, without looking at its signals.                                   *)
FairSpec == Spec /\ WF_vars(Tick) /\ WF_vars(SleepReturns)

-----------------------------------------------------------------------------
(***************************************************************************)
(* Handlers are not re-entered, and main() goes on where it was: a signal  *)
(* is masked while its handler runs and at no other time, and the context  *)
(* that sigreturn() restores is that of main().  Unless a handler began in *)
(* another one, which overwrites the saved context; and but for the mask   *)
(* that exec() left to the program.                                        *)
(***************************************************************************)
HandlersReturn ==
    ~nested => /\ mask \ inherited = {context} \ (inherited \cup {Main})
               /\ context # Main => saved = Main

(***************************************************************************)
(* SIGKILL ends a process that calls the kernel again, even in a handler   *)
(* or in sleep(2); unless a signal with a lower number is ignored and      *)
(* stays pending, which issignal() never gets beyond.  Signals are posted  *)
(* at the end of a system call only, so nothing ends a program that loops  *)
(* without one, which is why the premise is stated here.                   *)
(***************************************************************************)
CallsKernel == WF_vars(Syscall) /\ WF_vars(Sigreturn)
Shadowed == \E s \in pending \ mask : s < SIGKILL /\ handlers[s] = "SIG_IGN"
KillEnds == CallsKernel => ((SIGKILL \in pending) ~> (state = "exited" \/ Shadowed))

(***************************************************************************)
(* sleep(2) ends, and not after its time: who still sleeps has time left,  *)
(* although only the tick with exactly the number of wakeup_time wakes it  *)
(* up, and pit_ticks wraps around.                                         *)
(***************************************************************************)
SleepIsTimed == state = "SLEEP" => due > 0

(***************************************************************************)
(* As kern_exec.c says, "Clear signal mask and signal handlers".           *)
(***************************************************************************)
ExecClearsMask == [][Exec => mask' = {}]_vars
=============================================================================
