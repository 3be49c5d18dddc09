----------------------------- MODULE Interrupts -----------------------------
(***************************************************************************)
(* Interrupts of the virtual machine (bios.c).  A core is a host thread:   *)
(* the PIC marks an interrupt as pending, queues SIGUSR1 for the core and  *)
(* restarts it if it is halted.  The signal, cpu_enable_interrupts() and   *)
(* the end of cpu_core_halt() dispatch what is pending.                    *)
(*                                                                         *)
(* The handlers are those of the kernel: ALARM yields, SERIAL_RX_READY     *)
(* broadcasts with preemption off, the others do nothing.  Functions that  *)
(* a core has called and not finished are frames of its stack; signals and *)
(* handlers push frames.  Which thread a core executes is left out.        *)
(***************************************************************************)
EXTENDS Integers, Sequences, FiniteSets, SequencesExt

CONSTANTS
  Core,
  Raised,       \* the interrupts that happen
  AlarmTimely,  \* no timer expires within a few instructions
  MaxDepth,     \* bound on the frames of a core when an interrupt is raised
  Nil

ICI == 0
ALARM == 1
SERIAL_RX_READY == 2
SERIAL_TX_READY == 3
maximum_interrupt_no == 4

\* What the PIC is doing while it raises an interrupt.
Raising == [core : Core, int : 0 .. maximum_interrupt_no - 1, at : {"queue", "restart"}]

ASSUME InterruptsAssumption ==
  /\ Raised \subseteq {ICI, SERIAL_RX_READY, SERIAL_TX_READY}
  /\ AlarmTimely \in BOOLEAN
  /\ MaxDepth \in Nat
  /\ Nil \notin Raising

VARIABLES
  stack,         \* the frames of each core
  int_disabled,
  blocked,       \* SIGUSR1 is blocked in the signal mask of the core
  usr1,          \* SIGUSR1 is queued for the core
  intpending,
  halted,        \* core->halted; the halted cores are halted_list
  timer,         \* the timer of the core is armed
  expired,       \* SIGALRM of the core is queued for the PIC
  pic            \* the interrupt that the PIC is raising, or Nil

vars == <<stack, int_disabled, blocked, usr1, intpending, halted, timer, expired, pic>>

(***************************************************************************)
(* Frames:                                                                 *)
(*   dispatch   dispatch_interrupts(), before it looks for interrupt next; *)
(*              called by the handler of SIGUSR1 if signal                 *)
(*   yield      at the beginning of yield()                                *)
(*   preempt_off  in yield(), after bios_cancel_timer()                    *)
(*   yielding   in yield() or gain(), with interrupts disabled             *)
(*   set_timer  gain() calls bios_set_timer(QUANTUM)                       *)
(*   clear      in bios_set_timer(), the timer is armed or cancelled       *)
(*   off        another section with interrupts disabled                   *)
(*   sleep      such a section that calls yield(), or has called it        *)
(*   halting    cpu_core_halt(), has blocked the signal                    *)
(*   halted     waits for halt_cond                                        *)
(***************************************************************************)
At(f) == [at |-> f, next |-> 0, signal |-> FALSE]
Dispatch(n, s) == [at |-> "dispatch", next |-> n, signal |-> s]
Frame == [at : {"dispatch", "yield", "preempt_off", "yielding", "set_timer", "clear", "off",
                "sleep", "halting", "halted"},
          next : 0 .. maximum_interrupt_no, signal : BOOLEAN]

\* The functions that have disabled interrupts.
Masking == {"off", "sleep", "yielding"}

Top(c) == IF stack[c] = <<>> THEN "run" ELSE Last(stack[c]).at
Push(c, f) == [stack EXCEPT ![c] = Append(@, f)]
Pop(c) == [stack EXCEPT ![c] = Front(@)]
Replace(c, f) == [stack EXCEPT ![c] = Append(Front(@), f)]
Then(c, f, g) == [stack EXCEPT ![c] = Append(Append(Front(@), f), g)]

\* Every core begins with the idle thread, which yields.
Init ==
  /\ stack = [c \in Core |-> <<At("yield")>>]
  /\ int_disabled = [c \in Core |-> FALSE]
  /\ blocked = [c \in Core |-> FALSE]
  /\ usr1 = [c \in Core |-> FALSE]
  /\ intpending = [c \in Core |-> {}]
  /\ halted = [c \in Core |-> FALSE]
  /\ timer = [c \in Core |-> FALSE]
  /\ expired = [c \in Core |-> FALSE]
  /\ pic = Nil

----------------------------------------------------------------------------
(***************************************************************************)
(* The PIC.                                                                *)
(***************************************************************************)

\* The timer of the core runs down.  The timer is armed with a QUANTUM, much
\* longer than the core needs for the instructions of these frames.
Window(s) ==
  \E k \in 1 .. Len(s) :
    \/ s[k].at = "halting"
    \/ s[k].at = "clear" /\ (k > 1 => s[k - 1].at # "preempt_off")

InWindow(c) == Window(stack[c])

timer_expires(c) ==
  /\ timer[c]
  /\ AlarmTimely => ~InWindow(c)
  /\ timer' = [timer EXCEPT ![c] = FALSE]
  /\ expired' = [expired EXCEPT ![c] = TRUE]
  /\ UNCHANGED <<stack, int_disabled, blocked, usr1, intpending, halted, pic>>

\* raise_interrupt() marks the interrupt, ...
raise_interrupt(c, i) ==
  /\ pic = Nil
  /\ Len(stack[c]) < MaxDepth
  /\ \/ /\ i = ALARM
        /\ expired[c]
        /\ AlarmTimely => ~InWindow(c)
        /\ expired' = [expired EXCEPT ![c] = FALSE]
     \/ i \in Raised /\ UNCHANGED expired
  /\ intpending' = [intpending EXCEPT ![c] = @ \cup {i}]
  /\ pic' = [core |-> c, int |-> i, at |-> "queue"]
  /\ UNCHANGED <<stack, int_disabled, blocked, usr1, halted, timer>>

\* ... queues the signal ...
raise_queue ==
  /\ pic # Nil
  /\ pic.at = "queue"
  /\ usr1' = [usr1 EXCEPT ![pic.core] = TRUE]
  /\ pic' = [pic EXCEPT !.at = "restart"]
  /\ UNCHANGED <<stack, int_disabled, blocked, intpending, halted, timer, expired>>

\* Mutant: the core is left halted.
raise_restart_not ==
  /\ pic # Nil
  /\ pic.at = "restart"
  /\ pic' = Nil
  /\ UNCHANGED <<stack, int_disabled, blocked, usr1, intpending, halted, timer, expired>>

\* ... and restarts the core.
raise_restart ==
  /\ pic # Nil
  /\ pic.at = "restart"
  /\ halted' = [halted EXCEPT ![pic.core] = FALSE]
  /\ pic' = Nil
  /\ UNCHANGED <<stack, int_disabled, blocked, usr1, intpending, timer, expired>>

----------------------------------------------------------------------------
(***************************************************************************)
(* Dispatching.                                                            *)
(***************************************************************************)

\* SIGUSR1 arrives; the host blocks it until its handler returns.
sigusr1_handler(c) ==
  /\ usr1[c]
  /\ ~blocked[c]
  /\ usr1' = [usr1 EXCEPT ![c] = FALSE]
  /\ IF int_disabled[c]
     THEN UNCHANGED <<stack, blocked>>
     ELSE /\ stack' = Push(c, Dispatch(0, TRUE))
          /\ blocked' = [blocked EXCEPT ![c] = TRUE]
  /\ UNCHANGED <<int_disabled, intpending, halted, timer, expired, pic>>

\* Mutant: the loop of dispatch_interrupts() leaves one interrupt out.
next_int_skip(i) == i + 2

next_int(i) == i + 1

\* What the handler of interrupt i does first.
handler(c, i) ==
  LET rest == Dispatch(next_int(i), Last(stack[c]).signal) IN
  CASE i = ALARM -> /\ stack' = Then(c, rest, At("yield"))
                    /\ UNCHANGED <<int_disabled, blocked>>
    [] i = SERIAL_RX_READY -> /\ stack' = Then(c, rest, At("off"))
                              /\ int_disabled' = [int_disabled EXCEPT ![c] = TRUE]
                              /\ blocked' = [blocked EXCEPT ![c] = TRUE]
    [] OTHER -> /\ stack' = Replace(c, rest)
                /\ UNCHANGED <<int_disabled, blocked>>

\* The interrupts that the loop of dispatch_interrupts() is still to find.
Ahead(c) == {i \in intpending[c] : i >= Last(stack[c]).next}

\* The loop of dispatch_interrupts() goes on to the next pending interrupt.
dispatch_interrupts(c) ==
  /\ Top(c) = "dispatch"
  /\ ~int_disabled[c]
  /\ Ahead(c) # {}
  /\ LET i == Min(Ahead(c)) IN
     /\ intpending' = [intpending EXCEPT ![c] = @ \ {i}]
     /\ handler(c, i)
  /\ UNCHANGED <<usr1, halted, timer, expired, pic>>

\* dispatch_interrupts() returns; if it was a signal, the mask is restored.
dispatch_return(c) ==
  /\ Top(c) = "dispatch"
  /\ Ahead(c) = {} \/ int_disabled[c]
  /\ stack' = Pop(c)
  /\ blocked' = [blocked EXCEPT ![c] = @ /\ ~Last(stack[c]).signal]
  /\ UNCHANGED <<int_disabled, usr1, intpending, halted, timer, expired, pic>>

----------------------------------------------------------------------------
(***************************************************************************)
(* What the kernel does on a core.                                         *)
(***************************************************************************)

\* A section with interrupts disabled, in the running thread.
cpu_disable_interrupts(c) ==
  /\ Top(c) = "run"
  /\ int_disabled' = [int_disabled EXCEPT ![c] = TRUE]
  /\ blocked' = [blocked EXCEPT ![c] = TRUE]
  /\ stack' = Push(c, At("off"))
  /\ UNCHANGED <<usr1, intpending, halted, timer, expired, pic>>

\* Mutant: gain() does not set the timer.
enabled_no_timer(c) == stack' = Replace(c, Dispatch(0, FALSE))

\* cpu_enable_interrupts() ends with a call of dispatch_interrupts(); gain()
\* goes on to set the timer.
enabled(c) ==
  stack' = IF Top(c) = "yielding" THEN Then(c, At("set_timer"), Dispatch(0, FALSE))
           ELSE Replace(c, Dispatch(0, FALSE))

\* yield() has been called with interrupts disabled.
Nested(c) == stack[c] = <<At("sleep"), At("yielding")>>

cpu_enable_interrupts(c) ==
  /\ Top(c) \in Masking
  /\ ~Nested(c)
  /\ int_disabled' = [int_disabled EXCEPT ![c] = FALSE]
  /\ blocked' = [blocked EXCEPT ![c] = FALSE]
  /\ enabled(c)
  /\ UNCHANGED <<usr1, intpending, halted, timer, expired, pic>>

\* The running thread calls yield(), by itself or in sleep_releasing(), which
\* has turned preemption off.
call_yield(c) ==
  /\ \/ Top(c) = "run" /\ stack' = Push(c, At("yield"))
     \/ stack[c] = <<At("off")>> /\ stack' = Then(c, At("sleep"), At("yield"))
  /\ UNCHANGED <<int_disabled, blocked, usr1, intpending, halted, timer, expired, pic>>

\* yield() begins with bios_cancel_timer(), before it turns preemption off: it
\* stops the timer ...
bios_cancel_timer(c) ==
  /\ Top(c) = "yield"
  /\ timer' = [timer EXCEPT ![c] = FALSE]
  /\ stack' = Then(c, At("preempt_off"), At("clear"))
  /\ UNCHANGED <<int_disabled, blocked, usr1, intpending, halted, expired, pic>>

\* ... and goes on with interrupts disabled until the end of gain().
yield(c) ==
  /\ Top(c) = "preempt_off"
  /\ int_disabled' = [int_disabled EXCEPT ![c] = TRUE]
  /\ blocked' = [blocked EXCEPT ![c] = TRUE]
  /\ stack' = Replace(c, At("yielding"))
  /\ UNCHANGED <<usr1, intpending, halted, timer, expired, pic>>

\* There, gain() does not enable them, and goes on to set the timer.
gain(c) ==
  /\ Nested(c)
  /\ stack' = Replace(c, At("set_timer"))
  /\ UNCHANGED <<int_disabled, blocked, usr1, intpending, halted, timer, expired, pic>>

\* bios_set_timer(QUANTUM) arms the timer ...
bios_set_timer(c) ==
  /\ Top(c) = "set_timer"
  /\ timer' = [timer EXCEPT ![c] = TRUE]
  /\ stack' = Replace(c, At("clear"))
  /\ UNCHANGED <<int_disabled, blocked, usr1, intpending, halted, expired, pic>>

\* ... and drops an ALARM of the previous timeslice, as bios_cancel_timer()
\* does too.
clear_alarm(c) ==
  /\ Top(c) = "clear"
  /\ intpending' = [intpending EXCEPT ![c] = @ \ {ALARM}]
  /\ stack' = Pop(c)
  /\ UNCHANGED <<int_disabled, blocked, usr1, halted, timer, expired, pic>>

\* The idle thread calls cpu_core_halt(), and then yield().  It comes here
\* soon after gain() has armed the timer.
idle_thread(c) ==
  /\ Top(c) = "run"
  /\ AlarmTimely => timer[c]
  /\ stack' = [stack EXCEPT ![c] = <<At("yield"), At("halting")>>]
  /\ blocked' = [blocked EXCEPT ![c] = TRUE]
  /\ UNCHANGED <<int_disabled, usr1, intpending, halted, timer, expired, pic>>

\* cpu_core_halt(), with core_halt_mutex.
cpu_core_halt(c) ==
  /\ Top(c) = "halting"
  /\ halted' = [halted EXCEPT ![c] = TRUE]
  /\ stack' = Replace(c, At("halted"))
  /\ UNCHANGED <<int_disabled, blocked, usr1, intpending, timer, expired, pic>>

\* The end of cpu_core_halt(), after somebody has restarted the core.
core_resume(c) ==
  /\ Top(c) = "halted"
  /\ ~halted[c]
  /\ blocked' = [blocked EXCEPT ![c] = FALSE]
  /\ stack' = Replace(c, Dispatch(0, FALSE))
  /\ UNCHANGED <<int_disabled, usr1, intpending, halted, timer, expired, pic>>

\* Some core puts a thread into the queue, or leaves the scheduler.
cpu_core_restart(c) ==
  /\ halted[c]
  /\ halted' = [halted EXCEPT ![c] = FALSE]
  /\ UNCHANGED <<stack, int_disabled, blocked, usr1, intpending, timer, expired, pic>>

\* A step that the core takes by itself, its program aside.
Step(c) ==
  \/ sigusr1_handler(c) \/ dispatch_interrupts(c) \/ dispatch_return(c)
  \/ cpu_enable_interrupts(c) \/ bios_cancel_timer(c) \/ yield(c) \/ gain(c) \/ bios_set_timer(c)
  \/ clear_alarm(c) \/ cpu_core_halt(c) \/ core_resume(c)

Program(c) == cpu_disable_interrupts(c) \/ call_yield(c) \/ idle_thread(c)

PIC(c) == (\E i \in Raised \cup {ALARM} : raise_interrupt(c, i)) \/ raise_queue \/ raise_restart

Next == \E c \in Core : Step(c) \/ Program(c) \/ timer_expires(c) \/ PIC(c)
                        \/ cpu_core_restart(c)

Spec == Init /\ [][Next]_vars

\* Cores go on, timers expire, and the PIC raises the ALARM of an expired
\* timer.  Nothing is assumed of other interrupts, of the program, or of
\* other cores.
FairSpec ==
  /\ Spec
  /\ WF_vars(raise_queue \/ raise_restart)
  /\ \A c \in Core : WF_vars(Step(c)) /\ SF_vars(timer_expires(c)) /\ SF_vars(raise_interrupt(c, ALARM))

----------------------------------------------------------------------------
TypeOK ==
  /\ stack \in [Core -> Seq(Frame)]
  /\ int_disabled \in [Core -> BOOLEAN]
  /\ blocked \in [Core -> BOOLEAN]
  /\ usr1 \in [Core -> BOOLEAN]
  /\ intpending \in [Core -> SUBSET (0 .. maximum_interrupt_no - 1)]
  /\ halted \in [Core -> BOOLEAN]
  /\ timer \in [Core -> BOOLEAN]
  /\ expired \in [Core -> BOOLEAN]
  /\ pic \in Raising \cup {Nil}

\* Some call of dispatch_interrupts() that has not returned, or that is still
\* to come, will look at interrupt i.
WillLook(c, i) ==
  \/ usr1[c]
  \/ pic # Nil /\ pic.core = c /\ pic.at = "queue"
  \/ \E f \in Range(stack[c]) :
       \/ f.at \in Masking \cup {"halting", "halted"}
       \/ f.at = "dispatch" /\ f.next <= i

\* No interrupt is forgotten: whatever the order of raising, masking, nested
\* handlers and enabling, a pending interrupt will be looked at.
PendingNoticed ==
  \A c \in Core : \A i \in intpending[c] : WillLook(c, i)

\* A thread never keeps a core for ever: while it runs, its timer is running
\* or the ALARM is on its way (yield(), gain(), bios_set_timer()).
QuantumRuns ==
  \A c \in Core :
    stack[c] = <<>> =>
      \/ timer[c] \/ expired[c] \/ ALARM \in intpending[c]

\* What makes these inductive: interrupts are disabled by a function that is
\* going to enable them, ...
MaskInv ==
  \A c \in Core :
    int_disabled[c] => \E f \in Range(stack[c]) : f.at \in Masking

\* ... and the timer runs unless it has expired or a function of the stack is
\* going to set it.
Rearms == {"yield", "preempt_off", "yielding", "set_timer"}

QuantumInv ==
  \A c \in Core :
    \/ \E f \in Range(stack[c]) : f.at \in Rearms
    \/ timer[c]
    \/ ~InWindow(c) /\ (expired[c] \/ ALARM \in intpending[c])

\* The invariants of a core: no interrupt is forgotten and no thread runs
\* without a quantum, with nested handlers too (dispatch_interrupts(), gain()).
InterruptsInv ==
  /\ TypeOK
  /\ PendingNoticed
  /\ MaskInv
  /\ AlarmTimely => QuantumRuns /\ QuantumInv

\* A pending interrupt is handled, also if it was raised just before the core
\* halted (raise_interrupt(), cpu_core_halt()).
InterruptHandled ==
  \A c \in Core : \A i \in Raised : (i \in intpending[c]) ~> (i \notin intpending[c])
=============================================================================
