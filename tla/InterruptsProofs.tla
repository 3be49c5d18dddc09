-------------------------- MODULE InterruptsProofs --------------------------
(***************************************************************************)
(* No interrupt is forgotten and no thread runs without a quantum, for any *)
(* number of cores, any interrupts and any nesting of their handlers.      *)
(***************************************************************************)
EXTENDS Interrupts, ListLemmas

(***************************************************************************)
(* Stacks of frames.                                                       *)
(***************************************************************************)

\* The frame f on top of the stack r is one in which no timer expires.
Opens(r, f) ==
  \/ f.at = "halting"
  \/ f.at = "clear" /\ (r # <<>> => Last(r).at # "preempt_off")

LEMMA AtFrame ==
  ASSUME NEW l \in {"yield", "preempt_off", "yielding", "set_timer", "clear", "off", "sleep",
                    "halting", "halted"}
  PROVE  At(l) \in Frame /\ At(l).at = l
<1>1. FALSE \in BOOLEAN
  BY Zenon
<1>2. l \in {"dispatch", "yield", "preempt_off", "yielding", "set_timer", "clear", "off",
             "sleep", "halting", "halted"}
  OBVIOUS
<1>3. 0 \in 0 .. maximum_interrupt_no
  BY DEF maximum_interrupt_no
<1> QED BY <1>1, <1>2, <1>3 DEF At, Frame

LEMMA DispatchFrame ==
  ASSUME NEW n \in 0 .. maximum_interrupt_no, NEW b \in BOOLEAN
  PROVE  Dispatch(n, b) \in Frame /\ Dispatch(n, b).at = "dispatch" /\ Dispatch(n, b).next = n
BY DEF Dispatch, Frame

\* A frame is pushed.
LEMMA PushFrame ==
  ASSUME NEW r \in Seq(Frame), NEW f \in Frame
  PROVE  /\ Append(r, f) \in Seq(Frame) /\ Append(r, f) # <<>>
         /\ Range(Append(r, f)) = Range(r) \cup {f}
         /\ Last(Append(r, f)) = f
         /\ Window(Append(r, f)) <=> Window(r) \/ Opens(r, f)
<1> DEFINE s == Append(r, f)
<1>1. /\ s \in Seq(Frame) /\ Range(s) = Range(r) \cup {f}
      /\ Len(r) \in Nat /\ Len(s) = Len(r) + 1 /\ s # <<>>
      /\ s[Len(r) + 1] = f
      /\ \A k \in 1 .. Len(r) : s[k] = r[k]
      /\ r # <<>> <=> Len(r) > 0
  BY AppendLemma
<1> HIDE DEF s
<1>2. Last(s) = f /\ Last(r) = r[Len(r)]
  BY <1>1 DEF Last
<1>3. Window(r) => Window(s)
  <2> SUFFICES ASSUME Window(r) PROVE Window(s)
    OBVIOUS
  <2>1. PICK k \in 1 .. Len(r) : \/ r[k].at = "halting"
                                 \/ r[k].at = "clear" /\ (k > 1 => r[k - 1].at # "preempt_off")
    BY DEF Window
  <2>2. k \in 1 .. Len(s) /\ s[k] = r[k] /\ (k > 1 => s[k - 1] = r[k - 1])
    BY <1>1
  <2> QED BY <2>1, <2>2 DEF Window
<1>4. Opens(r, f) => Window(s)
  <2> SUFFICES ASSUME Opens(r, f) PROVE Window(s)
    OBVIOUS
  <2> DEFINE k == Len(r) + 1
  <2>1. k \in 1 .. Len(s) /\ s[k] = f /\ (k > 1 <=> r # <<>>)
    BY <1>1
  <2>2. k > 1 => s[k - 1] = Last(r)
    BY <1>1, <1>2
  <2> QED BY <2>1, <2>2 DEF Window, Opens
<1>5. Window(s) => Window(r) \/ Opens(r, f)
  <2> SUFFICES ASSUME Window(s) PROVE Window(r) \/ Opens(r, f)
    OBVIOUS
  <2>1. PICK k \in 1 .. Len(s) : \/ s[k].at = "halting"
                                 \/ s[k].at = "clear" /\ (k > 1 => s[k - 1].at # "preempt_off")
    BY DEF Window
  <2>2. CASE k = Len(r) + 1
    <3>1. s[k] = f /\ (r # <<>> => k > 1 /\ s[k - 1] = Last(r))
      BY <1>1, <1>2, <2>2
    <3> QED BY <2>1, <3>1 DEF Opens
  <2>3. CASE k # Len(r) + 1
    <3>1. k \in 1 .. Len(r) /\ s[k] = r[k] /\ (k > 1 => s[k - 1] = r[k - 1])
      BY <1>1, <2>3
    <3> QED BY <2>1, <3>1 DEF Window
  <2> QED BY <2>2, <2>3
<1> QED BY <1>1, <1>2, <1>3, <1>4, <1>5 DEF s

\* The frame on top, and the stack below it.
LEMMA TopFrame ==
  ASSUME NEW s \in Seq(Frame), s # <<>>
  PROVE  /\ Front(s) \in Seq(Frame) /\ Last(s) \in Frame
         /\ Range(s) = Range(Front(s)) \cup {Last(s)}
         /\ Window(s) <=> Window(Front(s)) \/ Opens(Front(s), Last(s))
<1> DEFINE r == Front(s)
           f == Last(s)
<1>1. /\ Len(s) \in Nat /\ Len(s) > 0
      /\ r \in Seq(Frame) /\ Len(r) = Len(s) - 1
      /\ \A k \in 1 .. (Len(s) - 1) : r[k] = s[k]
      /\ f = s[Len(s)] /\ f \in Frame
  BY DEF Front, Last
<1>2. s = Append(r, f)
  <2> HIDE DEF r, f
  <2>1. Append(r, f) \in Seq(Frame) /\ Len(Append(r, f)) = Len(s)
    BY <1>1
  <2>2. \A k \in 1 .. Len(s) : Append(r, f)[k] = s[k]
    BY <1>1
  <2> QED BY <2>1, <2>2, SeqEqual
<1> HIDE DEF r, f
<1>3. Range(s) = Range(r) \cup {f} /\ (Window(s) <=> Window(r) \/ Opens(r, f))
  BY <1>1, <1>2, PushFrame
<1> QED BY <1>1, <1>3 DEF r, f

----------------------------------------------------------------------------
(***************************************************************************)
(* The invariant of one core.                                              *)
(***************************************************************************)
Queued(c) == usr1[c] \/ (pic # Nil /\ pic.core = c /\ pic.at = "queue")

\* A function of the stack is going to look at interrupt i.
Looks(S, i) ==
  \E f \in S : \/ f.at \in Masking \cup {"halting", "halted"}
               \/ f.at = "dispatch" /\ f.next <= i

Noticed(c) == Queued(c) \/ \A i \in intpending[c] : Looks(Range(stack[c]), i)

Masked(c) == int_disabled[c] => \E f \in Range(stack[c]) : f.at \in Masking

Quantum(c) ==
  \/ \E f \in Range(stack[c]) : f.at \in Rearms
  \/ timer[c]
  \/ ~Window(stack[c]) /\ (expired[c] \/ ALARM \in intpending[c])

CoreInv(c) == Noticed(c) /\ Masked(c) /\ (AlarmTimely => Quantum(c))

LEMMA InvByCore == InterruptsInv <=> TypeOK /\ \A c \in Core : CoreInv(c)
<1>1. PendingNoticed <=> \A c \in Core : Noticed(c)
  BY DEF PendingNoticed, WillLook, Noticed, Queued, Looks
<1>2. MaskInv <=> \A c \in Core : Masked(c)
  BY DEF MaskInv, Masked
<1>3. QuantumInv <=> \A c \in Core : Quantum(c)
  BY DEF QuantumInv, Quantum, InWindow
<1>4. QuantumInv => QuantumRuns
  <2> SUFFICES ASSUME QuantumInv, NEW c \in Core, stack[c] = <<>>
               PROVE  timer[c] \/ expired[c] \/ ALARM \in intpending[c]
    BY DEF QuantumRuns
  <2>1. Range(stack[c]) = {}
    BY DEF Range
  <2> QED BY <2>1 DEF QuantumInv
<1> QED BY <1>1, <1>2, <1>3, <1>4 DEF InterruptsInv, CoreInv

LEMMA InvByCoreNext == InterruptsInv' <=> TypeOK' /\ \A c \in Core : CoreInv(c)'
<1>1. (InterruptsInv <=> TypeOK /\ \A c \in Core : CoreInv(c))'
  BY InvByCore, PTL
<1> QED BY <1>1

\* A step of core c, or of the PIC for core c.
LEMMA StepOf ==
  ASSUME InterruptsInv, TypeOK', NEW c \in Core, CoreInv(c)',
         \A d \in Core \ {c} :
           /\ stack'[d] = stack[d] /\ int_disabled'[d] = int_disabled[d]
           /\ intpending'[d] = intpending[d] /\ timer'[d] = timer[d] /\ expired'[d] = expired[d]
           /\ Queued(d) => Queued(d)'
  PROVE  InterruptsInv'
<1> SUFFICES ASSUME NEW d \in Core, d # c PROVE CoreInv(d)'
  BY InvByCoreNext
<1>1. CoreInv(d)
  BY InvByCore
<1> QED BY <1>1 DEF CoreInv, Noticed, Masked, Quantum

\* What is known of core c when the top of its stack is f, and the rest r.
LEMMA CoreFacts ==
  ASSUME InterruptsInv, NEW c \in Core, stack[c] # <<>>,
         NEW r, NEW f, r = Front(stack[c]), f = Last(stack[c])
  PROVE  /\ r \in Seq(Frame) /\ f \in Frame
         /\ Range(stack[c]) = Range(r) \cup {f}
         /\ Window(stack[c]) <=> Window(r) \/ Opens(r, f)
         /\ Top(c) = f.at
         /\ CoreInv(c)
<1>1. stack[c] \in Seq(Frame) /\ CoreInv(c)
  BY InvByCore DEF TypeOK
<1> QED BY <1>1, TopFrame DEF Top

\* Which step begins at which point of the core.
LEMMA TopIs ==
  ASSUME NEW c \in Core, TypeOK
  PROVE  Top(c) = "run" <=> stack[c] = <<>>
<1> SUFFICES ASSUME stack[c] # <<>> PROVE Top(c) # "run"
  BY DEF Top
<1>1. Last(stack[c]) \in Frame
  BY TopFrame DEF TypeOK
<1> QED BY <1>1 DEF Top, Frame

LEMMA InitInv == Init => InterruptsInv
<1> SUFFICES ASSUME Init PROVE InterruptsInv
  OBVIOUS
<1>1. At("yield") \in Frame /\ At("yield").at = "yield"
  BY AtFrame
<1> DEFINE y == At("yield")
<1> HIDE DEF y
<1>2. <<y>> \in Seq(Frame) /\ Range(<<y>>) = {y}
  BY <1>1 DEF Range, y
<1>3. FALSE \in BOOLEAN
  BY Zenon
<1>4. TypeOK
  BY <1>2, <1>3 DEF Init, TypeOK, y
<1>5. ASSUME NEW c \in Core PROVE CoreInv(c)
  <2>1. Range(stack[c]) = {y} /\ y.at = "yield"
    BY <1>1, <1>2 DEF Init, y
  <2>2. intpending[c] = {} /\ ~int_disabled[c]
    BY DEF Init
  <2> QED BY <2>1, <2>2 DEF CoreInv, Noticed, Masked, Quantum, Rearms
<1> QED BY <1>4, <1>5, InvByCore

----------------------------------------------------------------------------
(***************************************************************************)
(* The PIC and the clock.                                                  *)
(***************************************************************************)
LEMMA TimerInv ==
  ASSUME InterruptsInv, NEW c \in Core, timer_expires(c)
  PROVE  InterruptsInv'
<1>0. TypeOK /\ CoreInv(c)
  BY InvByCore
<1>1. /\ stack' = stack /\ int_disabled' = int_disabled /\ usr1' = usr1 /\ pic' = pic
      /\ intpending' = intpending /\ blocked' = blocked /\ halted' = halted
      /\ timer' = [timer EXCEPT ![c] = FALSE] /\ expired' = [expired EXCEPT ![c] = TRUE]
      /\ AlarmTimely => ~Window(stack[c])
  BY DEF timer_expires, InWindow
<1>2. timer' \in [Core -> BOOLEAN] /\ expired' \in [Core -> BOOLEAN] /\ expired'[c]
  BY <1>0, <1>1 DEF TypeOK
<1>3. TypeOK'
  BY <1>0, <1>1, <1>2 DEF TypeOK
<1>4. CoreInv(c)'
  BY <1>0, <1>1, <1>2 DEF CoreInv, Noticed, Queued, Masked, Quantum
<1> QED BY <1>0, <1>1, <1>3, <1>4, StepOf DEF Queued, TypeOK

LEMMA RaiseInv ==
  ASSUME InterruptsInv, NEW c \in Core, NEW i \in Raised \cup {ALARM}, raise_interrupt(c, i)
  PROVE  InterruptsInv'
<1>0. TypeOK /\ CoreInv(c)
  BY InvByCore
<1>1. /\ stack' = stack /\ int_disabled' = int_disabled /\ usr1' = usr1 /\ blocked' = blocked
      /\ halted' = halted /\ timer' = timer /\ pic = Nil
      /\ pic' = [core |-> c, int |-> i, at |-> "queue"]
      /\ intpending' = [intpending EXCEPT ![c] = @ \cup {i}]
  BY DEF raise_interrupt
<1>2. i \in 0 .. maximum_interrupt_no - 1
  BY InterruptsAssumption DEF ALARM, ICI, SERIAL_RX_READY, SERIAL_TX_READY, maximum_interrupt_no
<1>3. /\ expired' \in [Core -> BOOLEAN] /\ \A d \in Core : d # c => expired'[d] = expired[d]
      /\ expired'[c] = expired[c] \/ i = ALARM
  BY <1>0 DEF raise_interrupt, TypeOK
<1>4. TypeOK'
  BY <1>0, <1>1, <1>2, <1>3 DEF TypeOK, Raising
<1>5. Queued(c)'
  <2>1. pic' # Nil
    BY <1>1, <1>2, InterruptsAssumption DEF Raising
  <2> QED BY <1>1, <2>1 DEF Queued
<1>6. CoreInv(c)'
  <2>1. intpending'[c] = intpending[c] \cup {i}
    BY <1>0, <1>1 DEF TypeOK
  <2>2. AlarmTimely /\ expired'[c] # expired[c] => ~Window(stack[c])
    BY <1>0 DEF raise_interrupt, InWindow, TypeOK
  <2> QED BY <1>0, <1>1, <1>3, <1>5, <2>1, <2>2 DEF CoreInv, Noticed, Masked, Quantum
<1> QED BY <1>0, <1>1, <1>3, <1>4, <1>6, StepOf DEF Queued, TypeOK

LEMMA QueueInv ==
  ASSUME InterruptsInv, raise_queue \/ raise_restart
  PROVE  InterruptsInv'
<1>0. TypeOK
  BY InvByCore
<1>1. /\ stack' = stack /\ int_disabled' = int_disabled /\ blocked' = blocked /\ timer' = timer
      /\ expired' = expired /\ intpending' = intpending /\ pic # Nil
  BY DEF raise_queue, raise_restart
<1>2. pic.core \in Core
  BY <1>0, <1>1 DEF TypeOK, Raising
<1>3. PICK c \in Core : c = pic.core
  BY <1>2
<1>4. CoreInv(c)
  BY InvByCore
<1>5. TypeOK' /\ \A d \in Core : (Queued(d) => Queued(d)')
  <2>1. CASE raise_queue
    <3>1. usr1' \in [Core -> BOOLEAN] /\ \A d \in Core : usr1[d] => usr1'[d]
      BY <1>0, <2>1, Zenon DEF raise_queue, TypeOK
    <3>2. usr1'[c]
      BY <1>0, <1>3, <2>1 DEF raise_queue, TypeOK
    <3>3. pic' \in Raising
      BY <1>0, <1>1, <2>1 DEF raise_queue, TypeOK, Raising
    <3>4. TypeOK'
      BY <1>0, <1>1, <2>1, <3>1, <3>3 DEF raise_queue, TypeOK
    <3> QED BY <1>3, <3>1, <3>2, <3>4 DEF Queued
  <2>2. CASE raise_restart
    <3>1. halted' \in [Core -> BOOLEAN]
      BY <1>0, <2>2, Zenon DEF raise_restart, TypeOK
    <3>2. TypeOK'
      BY <1>0, <1>1, <2>2, <3>1 DEF raise_restart, TypeOK
    <3> QED BY <2>2, <3>2 DEF raise_restart, Queued
  <2> QED BY <2>1, <2>2
<1>6. CoreInv(c)'
  BY <1>1, <1>4, <1>5 DEF CoreInv, Noticed, Masked, Quantum
<1> QED BY <1>1, <1>5, <1>6, StepOf

\* Somebody else restarts the core.
LEMMA RestartInv ==
  ASSUME InterruptsInv, NEW c \in Core, cpu_core_restart(c)
  PROVE  InterruptsInv'
<1>0. TypeOK /\ CoreInv(c)
  BY InvByCore
<1>1. halted' \in [Core -> BOOLEAN]
  BY <1>0, Zenon DEF cpu_core_restart, TypeOK
<1>2. TypeOK'
  BY <1>0, <1>1 DEF cpu_core_restart, TypeOK
<1>3. CoreInv(c)'
  BY <1>0 DEF cpu_core_restart, CoreInv, Noticed, Queued, Masked, Quantum
<1> QED BY <1>2, <1>3, StepOf DEF cpu_core_restart, Queued

----------------------------------------------------------------------------
(***************************************************************************)
(* The functions of a core.                                                *)
(***************************************************************************)

\* What a step of the core itself leaves alone.
LEMMA OwnStep ==
  ASSUME InterruptsInv, NEW c \in Core, NEW q \in Seq(Frame), stack' = [stack EXCEPT ![c] = q],
         NEW off \in BOOLEAN, int_disabled' = [int_disabled EXCEPT ![c] = off],
         NEW pending \in SUBSET intpending[c], intpending' = [intpending EXCEPT ![c] = pending],
         NEW on \in BOOLEAN, timer' = [timer EXCEPT ![c] = on],
         blocked' \in [Core -> BOOLEAN], usr1' \in [Core -> BOOLEAN], halted' \in [Core -> BOOLEAN],
         \A d \in Core \ {c} : usr1'[d] = usr1[d],
         UNCHANGED <<expired, pic>>,
         Queued(c)' \/ \A i \in pending : Looks(Range(q), i),
         off => \E f \in Range(q) : f.at \in Masking,
         AlarmTimely => \/ \E f \in Range(q) : f.at \in Rearms
                        \/ on
                        \/ ~Window(q) /\ (expired[c] \/ ALARM \in pending)
  PROVE  InterruptsInv'
<1>0. TypeOK
  BY InvByCore
<1>1. /\ stack'[c] = q /\ int_disabled'[c] = off /\ intpending'[c] = pending /\ timer'[c] = on
      /\ expired' = expired /\ pic' = pic
      /\ \A d \in Core \ {c} : /\ stack'[d] = stack[d] /\ int_disabled'[d] = int_disabled[d]
                               /\ intpending'[d] = intpending[d] /\ timer'[d] = timer[d]
  BY <1>0 DEF TypeOK
<1>2. TypeOK'
  <2>1. stack' \in [Core -> Seq(Frame)] /\ int_disabled' \in [Core -> BOOLEAN]
        /\ timer' \in [Core -> BOOLEAN]
    BY <1>0 DEF TypeOK
  <2>2. intpending' \in [Core -> SUBSET (0 .. maximum_interrupt_no - 1)]
    BY <1>0 DEF TypeOK
  <2> QED BY <1>0, <2>1, <2>2 DEF TypeOK
<1>3. CoreInv(c)'
  BY <1>1 DEF CoreInv, Noticed, Masked, Quantum
<1> QED BY <1>1, <1>2, <1>3, StepOf DEF Queued

\* A variable that does not change does not change for c.
LEMMA Same ==
  ASSUME TypeOK, NEW c \in Core
  PROVE  /\ int_disabled[c] \in BOOLEAN /\ int_disabled = [int_disabled EXCEPT ![c] = int_disabled[c]]
         /\ timer[c] \in BOOLEAN /\ timer = [timer EXCEPT ![c] = timer[c]]
         /\ intpending[c] \in SUBSET intpending[c]
         /\ intpending = [intpending EXCEPT ![c] = intpending[c]]
         /\ stack[c] \in Seq(Frame) /\ stack = [stack EXCEPT ![c] = stack[c]]
         /\ \A i \in intpending[c] : i \in 0 .. 3
         /\ TRUE \in BOOLEAN /\ FALSE \in BOOLEAN
<1>1. int_disabled[c] \in BOOLEAN /\ timer[c] \in BOOLEAN /\ TRUE \in BOOLEAN /\ FALSE \in BOOLEAN
  BY Zenon DEF TypeOK
<1>2. /\ int_disabled = [int_disabled EXCEPT ![c] = int_disabled[c]]
      /\ timer = [timer EXCEPT ![c] = timer[c]]
      /\ intpending = [intpending EXCEPT ![c] = intpending[c]]
      /\ stack = [stack EXCEPT ![c] = stack[c]] /\ stack[c] \in Seq(Frame)
  BY DEF TypeOK
<1>3. \A i \in intpending[c] : i \in 0 .. 3
  <2>1. intpending[c] \subseteq 0 .. maximum_interrupt_no - 1
    BY DEF TypeOK
  <2>2. maximum_interrupt_no - 1 = 3
    BY DEF maximum_interrupt_no
  <2> QED BY <2>1, <2>2
<1> QED BY <1>1, <1>2, <1>3

LEMMA SignalInv ==
  ASSUME InterruptsInv, NEW c \in Core, sigusr1_handler(c)
  PROVE  InterruptsInv'
<1>0. TypeOK /\ CoreInv(c)
  BY InvByCore
<1>1. /\ usr1' \in [Core -> BOOLEAN] /\ blocked' \in [Core -> BOOLEAN] /\ halted' \in [Core -> BOOLEAN]
      /\ \A d \in Core \ {c} : usr1'[d] = usr1[d]
  BY <1>0, Zenon DEF sigusr1_handler, TypeOK
<1>2. UNCHANGED <<int_disabled, intpending, timer, expired, pic>>
  BY DEF sigusr1_handler
<1>3. CASE int_disabled[c]
  <2>1. stack' = stack
    BY <1>3 DEF sigusr1_handler
  <2>2. \A i \in intpending[c] : Looks(Range(stack[c]), i)
    BY <1>0, <1>3 DEF CoreInv, Masked, Looks
  <2>3. AlarmTimely => Quantum(c)
    BY <1>0 DEF CoreInv
  <2>4. \E f \in Range(stack[c]) : f.at \in Masking
    BY <1>0, <1>3 DEF CoreInv, Masked
  <2> QED BY <1>0, <1>1, <1>2, <2>1, <2>2, <2>3, <2>4, Same, OwnStep DEF Quantum
<1>4. CASE ~int_disabled[c]
  <2> DEFINE q == Append(stack[c], Dispatch(0, TRUE))
  <2>1. stack' = [stack EXCEPT ![c] = q]
    BY <1>4 DEF sigusr1_handler, Push
  <2>2. /\ Dispatch(0, TRUE) \in Frame /\ Dispatch(0, TRUE).at = "dispatch" /\ Dispatch(0, TRUE).next = 0
    <3>1. 0 \in 0 .. maximum_interrupt_no /\ TRUE \in BOOLEAN
      BY <1>0, Same DEF maximum_interrupt_no
    <3> QED BY <3>1, DispatchFrame
  <2>3. /\ q \in Seq(Frame) /\ Range(q) = Range(stack[c]) \cup {Dispatch(0, TRUE)}
        /\ Window(q) <=> Window(stack[c])
    BY <1>0, <2>2, PushFrame, Same DEF Opens
  <2>4. \A i \in intpending[c] : Looks(Range(q), i)
    <3>1. \A i \in intpending[c] : 0 <= i
      <4>1. \A i \in intpending[c] : i \in 0 .. 3
        BY <1>0, Same, Zenon
      <4> QED BY <4>1
    <3> HIDE DEF q
    <3> QED BY <2>2, <2>3, <3>1 DEF Looks
  <2>5. AlarmTimely => \/ \E f \in Range(q) : f.at \in Rearms
                       \/ timer[c]
                       \/ ~Window(q) /\ (expired[c] \/ ALARM \in intpending[c])
    BY <1>0, <2>3 DEF CoreInv, Quantum
  <2> HIDE DEF q
  <2> QED BY <1>0, <1>1, <1>2, <1>4, <2>1, <2>3, <2>4, <2>5, Same, OwnStep
<1> QED BY <1>3, <1>4

\* The smallest of the pending interrupts that are ahead.
LEMMA FirstAhead ==
  ASSUME NEW S \in SUBSET (0 .. 3), S # {}
  PROVE  Min(S) \in S /\ \A j \in S : Min(S) <= j
<1>1. \E i \in S : \A j \in S : i <= j
  <2>1. CASE 0 \in S
    BY <2>1
  <2>2. CASE 0 \notin S /\ 1 \in S
    BY <2>2
  <2>3. CASE 0 \notin S /\ 1 \notin S /\ 2 \in S
    BY <2>3
  <2>4. CASE 0 \notin S /\ 1 \notin S /\ 2 \notin S
    <3>1. PICK i \in S : TRUE
      OBVIOUS
    <3>2. i = 3 /\ \A j \in S : j = 3
      BY <2>4
    <3> QED BY <3>1, <3>2
  <2> QED BY <2>1, <2>2, <2>3, <2>4
<1> QED BY <1>1 DEF Min

LEMMA DispatchInv ==
  ASSUME InterruptsInv, NEW c \in Core, dispatch_interrupts(c)
  PROVE  InterruptsInv'
<1>0. TypeOK /\ CoreInv(c)
  BY InvByCore
<1> DEFINE r == Front(stack[c])
           f == Last(stack[c])
           i == Min(Ahead(c))
           pending == intpending[c] \ {i}
           g == Dispatch(next_int(i), f.signal)
<1>1. stack[c] # <<>> /\ Top(c) = "dispatch" /\ ~int_disabled[c]
  BY DEF dispatch_interrupts, Top
<1>2. /\ r \in Seq(Frame) /\ f \in Frame /\ Range(stack[c]) = Range(r) \cup {f}
      /\ Window(stack[c]) <=> Window(r) \/ Opens(r, f)
      /\ f.at = "dispatch"
  BY <1>1, CoreFacts
<1>3. i \in intpending[c] /\ i \in 0 .. 3 /\ \A j \in Ahead(c) : i <= j
  <2>1. Ahead(c) \in SUBSET (0 .. 3) /\ Ahead(c) # {} /\ Ahead(c) \subseteq intpending[c]
    BY <1>0, Same DEF Ahead, dispatch_interrupts
  <2> QED BY <2>1, FirstAhead
<1>4. /\ intpending' = [intpending EXCEPT ![c] = pending]
      /\ UNCHANGED <<usr1, halted, timer, expired, pic>>
      /\ handler(c, i)
  BY DEF dispatch_interrupts
<1> HIDE DEF r, f, i
<1>5. g \in Frame /\ g.at = "dispatch" /\ g.next = i + 1
  <2>1. f.signal \in BOOLEAN
    BY <1>2 DEF Frame
  <2>2. next_int(i) \in 0 .. maximum_interrupt_no /\ next_int(i) = i + 1
    BY <1>3 DEF next_int, maximum_interrupt_no
  <2> QED BY <2>1, <2>2, DispatchFrame
<1>6. pending \in SUBSET intpending[c]
  OBVIOUS
<1>7. Queued(c) \/ \A j \in pending : Looks(Range(r) \cup {g}, j)
  <2> SUFFICES ASSUME ~Queued(c), NEW j \in pending PROVE Looks(Range(r) \cup {g}, j)
    OBVIOUS
  <2>1. Looks(Range(r) \cup {f}, j)
    BY <1>0, <1>2 DEF CoreInv, Noticed
  <2>2. f.next <= j => i + 1 <= j
    <3> SUFFICES ASSUME f.next <= j PROVE i + 1 <= j
      OBVIOUS
    <3>1. f.next \in Int /\ j \in Int /\ j # i
      <4>1. f.next \in 0 .. maximum_interrupt_no /\ maximum_interrupt_no = 4
        BY <1>2 DEF Frame, maximum_interrupt_no
      <4>2. \A k \in intpending[c] : k \in 0 .. 3
        BY <1>0, Same, Zenon
      <4> QED BY <4>1, <4>2
    <3>2. j \in Ahead(c)
      BY <3>1 DEF Ahead, f
    <3> QED BY <1>3, <3>1, <3>2
  <2> QED BY <1>2, <1>5, <2>1, <2>2 DEF Looks
<1> HIDE DEF g, pending
<1>8. Append(r, g) \in Seq(Frame) /\ Range(Append(r, g)) = Range(r) \cup {g}
      /\ (Window(Append(r, g)) <=> Window(r))
  BY <1>2, <1>5, PushFrame DEF Opens
<1>9. blocked' \in [Core -> BOOLEAN] /\ usr1' \in [Core -> BOOLEAN] /\ halted' \in [Core -> BOOLEAN]
  <2>1. usr1' \in [Core -> BOOLEAN] /\ halted' \in [Core -> BOOLEAN]
    BY <1>0, <1>4 DEF TypeOK
  <2>2. blocked' = blocked \/ blocked' = [blocked EXCEPT ![c] = TRUE]
    BY <1>4 DEF handler
  <2> QED BY <1>0, <2>1, <2>2, Zenon DEF TypeOK
<1>10. /\ int_disabled[c] \in BOOLEAN /\ int_disabled = [int_disabled EXCEPT ![c] = int_disabled[c]]
      /\ timer[c] \in BOOLEAN /\ timer' = [timer EXCEPT ![c] = timer[c]]
      /\ TRUE \in BOOLEAN
      /\ \A d \in Core \ {c} : usr1'[d] = usr1[d]
      /\ UNCHANGED <<expired, pic>>
  <2>1. timer' = timer /\ usr1' = usr1 /\ UNCHANGED <<expired, pic>>
    BY <1>4
  <2> QED BY <1>0, <2>1, Same, Zenon
<1>11. CASE i = ALARM
  <2> DEFINE q == Append(Append(r, g), At("yield"))
  <2>1. stack' = [stack EXCEPT ![c] = q] /\ int_disabled' = int_disabled
    BY <1>4, <1>11 DEF handler, Then, r, f, g, ALARM, SERIAL_RX_READY
  <2>2. At("yield") \in Frame /\ At("yield").at = "yield"
    BY AtFrame
  <2>3. q \in Seq(Frame) /\ Range(q) = Range(r) \cup {g} \cup {At("yield")}
    BY <1>8, <2>2, PushFrame
  <2> HIDE DEF q
  <2>4. Queued(c)' \/ \A j \in pending : Looks(Range(q), j)
    BY <1>4, <1>7, <2>3 DEF Looks, Queued
  <2>5. \E h \in Range(q) : h.at \in Rearms
    BY <2>2, <2>3 DEF Rearms
  <2>6. int_disabled' = [int_disabled EXCEPT ![c] = int_disabled[c]]
    BY <1>10, <2>1
  <2> QED BY <1>1, <1>4, <1>6, <1>9, <1>10, <2>1, <2>3, <2>4, <2>5, <2>6, OwnStep
<1>12. AlarmTimely /\ i # ALARM =>
          \/ \E h \in Range(r) \cup {g} : h.at \in Rearms
          \/ timer[c]
          \/ ~Window(r) /\ (expired[c] \/ ALARM \in pending)
  BY <1>0, <1>2, <1>8 DEF CoreInv, Quantum, pending, Rearms
<1>13. CASE i = SERIAL_RX_READY
  <2> DEFINE q == Append(Append(r, g), At("off"))
  <2>0. i # ALARM
    BY <1>13 DEF ALARM, SERIAL_RX_READY
  <2>1. stack' = [stack EXCEPT ![c] = q] /\ int_disabled' = [int_disabled EXCEPT ![c] = TRUE]
    BY <1>4, <1>13, <2>0 DEF handler, Then, r, f, g
  <2>2. At("off") \in Frame /\ At("off").at = "off"
    BY AtFrame
  <2>3. /\ q \in Seq(Frame) /\ Range(q) = Range(r) \cup {g} \cup {At("off")}
        /\ Window(q) <=> Window(r)
    BY <1>8, <2>2, PushFrame DEF Opens
  <2> HIDE DEF q
  <2>4. Queued(c)' \/ \A j \in pending : Looks(Range(q), j)
    BY <1>4, <1>7, <2>3 DEF Looks, Queued
  <2>5. \E h \in Range(q) : h.at \in Masking
    BY <2>2, <2>3 DEF Masking
  <2>6. AlarmTimely => \/ \E h \in Range(q) : h.at \in Rearms
                       \/ timer[c]
                       \/ ~Window(q) /\ (expired[c] \/ ALARM \in pending)
    BY <1>12, <2>0, <2>3
  <2> QED BY <1>1, <1>4, <1>6, <1>9, <1>10, <2>1, <2>3, <2>4, <2>5, <2>6, OwnStep
<1>14. CASE i # ALARM /\ i # SERIAL_RX_READY
  <2> DEFINE q == Append(r, g)
  <2>1. stack' = [stack EXCEPT ![c] = q] /\ int_disabled' = int_disabled
    BY <1>4, <1>14 DEF handler, Replace, r, f, g
  <2> HIDE DEF q
  <2>2. q \in Seq(Frame) /\ Range(q) = Range(r) \cup {g} /\ (Window(q) <=> Window(r))
    BY <1>8 DEF q
  <2>3. Queued(c)' \/ \A j \in pending : Looks(Range(q), j)
    BY <1>4, <1>7, <2>2 DEF Queued
  <2>4. AlarmTimely => \/ \E h \in Range(q) : h.at \in Rearms
                       \/ timer[c]
                       \/ ~Window(q) /\ (expired[c] \/ ALARM \in pending)
    BY <1>12, <1>14, <2>2
  <2>5. int_disabled' = [int_disabled EXCEPT ![c] = int_disabled[c]]
    BY <1>10, <2>1
  <2> QED BY <1>1, <1>4, <1>6, <1>9, <1>10, <2>1, <2>2, <2>3, <2>4, <2>5, OwnStep
<1> QED BY <1>11, <1>13, <1>14

\* The flags that are not part of the invariant keep their types.
LEMMA FlagTypes ==
  ASSUME TypeOK, NEW c \in Core,
         blocked' \in {blocked} \cup {[blocked EXCEPT ![c] = b] : b \in BOOLEAN},
         halted' \in {halted} \cup {[halted EXCEPT ![c] = b] : b \in BOOLEAN},
         usr1' = usr1
  PROVE  /\ blocked' \in [Core -> BOOLEAN] /\ halted' \in [Core -> BOOLEAN]
         /\ usr1' \in [Core -> BOOLEAN] /\ \A d \in Core \ {c} : usr1'[d] = usr1[d]
<1>1. blocked \in [Core -> BOOLEAN] /\ halted \in [Core -> BOOLEAN] /\ usr1 \in [Core -> BOOLEAN]
  BY DEF TypeOK
<1>2. blocked' \in [Core -> BOOLEAN]
  BY <1>1
<1>3. halted' \in [Core -> BOOLEAN]
  BY <1>1
<1> QED BY <1>1, <1>2, <1>3

LEMMA ReturnInv ==
  ASSUME InterruptsInv, NEW c \in Core, dispatch_return(c)
  PROVE  InterruptsInv'
<1>0. TypeOK /\ CoreInv(c)
  BY InvByCore
<1> DEFINE r == Front(stack[c])
           f == Last(stack[c])
<1>1. stack[c] # <<>> /\ Top(c) = "dispatch"
  BY DEF dispatch_return, Top
<1>2. /\ r \in Seq(Frame) /\ f \in Frame /\ Range(stack[c]) = Range(r) \cup {f}
      /\ Window(stack[c]) <=> Window(r) \/ Opens(r, f)
      /\ f.at = "dispatch"
  BY <1>1, CoreFacts
<1>3. /\ stack' = [stack EXCEPT ![c] = r]
      /\ UNCHANGED <<int_disabled, usr1, intpending, halted, timer, expired, pic>>
      /\ Ahead(c) = {} \/ int_disabled[c]
      /\ blocked' = [blocked EXCEPT ![c] = @ /\ ~f.signal]
  BY DEF dispatch_return, Pop
<1>4. int_disabled[c] => \E h \in Range(r) : h.at \in Masking
  BY <1>0, <1>2 DEF CoreInv, Masked, Masking
<1>5. Queued(c)' \/ \A i \in intpending[c] : Looks(Range(r), i)
  <2>1. CASE int_disabled[c]
    BY <1>4, <2>1 DEF Looks
  <2>2. CASE ~int_disabled[c]
    <3>1. \A i \in intpending[c] : ~(f.next <= i)
      <4>1. f.next \in 0 .. maximum_interrupt_no /\ maximum_interrupt_no = 4
        BY <1>2 DEF Frame, maximum_interrupt_no
      <4>2. \A i \in intpending[c] : i \in 0 .. 3
        BY <1>0, Same, Zenon
      <4> QED BY <1>3, <2>2, <4>1, <4>2 DEF Ahead
    <3>2. Queued(c) => Queued(c)'
      BY <1>3 DEF Queued
    <3> HIDE DEF r, f
    <3> QED BY <1>0, <1>2, <3>1, <3>2 DEF CoreInv, Noticed, Looks, Masking
  <2> QED BY <2>1, <2>2
<1>6. AlarmTimely => \/ \E h \in Range(r) : h.at \in Rearms
                     \/ timer[c]
                     \/ ~Window(r) /\ (expired[c] \/ ALARM \in intpending[c])
  BY <1>0, <1>2 DEF CoreInv, Quantum, Rearms
<1>7. blocked' \in [Core -> BOOLEAN]
  BY <1>0, <1>3 DEF TypeOK
<1>8. usr1' \in [Core -> BOOLEAN] /\ halted' \in [Core -> BOOLEAN]
      /\ \A d \in Core \ {c} : usr1'[d] = usr1[d]
  BY <1>0, <1>3 DEF TypeOK
<1> HIDE DEF r, f
<1> QED BY <1>0, <1>2, <1>3, <1>4, <1>5, <1>6, <1>7, <1>8, Same, OwnStep DEF Masking

\* A thread that runs calls a function.
LEMMA CallInv ==
  ASSUME InterruptsInv, NEW c \in Core,
         cpu_disable_interrupts(c) \/ (Top(c) = "run" /\ call_yield(c))
  PROVE  InterruptsInv'
<1>0. TypeOK /\ CoreInv(c)
  BY InvByCore
<1>1. stack[c] = <<>>
  BY <1>0, TopIs DEF cpu_disable_interrupts
<1>2. Range(stack[c]) = {} /\ ~Window(stack[c])
  BY <1>1 DEF Range, Window
<1>3. /\ UNCHANGED <<usr1, intpending, halted, timer, expired, pic>>
      /\ Queued(c)' <=> Queued(c)
  BY DEF cpu_disable_interrupts, call_yield, Queued
<1>4. Queued(c) \/ intpending[c] = {}
  BY <1>0, <1>2 DEF CoreInv, Noticed, Looks
<1>5. CASE cpu_disable_interrupts(c)
  <2> DEFINE q == Append(stack[c], At("off"))
  <2>1. /\ stack' = [stack EXCEPT ![c] = q] /\ int_disabled' = [int_disabled EXCEPT ![c] = TRUE]
        /\ blocked' = [blocked EXCEPT ![c] = TRUE]
    BY <1>5 DEF cpu_disable_interrupts, Push
  <2>2. At("off") \in Frame /\ At("off").at = "off"
    BY AtFrame
  <2>3. q \in Seq(Frame) /\ Range(q) = {At("off")} /\ ~Window(q)
    BY <1>0, <1>2, <2>2, PushFrame, Same DEF Opens
  <2> HIDE DEF q
  <2>4. \E f \in Range(q) : f.at \in Masking
    BY <2>2, <2>3 DEF Masking
  <2>5. AlarmTimely => timer[c] \/ (~Window(q) /\ (expired[c] \/ ALARM \in intpending[c]))
    BY <1>0, <1>2, <2>3 DEF CoreInv, Quantum
  <2>6. /\ blocked' \in [Core -> BOOLEAN] /\ halted' \in [Core -> BOOLEAN]
        /\ usr1' \in [Core -> BOOLEAN] /\ \A d \in Core \ {c} : usr1'[d] = usr1[d]
    BY <1>0, <1>3, <2>1, FlagTypes
  <2>7. Queued(c)' \/ \A i \in intpending[c] : Looks(Range(q), i)
    BY <1>3, <1>4
  <2> QED BY <1>0, <1>3, <2>1, <2>3, <2>4, <2>5, <2>6, <2>7, Same, OwnStep
<1>6. CASE call_yield(c)
  <2> DEFINE q == Append(stack[c], At("yield"))
  <2>1. stack' = [stack EXCEPT ![c] = q] /\ int_disabled' = int_disabled /\ blocked' = blocked
    <3>1. stack[c] # <<At("off")>>
      BY <1>1
    <3> QED BY <1>6, <3>1 DEF call_yield, Push
  <2>2. At("yield") \in Frame /\ At("yield").at = "yield"
    BY AtFrame
  <2>3. q \in Seq(Frame) /\ Range(q) = {At("yield")}
    <3>1. stack[c] \in Seq(Frame)
      BY <1>0, Same
    <3>2. q \in Seq(Frame) /\ Range(q) = Range(stack[c]) \cup {At("yield")}
      BY <2>2, <3>1, PushFrame
    <3> QED BY <1>2, <3>2
  <2> HIDE DEF q
  <2>4. \E f \in Range(q) : f.at \in Rearms
    BY <2>2, <2>3 DEF Rearms
  <2>5. ~int_disabled[c]
    BY <1>0, <1>2 DEF CoreInv, Masked
  <2>6. /\ blocked' \in [Core -> BOOLEAN] /\ halted' \in [Core -> BOOLEAN]
        /\ usr1' \in [Core -> BOOLEAN] /\ \A d \in Core \ {c} : usr1'[d] = usr1[d]
    BY <1>0, <1>3, <2>1, FlagTypes
  <2>7. Queued(c)' \/ \A i \in intpending[c] : Looks(Range(q), i)
    BY <1>3, <1>4
  <2> QED BY <1>0, <1>3, <2>1, <2>3, <2>4, <2>5, <2>6, <2>7, Same, OwnStep
<1> QED BY <1>5, <1>6

\* sleep_releasing() calls yield() with interrupts disabled.
LEMMA CallDisabledInv ==
  ASSUME InterruptsInv, NEW c \in Core, Top(c) # "run", call_yield(c)
  PROVE  InterruptsInv'
<1>0. TypeOK
  BY InvByCore
<1> DEFINE r == Front(stack[c])
           l == At("sleep")
           y == At("yield")
           s == Append(r, l)
           q == Append(s, y)
<1>1. l \in Frame /\ l.at = "sleep" /\ y \in Frame /\ y.at = "yield"
  BY AtFrame
<1>2. /\ stack[c] # <<>> /\ stack' = [stack EXCEPT ![c] = q]
      /\ usr1' = usr1 /\ intpending' = intpending /\ halted' = halted /\ blocked' = blocked
      /\ int_disabled' = int_disabled /\ timer' = timer /\ UNCHANGED <<expired, pic>>
  BY DEF call_yield, Then
<1>3. r \in Seq(Frame)
  BY <1>2, CoreFacts
<1> HIDE DEF r, l, y
<1>4. s \in Seq(Frame) /\ l \in Range(s)
  BY <1>1, <1>3, PushFrame
<1> HIDE DEF s
<1>5. q \in Seq(Frame) /\ l \in Range(q) /\ y \in Range(q)
  BY <1>1, <1>4, PushFrame
<1>6. /\ blocked' \in [Core -> BOOLEAN] /\ halted' \in [Core -> BOOLEAN]
      /\ usr1' \in [Core -> BOOLEAN] /\ \A d \in Core \ {c} : usr1'[d] = usr1[d]
  BY <1>0, <1>2, FlagTypes
<1> HIDE DEF q
<1>7. \A i \in intpending[c] : Looks(Range(q), i)
  BY <1>1, <1>5 DEF Looks, Masking
<1>8. \E h \in Range(q) : h.at \in Masking
  BY <1>1, <1>5 DEF Masking
<1>9. \E h \in Range(q) : h.at \in Rearms
  BY <1>1, <1>5 DEF Rearms
<1> QED BY <1>0, <1>2, <1>5, <1>6, <1>7, <1>8, <1>9, Same, OwnStep

\* What the stack below the top is enough for.
LEMMA BelowTop ==
  ASSUME InterruptsInv, NEW c \in Core, stack[c] # <<>>,
         NEW r, NEW f, r = Front(stack[c]), f = Last(stack[c])
  PROVE  /\ f.at \in {"yield", "preempt_off", "set_timer", "clear"} =>
              Queued(c) \/ \A i \in intpending[c] : Looks(Range(r), i)
         /\ f.at \notin Masking /\ int_disabled[c] =>
              \E h \in Range(r) : h.at \in Masking
         /\ f.at \notin Rearms /\ AlarmTimely =>
              \/ \E h \in Range(r) : h.at \in Rearms
              \/ timer[c]
              \/ ~Window(r) /\ ~Opens(r, f) /\ (expired[c] \/ ALARM \in intpending[c])
<1>1. /\ Range(stack[c]) = Range(r) \cup {f} /\ CoreInv(c)
      /\ Window(stack[c]) <=> Window(r) \/ Opens(r, f)
  BY CoreFacts
<1>2. f.at \in {"yield", "preempt_off", "set_timer", "clear"} =>
        Queued(c) \/ \A i \in intpending[c] : Looks(Range(r), i)
  BY <1>1 DEF CoreInv, Noticed, Looks, Masking
<1>3. f.at \notin Masking /\ int_disabled[c] =>
        \E h \in Range(r) : h.at \in Masking
  BY <1>1 DEF CoreInv, Masked
<1>4. f.at \notin Rearms /\ AlarmTimely =>
        \/ \E h \in Range(r) : h.at \in Rearms
        \/ timer[c]
        \/ ~Window(r) /\ ~Opens(r, f) /\ (expired[c] \/ ALARM \in intpending[c])
  BY <1>1 DEF CoreInv, Quantum
<1> QED BY <1>2, <1>3, <1>4

\* dispatch_interrupts() is called: it is going to look at everything.
LEMMA CallDispatch ==
  ASSUME TypeOK, NEW c \in Core, NEW s \in Seq(Frame), NEW q, q = Append(s, Dispatch(0, FALSE))
  PROVE  /\ q \in Seq(Frame) /\ Range(s) \subseteq Range(q)
         /\ Window(q) <=> Window(s)
         /\ \A i \in intpending[c] : Looks(Range(q), i)
<1> DEFINE f == Dispatch(0, FALSE)
<1>1. f \in Frame /\ f.at = "dispatch" /\ f.next = 0
  <2>1. 0 \in 0 .. maximum_interrupt_no /\ FALSE \in BOOLEAN
    BY Same DEF maximum_interrupt_no
  <2> QED BY <2>1, DispatchFrame
<1>2. \A i \in intpending[c] : 0 <= i
  <2>1. \A i \in intpending[c] : i \in 0 .. 3
    BY Same, Zenon
  <2> QED BY <2>1
<1> HIDE DEF f
<1>3. q \in Seq(Frame) /\ Range(q) = Range(s) \cup {f} /\ (Window(q) <=> Window(s) \/ Opens(s, f))
  BY <1>1, PushFrame DEF f
<1>4. ~Opens(s, f)
  BY <1>1 DEF Opens
<1>5. \A i \in intpending[c] : Looks(Range(q), i)
  BY <1>1, <1>2, <1>3 DEF Looks
<1> QED BY <1>3, <1>4, <1>5

LEMMA EnableInv ==
  ASSUME InterruptsInv, NEW c \in Core, cpu_enable_interrupts(c)
  PROVE  InterruptsInv'
<1>0. TypeOK
  BY InvByCore
<1> DEFINE r == Front(stack[c])
           f == Last(stack[c])
<1>1. stack[c] # <<>> /\ Top(c) \in Masking
  BY DEF cpu_enable_interrupts, Top, Masking
<1>2. r \in Seq(Frame) /\ f.at = Top(c)
  BY <1>1, CoreFacts
<1>3. /\ int_disabled' = [int_disabled EXCEPT ![c] = FALSE]
      /\ blocked' = [blocked EXCEPT ![c] = FALSE]
      /\ enabled(c)
      /\ usr1' = usr1 /\ intpending' = intpending /\ halted' = halted /\ timer' = timer
      /\ UNCHANGED <<expired, pic>>
  BY DEF cpu_enable_interrupts
<1>4. f.at \notin Rearms /\ AlarmTimely =>
        \/ \E h \in Range(r) : h.at \in Rearms
        \/ timer[c]
        \/ ~Window(r) /\ (expired[c] \/ ALARM \in intpending[c])
  BY <1>1, BelowTop
<1>5. /\ blocked' \in [Core -> BOOLEAN] /\ halted' \in [Core -> BOOLEAN]
      /\ usr1' \in [Core -> BOOLEAN] /\ \A d \in Core \ {c} : usr1'[d] = usr1[d]
  BY <1>0, <1>3, FlagTypes
<1>6. /\ timer[c] \in BOOLEAN /\ timer' = [timer EXCEPT ![c] = timer[c]]
      /\ intpending[c] \in SUBSET intpending[c] /\ FALSE \in BOOLEAN
      /\ intpending' = [intpending EXCEPT ![c] = intpending[c]]
  BY <1>0, <1>3, Same, Zenon
<1>7. CASE Top(c) \in {"off", "sleep"}
  <2> DEFINE q == Append(r, Dispatch(0, FALSE))
  <2>1. stack' = [stack EXCEPT ![c] = q]
    BY <1>3, <1>7 DEF enabled, Replace
  <2> HIDE DEF r, f
  <2>2. /\ q \in Seq(Frame) /\ Range(r) \subseteq Range(q)
        /\ Window(q) <=> Window(r)
        /\ \A i \in intpending[c] : Looks(Range(q), i)
    BY <1>0, <1>2, CallDispatch
  <2> HIDE DEF q
  <2>3. AlarmTimely => \/ \E h \in Range(q) : h.at \in Rearms
                       \/ timer[c]
                       \/ ~Window(q) /\ (expired[c] \/ ALARM \in intpending[c])
    BY <1>2, <1>4, <1>7, <2>2 DEF Rearms
  <2> QED BY <1>3, <1>5, <1>6, <2>1, <2>2, <2>3, OwnStep
<1>8. CASE Top(c) = "yielding"
  <2> DEFINE s == Append(r, At("set_timer"))
             q == Append(s, Dispatch(0, FALSE))
  <2>1. stack' = [stack EXCEPT ![c] = q]
    BY <1>3, <1>8 DEF enabled, Then
  <2>2. At("set_timer") \in Frame /\ At("set_timer").at = "set_timer"
    BY AtFrame
  <2> HIDE DEF r, f
  <2>3. s \in Seq(Frame) /\ At("set_timer") \in Range(s)
    BY <1>2, <2>2, PushFrame
  <2> HIDE DEF s
  <2>4. /\ q \in Seq(Frame) /\ Range(s) \subseteq Range(q)
        /\ \A i \in intpending[c] : Looks(Range(q), i)
    BY <1>0, <2>3, CallDispatch
  <2> HIDE DEF q
  <2>5. \E h \in Range(q) : h.at \in Rearms
    BY <2>2, <2>3, <2>4 DEF Rearms
  <2> QED BY <1>3, <1>5, <1>6, <2>1, <2>4, <2>5, OwnStep
<1> QED BY <1>1, <1>7, <1>8 DEF Masking

\* The timer is stopped by a function that is going to set it.
LEMMA CancelInv ==
  ASSUME InterruptsInv, NEW c \in Core, bios_cancel_timer(c)
  PROVE  InterruptsInv'
<1>0. TypeOK
  BY InvByCore
<1> DEFINE r == Front(stack[c])
           f == Last(stack[c])
           s == Append(r, At("preempt_off"))
           q == Append(s, At("clear"))
<1>1. stack[c] # <<>> /\ Top(c) = "yield"
  BY DEF bios_cancel_timer, Top
<1>2. r \in Seq(Frame) /\ f.at = "yield"
  BY <1>1, CoreFacts
<1>3. /\ stack' = [stack EXCEPT ![c] = q] /\ timer' = [timer EXCEPT ![c] = FALSE]
      /\ usr1' = usr1 /\ intpending' = intpending /\ halted' = halted /\ blocked' = blocked
      /\ int_disabled' = int_disabled /\ UNCHANGED <<expired, pic>>
  BY DEF bios_cancel_timer, Then
<1>4. /\ Queued(c) \/ \A i \in intpending[c] : Looks(Range(r), i)
      /\ int_disabled[c] => \E h \in Range(r) : h.at \in Masking
  BY <1>1, <1>2, BelowTop DEF Masking
<1>5. /\ blocked' \in [Core -> BOOLEAN] /\ halted' \in [Core -> BOOLEAN]
      /\ usr1' \in [Core -> BOOLEAN] /\ \A d \in Core \ {c} : usr1'[d] = usr1[d]
  BY <1>0, <1>3, FlagTypes
<1>6. /\ At("preempt_off") \in Frame /\ At("preempt_off").at = "preempt_off" /\ At("clear") \in Frame
  BY AtFrame
<1> HIDE DEF r, f
<1>7. s \in Seq(Frame) /\ Range(s) = Range(r) \cup {At("preempt_off")}
  BY <1>2, <1>6, PushFrame
<1> HIDE DEF s
<1>8. q \in Seq(Frame) /\ Range(q) = Range(s) \cup {At("clear")}
  BY <1>6, <1>7, PushFrame
<1> HIDE DEF q
<1>9. \E h \in Range(q) : h.at \in Rearms
  BY <1>6, <1>7, <1>8 DEF Rearms
<1>10. Queued(c)' \/ \A i \in intpending[c] : Looks(Range(q), i)
  BY <1>3, <1>4, <1>7, <1>8 DEF Looks, Queued
<1>11. int_disabled[c] => \E h \in Range(q) : h.at \in Masking
  BY <1>4, <1>7, <1>8
<1> QED BY <1>0, <1>3, <1>5, <1>8, <1>9, <1>10, <1>11, Same, OwnStep

LEMMA YieldInv ==
  ASSUME InterruptsInv, NEW c \in Core, yield(c)
  PROVE  InterruptsInv'
<1>0. TypeOK
  BY InvByCore
<1> DEFINE r == Front(stack[c])
           f == Last(stack[c])
           q == Append(r, At("yielding"))
<1>1. stack[c] # <<>> /\ Top(c) = "preempt_off"
  BY DEF yield, Top
<1>2. r \in Seq(Frame) /\ f.at = "preempt_off"
  BY <1>1, CoreFacts
<1>3. /\ stack' = [stack EXCEPT ![c] = q] /\ int_disabled' = [int_disabled EXCEPT ![c] = TRUE]
      /\ blocked' = [blocked EXCEPT ![c] = TRUE]
      /\ usr1' = usr1 /\ intpending' = intpending /\ halted' = halted /\ timer' = timer
      /\ UNCHANGED <<expired, pic>>
  BY DEF yield, Replace
<1>4. /\ blocked' \in [Core -> BOOLEAN] /\ halted' \in [Core -> BOOLEAN]
      /\ usr1' \in [Core -> BOOLEAN] /\ \A d \in Core \ {c} : usr1'[d] = usr1[d]
  BY <1>0, <1>3, FlagTypes
<1>5. At("yielding") \in Frame /\ At("yielding").at = "yielding"
  BY AtFrame
<1> HIDE DEF r, f
<1>6. q \in Seq(Frame) /\ At("yielding") \in Range(q)
  BY <1>2, <1>5, PushFrame
<1> HIDE DEF q
<1>7. \E h \in Range(q) : h.at \in Rearms
  BY <1>5, <1>6 DEF Rearms
<1>8. \A i \in intpending[c] : Looks(Range(q), i)
  BY <1>5, <1>6 DEF Looks, Masking
<1>9. \E h \in Range(q) : h.at \in Masking
  BY <1>5, <1>6 DEF Masking
<1> QED BY <1>0, <1>3, <1>4, <1>6, <1>7, <1>8, <1>9, Same, OwnStep

\* gain() leaves interrupts disabled for sleep_releasing().
LEMMA GainInv ==
  ASSUME InterruptsInv, NEW c \in Core, gain(c)
  PROVE  InterruptsInv'
<1>0. TypeOK
  BY InvByCore
<1> DEFINE r == Front(stack[c])
           l == At("sleep")
           y == At("yielding")
           t == At("set_timer")
           q == Append(r, t)
<1>1. /\ l \in Frame /\ l.at = "sleep" /\ y.at = "yielding"
      /\ t \in Frame /\ t.at = "set_timer"
  BY AtFrame
<1>2. stack[c] = <<l, y>>
  BY DEF gain, Nested
<1>3. /\ stack' = [stack EXCEPT ![c] = q]
      /\ usr1' = usr1 /\ intpending' = intpending /\ halted' = halted /\ blocked' = blocked
      /\ int_disabled' = int_disabled /\ timer' = timer /\ UNCHANGED <<expired, pic>>
  BY DEF gain, Replace
<1>4. r \in Seq(Frame) /\ Range(stack[c]) = Range(r) \cup {Last(stack[c])}
  <2>1. stack[c] # <<>>
    <3> HIDE DEF l, y
    <3>1. <<l, y>> # <<>>
      OBVIOUS
    <3> QED BY <1>2, <3>1
  <2>2. stack[c] \in Seq(Frame)
    BY <1>0 DEF TypeOK
  <2> QED BY <2>1, <2>2, TopFrame
<1> HIDE DEF r, l, y, t
<1>5. l \in Range(r)
  <2>1. Range(<<l, y>>) = {l, y} /\ Last(<<l, y>>) = y
    BY DEF Range, Last
  <2> QED BY <1>1, <1>2, <1>4, <2>1
<1>6. q \in Seq(Frame) /\ l \in Range(q) /\ t \in Range(q)
  BY <1>1, <1>4, <1>5, PushFrame
<1>7. /\ blocked' \in [Core -> BOOLEAN] /\ halted' \in [Core -> BOOLEAN]
      /\ usr1' \in [Core -> BOOLEAN] /\ \A d \in Core \ {c} : usr1'[d] = usr1[d]
  BY <1>0, <1>3, FlagTypes
<1> HIDE DEF q
<1>8. \A i \in intpending[c] : Looks(Range(q), i)
  BY <1>1, <1>6 DEF Looks, Masking
<1>9. \E h \in Range(q) : h.at \in Masking
  BY <1>1, <1>6 DEF Masking
<1>10. \E h \in Range(q) : h.at \in Rearms
  BY <1>1, <1>6 DEF Rearms
<1> QED BY <1>0, <1>3, <1>6, <1>7, <1>8, <1>9, <1>10, Same, OwnStep

LEMMA SetTimerInv ==
  ASSUME InterruptsInv, NEW c \in Core, bios_set_timer(c)
  PROVE  InterruptsInv'
<1>0. TypeOK
  BY InvByCore
<1> DEFINE r == Front(stack[c])
           f == Last(stack[c])
           q == Append(r, At("clear"))
<1>1. stack[c] # <<>> /\ Top(c) = "set_timer"
  BY DEF bios_set_timer, Top
<1>2. r \in Seq(Frame) /\ f.at = "set_timer"
  BY <1>1, CoreFacts
<1>3. /\ stack' = [stack EXCEPT ![c] = q] /\ timer' = [timer EXCEPT ![c] = TRUE]
      /\ usr1' = usr1 /\ intpending' = intpending /\ halted' = halted /\ blocked' = blocked
      /\ int_disabled' = int_disabled /\ UNCHANGED <<expired, pic>>
  BY DEF bios_set_timer, Replace
<1>4. /\ Queued(c) \/ \A i \in intpending[c] : Looks(Range(r), i)
      /\ int_disabled[c] => \E h \in Range(r) : h.at \in Masking
  BY <1>1, <1>2, BelowTop DEF Masking
<1>5. /\ blocked' \in [Core -> BOOLEAN] /\ halted' \in [Core -> BOOLEAN]
      /\ usr1' \in [Core -> BOOLEAN] /\ \A d \in Core \ {c} : usr1'[d] = usr1[d]
  BY <1>0, <1>3, FlagTypes
<1>6. At("clear") \in Frame
  BY AtFrame
<1> HIDE DEF r, f
<1>7. q \in Seq(Frame) /\ Range(q) = Range(r) \cup {At("clear")}
  BY <1>2, <1>6, PushFrame
<1> HIDE DEF q
<1>8. Queued(c)' \/ \A i \in intpending[c] : Looks(Range(q), i)
  BY <1>3, <1>4, <1>7 DEF Looks, Queued
<1>9. int_disabled[c] => \E h \in Range(q) : h.at \in Masking
  BY <1>4, <1>7
<1> QED BY <1>0, <1>3, <1>5, <1>7, <1>8, <1>9, Same, OwnStep

\* An ALARM is dropped while a timer runs, or by a function that is going to
\* set the timer.
LEMMA ClearInv ==
  ASSUME InterruptsInv, NEW c \in Core, clear_alarm(c)
  PROVE  InterruptsInv'
<1>0. TypeOK
  BY InvByCore
<1> DEFINE r == Front(stack[c])
           f == Last(stack[c])
           pending == intpending[c] \ {ALARM}
<1>1. stack[c] # <<>> /\ Top(c) = "clear"
  BY DEF clear_alarm, Top
<1>2. r \in Seq(Frame) /\ f.at = "clear"
  BY <1>1, CoreFacts
<1>3. /\ stack' = [stack EXCEPT ![c] = r] /\ intpending' = [intpending EXCEPT ![c] = pending]
      /\ usr1' = usr1 /\ timer' = timer /\ halted' = halted /\ blocked' = blocked
      /\ int_disabled' = int_disabled /\ UNCHANGED <<expired, pic>>
  BY DEF clear_alarm, Pop
<1>4. /\ Queued(c) \/ \A i \in intpending[c] : Looks(Range(r), i)
      /\ int_disabled[c] => \E h \in Range(r) : h.at \in Masking
      /\ AlarmTimely => \/ \E h \in Range(r) : h.at \in Rearms
                        \/ timer[c]
                        \/ ~Opens(r, f)
  BY <1>1, <1>2, BelowTop DEF Rearms, Masking
<1>5. /\ blocked' \in [Core -> BOOLEAN] /\ halted' \in [Core -> BOOLEAN]
      /\ usr1' \in [Core -> BOOLEAN] /\ \A d \in Core \ {c} : usr1'[d] = usr1[d]
  BY <1>0, <1>3, FlagTypes
<1> HIDE DEF r, f
<1>6. ~Opens(r, f) => \E h \in Range(r) : h.at \in Rearms
  <2> SUFFICES ASSUME ~Opens(r, f) PROVE \E h \in Range(r) : h.at \in Rearms
    OBVIOUS
  <2>1. r # <<>> /\ Last(r).at = "preempt_off"
    BY <1>2 DEF Opens
  <2>2. Last(r) \in Range(r)
    BY <1>2, <2>1, TopFrame
  <2> QED BY <2>1, <2>2 DEF Rearms
<1>7. pending \in SUBSET intpending[c]
  OBVIOUS
<1>8. Queued(c)' \/ \A i \in pending : Looks(Range(r), i)
  BY <1>3, <1>4 DEF Queued
<1> HIDE DEF pending
<1> QED BY <1>0, <1>2, <1>3, <1>4, <1>5, <1>6, <1>7, <1>8, Same, OwnStep

\* The idle thread is going to yield after it has been halted.
LEMMA IdleInv ==
  ASSUME InterruptsInv, NEW c \in Core, idle_thread(c)
  PROVE  InterruptsInv'
<1>0. TypeOK /\ CoreInv(c)
  BY InvByCore
<1>1. stack[c] = <<>>
  BY <1>0, TopIs DEF idle_thread
<1>2. ~int_disabled[c]
  BY <1>0, <1>1 DEF CoreInv, Masked, Range
<1> DEFINE y == At("yield")
           h == At("halting")
           q == <<y, h>>
<1>3. /\ stack' = [stack EXCEPT ![c] = q] /\ blocked' = [blocked EXCEPT ![c] = TRUE]
      /\ usr1' = usr1 /\ intpending' = intpending /\ halted' = halted /\ timer' = timer
      /\ int_disabled' = int_disabled /\ UNCHANGED <<expired, pic>>
  BY DEF idle_thread
<1>4. y \in Frame /\ y.at = "yield" /\ h \in Frame /\ h.at = "halting"
  BY AtFrame
<1>5. /\ blocked' \in [Core -> BOOLEAN] /\ halted' \in [Core -> BOOLEAN]
      /\ usr1' \in [Core -> BOOLEAN] /\ \A d \in Core \ {c} : usr1'[d] = usr1[d]
  BY <1>0, <1>3, FlagTypes
<1> HIDE DEF y, h
<1>6. q \in Seq(Frame) /\ y \in Range(q) /\ h \in Range(q)
  BY <1>4 DEF Range
<1> HIDE DEF q
<1>7. \A i \in intpending[c] : Looks(Range(q), i)
  BY <1>4, <1>6 DEF Looks
<1>8. \E g \in Range(q) : g.at \in Rearms
  BY <1>4, <1>6 DEF Rearms
<1>9. /\ timer[c] \in BOOLEAN /\ timer' = [timer EXCEPT ![c] = timer[c]]
      /\ intpending[c] \in SUBSET intpending[c]
      /\ intpending' = [intpending EXCEPT ![c] = intpending[c]]
      /\ int_disabled[c] \in BOOLEAN /\ int_disabled' = [int_disabled EXCEPT ![c] = int_disabled[c]]
  BY <1>0, <1>3, Same, Zenon
<1> QED BY <1>2, <1>3, <1>5, <1>6, <1>7, <1>8, <1>9, OwnStep

LEMMA HaltInv ==
  ASSUME InterruptsInv, NEW c \in Core, cpu_core_halt(c)
  PROVE  InterruptsInv'
<1>0. TypeOK
  BY InvByCore
<1> DEFINE r == Front(stack[c])
           f == Last(stack[c])
           q == Append(r, At("halted"))
<1>1. stack[c] # <<>> /\ Top(c) = "halting"
  BY DEF cpu_core_halt, Top
<1>2. r \in Seq(Frame) /\ f.at = "halting"
  BY <1>1, CoreFacts
<1>3. /\ stack' = [stack EXCEPT ![c] = q] /\ halted' = [halted EXCEPT ![c] = TRUE]
      /\ usr1' = usr1 /\ intpending' = intpending /\ timer' = timer /\ blocked' = blocked
      /\ int_disabled' = int_disabled /\ UNCHANGED <<expired, pic>>
  BY DEF cpu_core_halt, Replace
<1>4. /\ int_disabled[c] => \E h \in Range(r) : h.at \in Masking
      /\ AlarmTimely => \/ \E h \in Range(r) : h.at \in Rearms
                        \/ timer[c]
                        \/ ~Window(r) /\ (expired[c] \/ ALARM \in intpending[c])
  BY <1>1, <1>2, BelowTop DEF Rearms, Masking
<1>5. /\ blocked' \in [Core -> BOOLEAN] /\ halted' \in [Core -> BOOLEAN]
      /\ usr1' \in [Core -> BOOLEAN] /\ \A d \in Core \ {c} : usr1'[d] = usr1[d]
  BY <1>0, <1>3, FlagTypes
<1>6. At("halted") \in Frame /\ At("halted").at = "halted"
  BY AtFrame
<1> HIDE DEF r, f
<1>7. /\ q \in Seq(Frame) /\ Range(q) = Range(r) \cup {At("halted")}
      /\ Window(q) <=> Window(r)
  BY <1>2, <1>6, PushFrame DEF Opens
<1> HIDE DEF q
<1>8. \A i \in intpending[c] : Looks(Range(q), i)
  BY <1>6, <1>7 DEF Looks
<1>9. int_disabled[c] => \E h \in Range(q) : h.at \in Masking
  BY <1>4, <1>7
<1>10. AlarmTimely => \/ \E h \in Range(q) : h.at \in Rearms
                      \/ timer[c]
                      \/ ~Window(q) /\ (expired[c] \/ ALARM \in intpending[c])
  BY <1>4, <1>7
<1> QED BY <1>0, <1>3, <1>5, <1>7, <1>8, <1>9, <1>10, Same, OwnStep

LEMMA ResumeInv ==
  ASSUME InterruptsInv, NEW c \in Core, core_resume(c)
  PROVE  InterruptsInv'
<1>0. TypeOK
  BY InvByCore
<1> DEFINE r == Front(stack[c])
           f == Last(stack[c])
           q == Append(r, Dispatch(0, FALSE))
<1>1. stack[c] # <<>> /\ Top(c) = "halted"
  BY DEF core_resume, Top
<1>2. r \in Seq(Frame) /\ f.at = "halted"
  BY <1>1, CoreFacts
<1>3. /\ stack' = [stack EXCEPT ![c] = q] /\ blocked' = [blocked EXCEPT ![c] = FALSE]
      /\ usr1' = usr1 /\ intpending' = intpending /\ timer' = timer /\ halted' = halted
      /\ int_disabled' = int_disabled /\ UNCHANGED <<expired, pic>>
  BY DEF core_resume, Replace
<1>4. /\ int_disabled[c] => \E h \in Range(r) : h.at \in Masking
      /\ AlarmTimely => \/ \E h \in Range(r) : h.at \in Rearms
                        \/ timer[c]
                        \/ ~Window(r) /\ (expired[c] \/ ALARM \in intpending[c])
  BY <1>1, <1>2, BelowTop DEF Rearms, Masking
<1>5. /\ blocked' \in [Core -> BOOLEAN] /\ halted' \in [Core -> BOOLEAN]
      /\ usr1' \in [Core -> BOOLEAN] /\ \A d \in Core \ {c} : usr1'[d] = usr1[d]
  BY <1>0, <1>3, FlagTypes
<1> HIDE DEF r, f
<1>6. /\ q \in Seq(Frame) /\ Range(r) \subseteq Range(q)
      /\ Window(q) <=> Window(r)
      /\ \A i \in intpending[c] : Looks(Range(q), i)
  BY <1>0, <1>2, CallDispatch
<1> HIDE DEF q
<1>7. int_disabled[c] => \E h \in Range(q) : h.at \in Masking
  BY <1>4, <1>6
<1>8. AlarmTimely => \/ \E h \in Range(q) : h.at \in Rearms
                     \/ timer[c]
                     \/ ~Window(q) /\ (expired[c] \/ ALARM \in intpending[c])
  BY <1>4, <1>6
<1> QED BY <1>0, <1>3, <1>5, <1>6, <1>7, <1>8, Same, OwnStep

----------------------------------------------------------------------------
LEMMA NextInv == InterruptsInv /\ [Next]_vars => InterruptsInv'
<1> SUFFICES ASSUME InterruptsInv, [Next]_vars PROVE InterruptsInv'
  OBVIOUS
<1>1. CASE UNCHANGED vars
  BY <1>1 DEF vars, InterruptsInv, TypeOK, PendingNoticed, WillLook, MaskInv, QuantumRuns, QuantumInv,
              InWindow
<1>2. ASSUME NEW c \in Core, Step(c) PROVE InterruptsInv'
  BY <1>2, SignalInv, DispatchInv, ReturnInv, EnableInv, CancelInv, YieldInv, GainInv, SetTimerInv,
     ClearInv, HaltInv, ResumeInv DEF Step
<1>3. ASSUME NEW c \in Core, Program(c) PROVE InterruptsInv'
  BY <1>3, CallInv, CallDisabledInv, IdleInv DEF Program
<1>4. ASSUME NEW c \in Core, PIC(c) PROVE InterruptsInv'
  BY <1>4, RaiseInv, QueueInv DEF PIC
<1> QED BY <1>1, <1>2, <1>3, <1>4, TimerInv, RestartInv DEF Next

\* The invariants of a core hold for any number of cores, any set of interrupts
\* and any nesting of handlers: a pending interrupt will be looked at
\* (raise_interrupt(), dispatch_interrupts(), cpu_core_halt()), interrupts are
\* disabled by a function that enables them, and a thread runs with its timer
\* armed or the ALARM on its way (yield(), gain()).
THEOREM InterruptsCorrect == Spec => []InterruptsInv
<1> QED BY InitInv, NextInv, PTL DEF Spec

=============================================================================
