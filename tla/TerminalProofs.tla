--------------------------- MODULE TerminalProofs ---------------------------
(***************************************************************************)
(* The two ends of a terminal.  At the one, what is typed and what is      *)
(* written arrives unharmed, for any number of readers and writers and any *)
(* sizes of their buffers and of the FIFOs.  At the other, the verdicts of *)
(* the test framework can be relied on, for any tests; and so can the      *)
(* exceptions that its tests use.                                          *)
(***************************************************************************)
EXTENDS Serial, TestUtil, SequenceTheorems, TLAPS

\* Moving the first element of t to the end of s leaves s \o t as it is.
LEMMA ConcatMove ==
  ASSUME NEW S, NEW s \in Seq(S), NEW t \in Seq(S), t # <<>>
  PROVE  Append(s, Head(t)) \o Tail(t) = s \o t
<1> DEFINE u == Append(s, Head(t))
           v == Tail(t)
<1>1. /\ Len(s) \in Nat /\ Len(t) \in Nat /\ Len(t) > 0 /\ Head(t) = t[1] /\ Head(t) \in S
  BY HeadTailProperties, LenProperties, EmptySeq
<1>2. /\ u \in Seq(S) /\ Len(u) = Len(s) + 1 /\ u[Len(s) + 1] = t[1]
      /\ \A i \in 1 .. Len(s) : u[i] = s[i]
  BY <1>1, AppendProperties
<1>3. v \in Seq(S) /\ Len(v) = Len(t) - 1 /\ \A i \in 1 .. Len(v) : v[i] = t[i + 1]
  BY <1>1, HeadTailProperties
<1> HIDE DEF u, v
<1>4. /\ u \o v \in Seq(S) /\ s \o t \in Seq(S)
      /\ Len(u \o v) = Len(s) + Len(t) /\ Len(s \o t) = Len(s) + Len(t)
  <2>1. u \o v \in Seq(S) /\ Len(u \o v) = Len(u) + Len(v)
    BY <1>2, <1>3, ConcatProperties
  <2>2. s \o t \in Seq(S) /\ Len(s \o t) = Len(s) + Len(t)
    BY ConcatProperties
  <2>3. Len(u) + Len(v) = Len(s) + Len(t)
    BY <1>1, <1>2, <1>3
  <2> QED BY <2>1, <2>2, <2>3
<1>5. ASSUME NEW i \in 1 .. (Len(s) + Len(t)) PROVE (u \o v)[i] = (s \o t)[i]
  <2>1. (u \o v)[i] = IF i <= Len(u) THEN u[i] ELSE v[i - Len(u)]
    BY <1>1, <1>2, <1>3, ConcatProperties
  <2>2. (s \o t)[i] = IF i <= Len(s) THEN s[i] ELSE t[i - Len(s)]
    BY <1>1, ConcatProperties
  <2>3. CASE i <= Len(s)
    BY <1>1, <1>2, <2>1, <2>2, <2>3
  <2>4. CASE i = Len(s) + 1
    BY <1>1, <1>2, <2>1, <2>2, <2>4
  <2>5. CASE i > Len(s) + 1
    <3>1. i - Len(u) \in 1 .. Len(v) /\ (i - Len(u)) + 1 = i - Len(s)
      BY <1>1, <1>2, <1>3, <2>5
    <3>2. v[i - Len(u)] = t[i - Len(s)]
      BY <1>3, <3>1
    <3>3. ~(i <= Len(u)) /\ ~(i <= Len(s))
      BY <1>1, <1>2, <2>5
    <3> QED BY <2>1, <2>2, <3>2, <3>3
  <2>6. i <= Len(s) \/ i = Len(s) + 1 \/ i > Len(s) + 1
    BY <1>1
  <2> QED BY <2>3, <2>4, <2>5, <2>6
<1> QED BY <1>4, <1>5, SeqEqual DEF u, v

\* Appending to t appends to s \o t.
LEMMA ConcatAppend ==
  ASSUME NEW S, NEW s \in Seq(S), NEW t \in Seq(S), NEW x \in S
  PROVE  s \o Append(t, x) = Append(s \o t, x)
<1>1. <<x>> \in Seq(S) /\ s \o t \in Seq(S)
  BY ConcatProperties
<1>2. Append(s \o t, x) = (s \o t) \o <<x>> /\ Append(t, x) = t \o <<x>>
  BY <1>1, AppendIsConcat
<1>3. (s \o t) \o <<x>> = s \o (t \o <<x>>)
  BY <1>1, ConcatAssociative
<1> QED BY <1>2, <1>3

\* Taking the first n elements off a sequence.
LEMMA DropLemma ==
  ASSUME NEW S, NEW s \in Seq(S), NEW n \in 0 .. Len(s)
  PROVE  /\ SubSeq(s, n + 1, Len(s)) \in Seq(S) /\ Len(SubSeq(s, n + 1, Len(s))) = Len(s) - n
         /\ \A i \in 1 .. (Len(s) - n) : SubSeq(s, n + 1, Len(s))[i] = s[n + i]
         /\ SubSeq(s, 1, n) \in Seq(S) /\ Len(SubSeq(s, 1, n)) = n
         /\ \A i \in 1 .. n : SubSeq(s, 1, n)[i] = s[i]
<1>1. Len(s) \in Nat
  BY LenProperties
<1>2. /\ SubSeq(s, 1, n) \in Seq(S) /\ Len(SubSeq(s, 1, n)) = n
      /\ \A i \in 1 .. n : SubSeq(s, 1, n)[i] = s[i]
  BY <1>1, SubSeqProperties
<1>3. /\ SubSeq(s, n + 1, Len(s)) \in Seq(S) /\ Len(SubSeq(s, n + 1, Len(s))) = Len(s) - n
      /\ \A i \in 1 .. (Len(s) - n) : SubSeq(s, n + 1, Len(s))[i] = s[n + i]
  BY <1>1, SubSeqProperties
<1> QED BY <1>2, <1>3

LEMMA SplitLemma ==
  ASSUME NEW S, NEW s \in Seq(S), NEW n \in 0 .. Len(s)
  PROVE  SubSeq(s, 1, n) \o SubSeq(s, n + 1, Len(s)) = s
<1>1. Len(s) \in Nat
  BY LenProperties
<1>2. 1 \in 1 .. Len(s) + 1 /\ n \in (1 - 1) .. Len(s) /\ Len(s) \in n .. Len(s)
  BY <1>1
<1>3. SubSeq(s, 1, n) \o SubSeq(s, n + 1, Len(s)) = SubSeq(s, 1, Len(s))
  BY <1>2, ConcatAdjacentSubSeq
<1> QED BY <1>3, SubSeqFull

----------------------------------------------------------------------------
(***************************************************************************)
(* The serial port.                                                        *)
(***************************************************************************)

\* The bytes that are displayed, in one sequence.
LEMMA OutputType ==
  ASSUME TypeOK
  PROVE  /\ Output \in Seq(ConByte) /\ Len(Output) \in Nat /\ DOMAIN Output = 1 .. Len(Output)
         /\ \A i \in DOMAIN Output :
              Output[i] \in ConByte /\ Output[i][1] \in Writer /\ Output[i][2] \in Nat /\ Output[i][3] \in Nat
<1>1. Output \in Seq(ConByte)
  BY ConcatProperties DEF TypeOK, Output
<1>2. \A b \in ConByte : b[1] \in Writer /\ b[2] \in Nat /\ b[3] \in Nat
  BY DEF ConByte
<1>3. Len(Output) \in Nat /\ DOMAIN Output = 1 .. Len(Output) /\ \A i \in DOMAIN Output : Output[i] \in ConByte
  BY <1>1, LenProperties, ElementOfSeq
<1> QED BY <1>1, <1>2, <1>3

LEMMA InitInv == SerialInit => SerialInv
<1> SUFFICES ASSUME SerialInit PROVE SerialInv
  OBVIOUS
<1>1. 0 \in 0 .. Size
  BY SerialAssumption
<1>2. io_device_init \in [Device -> BOOLEAN]
  BY DEF io_device_init, Device
<1>3. FALSE \in BOOLEAN
  BY Zenon
<1>4. TypeOK
  <2>1. /\ kbd \in Seq(Nat) /\ got \in Seq(Nat) /\ con \in Seq(ConByte) /\ shown \in Seq(ConByte)
        /\ flipped \subseteq {"IN", "KBD", "CON"} /\ overdue \subseteq Device /\ rx_ready \subseteq Reader
    BY DEF SerialInit
  <2>2. pic \in [at : {"select", "process"}, fds : SUBSET Device]
    BY DEF SerialInit
  <2>3. /\ pc \in [Thread -> {"user", "lock", "io", "failed", "wait", "waiting"}]
        /\ count \in [Thread -> 0 .. Size] /\ calls \in [Thread -> Nat]
    BY <1>1 DEF SerialInit
  <2> QED BY <1>2, <1>3, <2>1, <2>2, <2>3 DEF SerialInit, TypeOK
<1>5. Output = <<>>
  BY DEF SerialInit, Output
<1>6. InputExact
  <2>1. got \o kbd = <<>>
    BY DEF SerialInit
  <2>2. [i \in 1 .. sent |-> i] = <<>>
    BY DEF SerialInit
  <2> QED BY <2>1, <2>2 DEF InputExact
<1>7. OutputWhole
  BY <1>5 DEF OutputWhole
<1>8. DriverInv
  BY SerialAssumption DEF SerialInit, DriverInv, Thread
<1>9. OutputInv
  BY <1>5 DEF SerialInit, OutputInv, Thread
<1> QED BY <1>4, <1>6, <1>7, <1>8, <1>9 DEF SerialInv, TerminalExact

\* A step that does not add to the output.
LEMMA ControlStep ==
  ASSUME SerialInv, TypeOK', InputExact', DriverInv', Output' = Output,
         \A w \in Writer :
           \/ pc'[w] = "user" /\ calls'[w] = calls[w]
           \/ /\ pc[w] # "user" /\ calls'[w] = calls[w] /\ count'[w] = count[w]
              /\ pc'[w] = "lock" => pc[w] = "lock"
           \/ calls'[w] = calls[w] + 1 /\ count'[w] = 0
  PROVE  SerialInv'
<1>1. TypeOK /\ OutputWhole /\ OutputInv
  BY DEF SerialInv, TerminalExact
<1>2. /\ DOMAIN Output = 1 .. Len(Output)
      /\ \A i \in DOMAIN Output : Output[i][1] \in Writer /\ Output[i][2] \in Nat
  BY <1>1, OutputType
<1>3. \A w \in Writer : w \in Thread /\ calls[w] \in Nat /\ calls'[w] \in Nat
  BY <1>1 DEF TypeOK, Thread
<1>4. OutputWhole'
  BY <1>1 DEF OutputWhole
<1>5. \A i \in DOMAIN Output : Output[i][2] <= calls'[Output[i][1]]
  BY <1>1, <1>2, <1>3 DEF OutputInv
<1>6. ASSUME NEW w \in Writer
      PROVE  /\ pc'[w] = "lock" => count'[w] = 0
             /\ pc'[w] # "user" /\ count'[w] = 0 =>
                  \A i \in DOMAIN Output : Output[i][1] = w => Output[i][2] # calls'[w]
             /\ pc'[w] # "user" /\ count'[w] > 0 =>
                  Output # <<>> /\ Last(Output) = <<w, calls'[w], count'[w]>>
  <2>1. CASE pc'[w] = "user"
    BY <2>1
  <2>2. CASE /\ pc[w] # "user" /\ calls'[w] = calls[w] /\ count'[w] = count[w]
             /\ pc'[w] = "lock" => pc[w] = "lock"
    BY <1>1, <2>2 DEF OutputInv
  <2>3. CASE calls'[w] = calls[w] + 1 /\ count'[w] = 0
    <3>1. \A i \in DOMAIN Output : Output[i][1] = w => Output[i][2] # calls'[w]
      BY <1>1, <1>2, <1>3, <2>3 DEF OutputInv
    <3> QED BY <2>3, <3>1
  <2> QED BY <2>1, <2>2, <2>3
<1>7. OutputInv'
  BY <1>5, <1>6 DEF OutputInv
<1> QED BY <1>4, <1>7 DEF SerialInv, TerminalExact

\* The user and the PIC move no bytes.
LEMMA QuietInv ==
  ASSUME SerialInv, type \/ PIC_daemon
  PROVE  SerialInv'
<1>1. TypeOK /\ InputExact /\ DriverInv
  BY DEF SerialInv, TerminalExact
<1>2. /\ sent' = sent /\ kbd' = kbd /\ con' = con /\ got' = got /\ shown' = shown /\ kernel' = kernel
      /\ pc' = pc /\ count' = count /\ calls' = calls /\ rx_ready' = rx_ready /\ flipped' = flipped
  BY DEF type, PIC_daemon, PIC_select, PIC_process, terminal
<1>3. /\ typed' \in Nat /\ ready' \in [Device -> BOOLEAN] /\ overdue' \subseteq Device
      /\ pic' \in [at : {"select", "process"}, fds : SUBSET Device] /\ rx' \in BOOLEAN
  <2>1. CASE type
    BY <1>1, <2>1 DEF type, TypeOK, device, irq
  <2>2. CASE PIC_select
    <3>1. {d \in io_ready : ~ready[d]} \subseteq Device
      BY DEF io_ready, Device
    <3> QED BY <1>1, <2>2, <3>1 DEF PIC_select, TypeOK, terminal, Device
  <2>3. CASE PIC_process
    BY <1>1, <2>3 DEF PIC_process, TypeOK, terminal, Device
  <2> QED BY <2>1, <2>2, <2>3 DEF PIC_daemon
<1>4. TypeOK'
  BY <1>1, <1>2, <1>3 DEF TypeOK
<1>5. InputExact' /\ DriverInv' /\ Output' = Output
  BY <1>1, <1>2 DEF InputExact, DriverInv, Output
<1>6. \A w \in Writer : w \in Thread /\ pc[w] \in {"user", "lock", "io"}
  BY <1>1 DEF DriverInv, Thread
<1> QED BY <1>2, <1>4, <1>5, <1>6, ControlStep

----------------------------------------------------------------------------
\* The terminal sends a byte or displays one.
LEMMA TerminalInv ==
  ASSUME SerialInv, io_loop
  PROVE  SerialInv'
<1>1. TypeOK /\ InputExact /\ DriverInv
  BY DEF SerialInv, TerminalExact
<1>2. PICK XKBD \in BOOLEAN, XCON \in BOOLEAN :
        /\ XCON => con # <<>>
        /\ sent' = IF XKBD THEN sent + 1 ELSE sent
        /\ kbd' = IF XKBD THEN Append(kbd, sent + 1) ELSE kbd
        /\ con' = IF XCON THEN Tail(con) ELSE con
        /\ shown' = IF XCON THEN Append(shown, Head(con)) ELSE shown
  BY DEF io_loop
<1>3. /\ typed' = typed /\ got' = got /\ ready' = ready /\ overdue' = overdue /\ pic' = pic /\ rx' = rx
      /\ rx_ready' = rx_ready /\ kernel' = kernel /\ pc' = pc /\ count' = count /\ calls' = calls
  BY DEF io_loop, device, irq
<1>4. flipped' \subseteq {"IN", "KBD", "CON"}
  BY <1>1 DEF io_loop, TypeOK, Pollable
<1>5. /\ sent' \in Nat /\ kbd' \in Seq(Nat) /\ InputExact'
  <2>1. sent \in Nat /\ kbd \in Seq(Nat) /\ got \in Seq(Nat) /\ sent + 1 \in Nat
    BY <1>1 DEF TypeOK
  <2>2. CASE XKBD
    <3>1. got \o Append(kbd, sent + 1) = Append([i \in 1 .. sent |-> i], sent + 1)
      <4>1. got \o Append(kbd, sent + 1) = Append(got \o kbd, sent + 1)
        BY <2>1, ConcatAppend
      <4> QED BY <1>1, <4>1 DEF InputExact
    <3>2. Append([i \in 1 .. sent |-> i], sent + 1) = [i \in 1 .. (sent + 1) |-> i]
      BY <2>1
    <3>3. Append(kbd, sent + 1) \in Seq(Nat)
      BY <2>1, AppendProperties
    <3> QED BY <1>2, <1>3, <2>1, <2>2, <3>1, <3>2, <3>3 DEF InputExact
  <2>3. CASE ~XKBD
    BY <1>1, <1>2, <1>3, <2>1, <2>3 DEF InputExact
  <2> QED BY <2>2, <2>3
<1>6. /\ con' \in Seq(ConByte) /\ shown' \in Seq(ConByte) /\ Output' = Output
  <2>1. con \in Seq(ConByte) /\ shown \in Seq(ConByte)
    BY <1>1 DEF TypeOK
  <2>2. CASE XCON
    <3>1. con # <<>> /\ con' = Tail(con) /\ shown' = Append(shown, Head(con))
      BY <1>2, <2>2
    <3>2. Append(shown, Head(con)) \o Tail(con) = shown \o con
      BY <2>1, <3>1, ConcatMove
    <3>3. Tail(con) \in Seq(ConByte) /\ Append(shown, Head(con)) \in Seq(ConByte)
      BY <2>1, <3>1, HeadTailProperties, AppendProperties
    <3> QED BY <3>1, <3>2, <3>3 DEF Output
  <2>3. CASE ~XCON
    BY <1>2, <2>1, <2>3 DEF Output
  <2> QED BY <2>2, <2>3
<1>7. TypeOK'
  BY <1>1, <1>3, <1>4, <1>5, <1>6 DEF TypeOK
<1>8. DriverInv'
  BY <1>1, <1>3 DEF DriverInv
<1>9. \A w \in Writer : w \in Thread /\ pc[w] \in {"user", "lock", "io"}
  BY <1>1 DEF DriverInv, Thread
<1> QED BY <1>3, <1>5, <1>6, <1>7, <1>8, <1>9, ControlStep

----------------------------------------------------------------------------
(***************************************************************************)
(* The threads.                                                            *)
(***************************************************************************)

\* A step of thread t that changes its pc and the owner of the kernel.
LEMMA Moves ==
  ASSUME TypeOK, DriverInv, NEW t \in Thread,
         NEW l \in {"user", "lock", "io", "failed", "wait", "waiting"}, pc' = [pc EXCEPT ![t] = l],
         kernel = t \/ kernel' = kernel \/ (kernel = Nil /\ kernel' = t),
         kernel' \in {kernel, t, Nil}, kernel' = t <=> l \in {"io", "failed", "wait"},
         t \in Writer => l \in {"user", "lock", "io"},
         rx_ready' = IF l = "waiting" THEN rx_ready \cup {t} ELSE rx_ready,
         pc[t] # "waiting"
  PROVE  /\ DriverInv' /\ pc' \in [Thread -> {"user", "lock", "io", "failed", "wait", "waiting"}]
         /\ kernel' \in Thread \cup {Nil} /\ rx_ready' \subseteq Reader
         /\ \A u \in Thread : pc'[u] = IF u = t THEN l ELSE pc[u]
<1>1. pc' \in [Thread -> {"user", "lock", "io", "failed", "wait", "waiting"}]
      /\ \A u \in Thread : pc'[u] = IF u = t THEN l ELSE pc[u]
  BY DEF TypeOK
<1>2. kernel' \in Thread \cup {Nil} /\ Nil \notin Thread
  BY SerialAssumption DEF TypeOK, Thread
<1>3. rx_ready' \subseteq Reader /\ \A r \in rx_ready : r \in Thread /\ r # t
  BY DEF TypeOK, Thread, DriverInv
<1>4. \A u \in Thread : kernel' = u <=> pc'[u] \in {"io", "failed", "wait"}
  <2> SUFFICES ASSUME NEW u \in Thread PROVE kernel' = u <=> pc'[u] \in {"io", "failed", "wait"}
    OBVIOUS
  <2>1. kernel = u <=> pc[u] \in {"io", "failed", "wait"}
    BY DEF DriverInv
  <2> QED BY <1>1, <1>2, <2>1
<1>5. \A w \in Writer : pc'[w] \in {"user", "lock", "io"}
  BY <1>1 DEF DriverInv, Thread
<1>6. \A r \in rx_ready' : pc'[r] = "waiting"
  BY <1>1, <1>3 DEF DriverInv
<1> QED BY <1>1, <1>2, <1>3, <1>4, <1>5, <1>6 DEF DriverInv

\* serial_rx_handler() wakes readers up, which then ask for the kernel.
LEMMA HandlerInv ==
  ASSUME SerialInv, serial_rx_handler
  PROVE  SerialInv'
<1>1. TypeOK /\ InputExact /\ DriverInv
  BY DEF SerialInv, TerminalExact
<1>2. /\ typed' = typed /\ sent' = sent /\ kbd' = kbd /\ con' = con /\ got' = got /\ shown' = shown
      /\ flipped' = flipped /\ ready' = ready /\ overdue' = overdue /\ pic' = pic /\ kernel' = kernel
      /\ count' = count /\ calls' = calls
      /\ rx' = FALSE /\ rx_ready' = {}
      /\ pc' = [t \in Thread |-> IF t \in rx_ready THEN "lock" ELSE pc[t]]
  BY DEF serial_rx_handler, terminal, device
<1>3. \A t \in Thread : pc'[t] = IF t \in rx_ready THEN "lock" ELSE pc[t]
  BY <1>2
<1>4. TypeOK'
  <2>1. pc' \in [Thread -> {"user", "lock", "io", "failed", "wait", "waiting"}]
    BY <1>1, <1>2 DEF TypeOK
  <2>2. rx' \in BOOLEAN
    BY <1>2, Zenon
  <2> QED BY <1>1, <1>2, <2>1, <2>2 DEF TypeOK
<1>5. \A w \in Writer : w \in Thread /\ w \notin rx_ready /\ pc[w] \in {"user", "lock", "io"}
  BY <1>1 DEF DriverInv, Thread
<1>6. DriverInv'
  <2>1. \A t \in Thread : kernel' = t <=> pc'[t] \in {"io", "failed", "wait"}
    BY <1>1, <1>2, <1>3 DEF DriverInv
  <2> QED BY <1>2, <1>3, <1>5, <2>1 DEF DriverInv
<1>7. InputExact' /\ Output' = Output
  BY <1>1, <1>2 DEF InputExact, Output
<1> QED BY <1>2, <1>3, <1>4, <1>5, <1>6, <1>7, ControlStep

\* A thread calls Read or Write.
LEMMA CallInv ==
  ASSUME SerialInv, NEW t \in Thread, call(t)
  PROVE  SerialInv'
<1>1. TypeOK /\ InputExact /\ DriverInv
  BY DEF SerialInv, TerminalExact
<1>2. /\ typed' = typed /\ sent' = sent /\ kbd' = kbd /\ con' = con /\ got' = got /\ shown' = shown
      /\ flipped' = flipped /\ ready' = ready /\ overdue' = overdue /\ pic' = pic /\ rx' = rx
      /\ kernel' = kernel /\ rx_ready' = rx_ready
      /\ pc' = [pc EXCEPT ![t] = "lock"] /\ pc[t] = "user"
      /\ calls' = [calls EXCEPT ![t] = IF t \in Writer THEN @ + 1 ELSE @]
      /\ count' = [count EXCEPT ![t] = 0]
  BY DEF call, GoesTo, terminal, device, irq
<1>3. kernel # t
  BY <1>1, <1>2 DEF DriverInv
<1>4. /\ DriverInv' /\ pc' \in [Thread -> {"user", "lock", "io", "failed", "wait", "waiting"}]
      /\ kernel' \in Thread \cup {Nil} /\ rx_ready' \subseteq Reader
      /\ \A u \in Thread : pc'[u] = IF u = t THEN "lock" ELSE pc[u]
  BY <1>1, <1>2, <1>3, Moves
<1>5. /\ calls' \in [Thread -> Nat] /\ count' \in [Thread -> 0 .. Size]
      /\ \A u \in Thread : /\ calls'[u] = IF u = t /\ u \in Writer THEN calls[u] + 1 ELSE calls[u]
                           /\ count'[u] = IF u = t THEN 0 ELSE count[u]
  BY <1>1, <1>2, SerialAssumption DEF TypeOK
<1>6. TypeOK'
  BY <1>1, <1>2, <1>4, <1>5 DEF TypeOK
<1>7. InputExact' /\ Output' = Output
  BY <1>1, <1>2 DEF InputExact, Output
<1>8. \A w \in Writer : w \in Thread /\ pc[w] \in {"user", "lock", "io"}
  BY <1>1 DEF DriverInv, Thread
<1> QED BY <1>4, <1>5, <1>6, <1>7, <1>8, ControlStep

\* The steps in which a thread gets, keeps or gives up the kernel and
\* transfers nothing.
LEMMA DriverStep ==
  ASSUME SerialInv, NEW t \in Thread,
         \/ kernel_lock(t) \/ return(t) \/ serial_read(t) \/ kernel_wait(t) \/ serial_write(t)
  PROVE  SerialInv'
<1>1. TypeOK /\ InputExact /\ DriverInv
  BY DEF SerialInv, TerminalExact
<1>2. /\ typed' = typed /\ sent' = sent /\ kbd' = kbd /\ con' = con /\ got' = got /\ shown' = shown
      /\ flipped' = flipped /\ overdue' = overdue /\ pic' = pic /\ rx' = rx
      /\ count' = count /\ calls' = calls
  BY DEF kernel_lock, return, serial_read, kernel_wait, serial_write, terminal, device, irq
<1>3. ready' \in [Device -> BOOLEAN]
  <2>1. ready' = ready \/ ready' = [ready EXCEPT !["kbd"] = FALSE] \/ ready' = [ready EXCEPT !["con"] = FALSE]
    BY DEF kernel_lock, return, serial_read, kernel_wait, serial_write, device, Unready
  <2>2. ready \in [Device -> BOOLEAN]
    BY <1>1 DEF TypeOK
  <2> QED BY <2>1, <2>2, Zenon
<1>4. PICK l \in {"user", "io", "wait", "waiting"} :
        /\ pc' = [pc EXCEPT ![t] = l]
        /\ pc[t] \in {"lock", "io", "failed", "wait"}
        /\ \/ l = "io" /\ pc[t] = "lock" /\ kernel = Nil /\ kernel' = t /\ rx_ready' = rx_ready
           \/ l = "user" /\ pc[t] # "lock" /\ kernel' = Nil /\ rx_ready' = rx_ready
           \/ l = "wait" /\ pc[t] = "failed" /\ kernel' = kernel /\ rx_ready' = rx_ready
           \/ l = "io" /\ pc[t] = "io" /\ kernel' = kernel /\ rx_ready' = rx_ready
           \/ l = "waiting" /\ pc[t] = "wait" /\ kernel' = Nil /\ rx_ready' = rx_ready \cup {t}
  <2>1. CASE kernel_lock(t)
    BY <2>1 DEF kernel_lock, GoesTo
  <2>2. CASE return(t)
    BY <2>2 DEF return, GoesTo
  <2>3. CASE serial_read(t)
    BY <2>3 DEF serial_read, GoesTo
  <2>4. CASE kernel_wait(t)
    BY <2>4 DEF kernel_wait, GoesTo
  <2>5. CASE serial_write(t)
    BY <2>5 DEF serial_write, GoesTo
  <2> QED BY <2>1, <2>2, <2>3, <2>4, <2>5
<1>5. /\ DriverInv' /\ pc' \in [Thread -> {"user", "lock", "io", "failed", "wait", "waiting"}]
      /\ kernel' \in Thread \cup {Nil} /\ rx_ready' \subseteq Reader
      /\ \A u \in Thread : pc'[u] = IF u = t THEN l ELSE pc[u]
  <2>1. kernel = t <=> pc[t] \in {"io", "failed", "wait"}
    BY <1>1 DEF DriverInv
  <2>2. Nil # t
    BY SerialAssumption DEF Thread
  <2>3. t \in Writer => pc[t] \in {"user", "lock", "io"}
    BY <1>1 DEF DriverInv
  <2>4. /\ kernel = t \/ kernel' = kernel \/ (kernel = Nil /\ kernel' = t)
        /\ kernel' \in {kernel, t, Nil}
        /\ kernel' = t <=> l \in {"io", "failed", "wait"}
    BY <1>4, <2>1, <2>2
  <2>5. rx_ready' = IF l = "waiting" THEN rx_ready \cup {t} ELSE rx_ready
    BY <1>4
  <2>6. (t \in Writer => l \in {"user", "lock", "io"}) /\ pc[t] # "waiting"
    BY <1>4, <2>3
  <2> QED BY <1>1, <1>4, <2>4, <2>5, <2>6, Moves
<1>6. TypeOK'
  BY <1>1, <1>2, <1>3, <1>5 DEF TypeOK
<1>7. InputExact' /\ Output' = Output
  BY <1>1, <1>2 DEF InputExact, Output
<1>8. \A w \in Writer : w \in Thread /\ pc[w] \in {"user", "lock", "io"}
  BY <1>1 DEF DriverInv, Thread
<1> QED BY <1>2, <1>4, <1>5, <1>6, <1>7, <1>8, ControlStep

\* A byte goes from the FIFO to a reader.
LEMMA ReadInv ==
  ASSUME SerialInv, NEW t \in Thread, io_device_read(t)
  PROVE  SerialInv'
<1>1. TypeOK /\ InputExact /\ DriverInv
  BY DEF SerialInv, TerminalExact
<1>2. /\ typed' = typed /\ sent' = sent /\ con' = con /\ shown' = shown
      /\ flipped' = flipped /\ ready' = ready /\ overdue' = overdue /\ pic' = pic /\ rx' = rx
      /\ kernel' = kernel /\ rx_ready' = rx_ready /\ calls' = calls
      /\ t \in Reader /\ t \notin Writer /\ pc[t] = "io" /\ count[t] < Size
  BY SerialAssumption DEF io_device_read, terminal, device, irq
<1>3. \A w \in Writer : w \in Thread /\ w # t /\ pc[w] \in {"user", "lock", "io"}
  BY <1>1, <1>2 DEF DriverInv, Thread
<1>4. Output' = Output
  BY <1>2 DEF Output
<1>5. CASE kbd = <<>>
  <2>1. kbd' = kbd /\ got' = got /\ count' = count /\ pc' = [pc EXCEPT ![t] = "failed"]
    BY <1>5 DEF io_device_read, GoesTo
  <2>2. kernel = t
    BY <1>1, <1>2 DEF DriverInv
  <2>3. /\ DriverInv' /\ pc' \in [Thread -> {"user", "lock", "io", "failed", "wait", "waiting"}]
        /\ \A u \in Thread : pc'[u] = IF u = t THEN "failed" ELSE pc[u]
    BY <1>1, <1>2, <2>1, <2>2, Moves
  <2>4. TypeOK'
    BY <1>1, <1>2, <2>1, <2>3 DEF TypeOK
  <2>5. InputExact'
    BY <1>1, <1>2, <2>1 DEF InputExact
  <2> QED BY <1>2, <1>3, <1>4, <2>1, <2>3, <2>4, <2>5, ControlStep
<1>6. CASE kbd # <<>>
  <2>1. /\ kbd' = Tail(kbd) /\ got' = Append(got, Head(kbd)) /\ pc' = pc
        /\ count' = [count EXCEPT ![t] = @ + 1]
    BY <1>6 DEF io_device_read, valid
  <2>2. kbd \in Seq(Nat) /\ got \in Seq(Nat) /\ count[t] \in 0 .. Size /\ Size \in Nat
    BY <1>1, SerialAssumption DEF TypeOK
  <2>3. kbd' \in Seq(Nat) /\ got' \in Seq(Nat)
    BY <1>6, <2>1, <2>2, HeadTailProperties, AppendProperties
  <2>4. /\ count' \in [Thread -> 0 .. Size] /\ \A u \in Thread : u # t => count'[u] = count[u]
    <3>1. count[t] + 1 \in 0 .. Size
      BY <1>2, <2>2
    <3> QED BY <1>1, <2>1, <3>1 DEF TypeOK
  <2>5. got' \o kbd' = got \o kbd
    BY <1>6, <2>1, <2>2, ConcatMove
  <2>6. TypeOK'
    BY <1>1, <1>2, <2>1, <2>3, <2>4 DEF TypeOK
  <2>7. InputExact' /\ DriverInv'
    BY <1>1, <1>2, <2>1, <2>5 DEF InputExact, DriverInv
  <2> QED BY <1>2, <1>3, <1>4, <2>1, <2>4, <2>6, <2>7, ControlStep
<1> QED BY <1>5, <1>6

\* A writer, which holds the kernel, adds a byte to the output: the first of
\* its call, or the one after the last byte of all.
LEMMA WriteInv ==
  ASSUME SerialInv, NEW t \in Thread, io_device_write(t)
  PROVE  SerialInv'
<1>1. TypeOK /\ InputExact /\ DriverInv /\ OutputWhole /\ OutputInv
  BY DEF SerialInv, TerminalExact
<1> DEFINE b == <<t, calls[t], count[t] + 1>>
           n == Len(Output) + 1
<1>2. /\ typed' = typed /\ sent' = sent /\ kbd' = kbd /\ got' = got /\ shown' = shown
      /\ flipped' = flipped /\ ready' = ready /\ overdue' = overdue /\ pic' = pic /\ rx' = rx
      /\ kernel' = kernel /\ rx_ready' = rx_ready /\ calls' = calls /\ pc' = pc
      /\ con' = Append(con, b) /\ count' = [count EXCEPT ![t] = @ + 1]
      /\ t \in Writer /\ pc[t] = "io" /\ count[t] < Size
  BY DEF io_device_write, terminal, device, irq
<1>3. count[t] \in 0 .. Size /\ count[t] + 1 \in 0 .. Size /\ calls[t] \in Nat
  BY <1>1, <1>2, SerialAssumption DEF TypeOK
<1>4. b \in ConByte /\ b[1] = t /\ b[2] = calls[t] /\ b[3] = count[t] + 1
  BY <1>2, <1>3 DEF ConByte
<1>5. /\ count' \in [Thread -> 0 .. Size]
      /\ \A u \in Thread : count'[u] = IF u = t THEN count[t] + 1 ELSE count[u]
  BY <1>1, <1>2, <1>3 DEF TypeOK
<1> HIDE DEF b
<1>6. con' \in Seq(ConByte) /\ Output' = Append(Output, b)
  <2>1. con \in Seq(ConByte) /\ shown \in Seq(ConByte)
    BY <1>1 DEF TypeOK
  <2> QED BY <1>2, <1>4, <2>1, ConcatAppend, AppendProperties DEF Output
<1>7. TypeOK'
  BY <1>1, <1>2, <1>5, <1>6 DEF TypeOK
<1>8. InputExact' /\ DriverInv'
  BY <1>1, <1>2 DEF InputExact, DriverInv
<1>9. /\ Output \in Seq(ConByte) /\ Len(Output) \in Nat /\ DOMAIN Output = 1 .. Len(Output)
      /\ \A i \in DOMAIN Output :
           Output[i][1] \in Writer /\ Output[i][2] \in Nat /\ Output[i][3] \in Nat
  BY <1>1, OutputType
<1>10. /\ DOMAIN Output' = 1 .. n /\ Output'[n] = b /\ Len(Output') = n /\ Output' # <<>>
       /\ \A i \in 1 .. Len(Output) : Output'[i] = Output[i]
  <2>1. /\ Append(Output, b) \in Seq(ConByte) /\ Len(Append(Output, b)) = n /\ Append(Output, b)[n] = b
        /\ \A i \in 1 .. Len(Output) : Append(Output, b)[i] = Output[i]
    BY <1>4, <1>9, AppendProperties
  <2> QED BY <1>6, <1>9, <2>1, LenProperties
<1>11. \A i \in 1 .. Len(Output) :
         Output[i][1] = t /\ Output[i][2] = calls[t] => count[t] + 1 = Output[i][3] + (n - i)
  <2> SUFFICES ASSUME NEW i \in 1 .. Len(Output), Output[i][1] = t, Output[i][2] = calls[t]
               PROVE  count[t] + 1 = Output[i][3] + (n - i)
    OBVIOUS
  <2>1. count[t] > 0
    BY <1>1, <1>2, <1>3, <1>9 DEF OutputInv
  <2>2. Last(Output) = <<t, calls[t], count[t]>>
    BY <1>1, <1>2, <2>1 DEF OutputInv
  <2>3. /\ Len(Output) \in 1 .. Len(Output) /\ Output[Len(Output)][1] = t
        /\ Output[Len(Output)][2] = calls[t] /\ Output[Len(Output)][3] = count[t]
    BY <1>9, <2>2 DEF Last
  <2>4. CASE i = Len(Output)
    BY <1>3, <1>9, <2>3, <2>4
  <2>5. CASE i < Len(Output)
    <3>1. count[t] = Output[i][3] + (Len(Output) - i)
      BY <1>1, <1>9, <2>3, <2>5 DEF OutputWhole
    <3> QED BY <1>3, <1>9, <3>1
  <2>6. i = Len(Output) \/ i < Len(Output)
    <3>1. Len(Output) \in Nat
      BY <1>9
    <3> QED BY <3>1
  <2> QED BY <2>4, <2>5, <2>6
<1>12. OutputWhole'
  <2> SUFFICES ASSUME NEW i \in 1 .. n, NEW j \in 1 .. n, i < j,
                      Output'[i][1] = Output'[j][1], Output'[i][2] = Output'[j][2]
               PROVE  Output'[j][3] = Output'[i][3] + (j - i)
    BY <1>10 DEF OutputWhole
  <2>1. i \in 1 .. Len(Output) /\ Output'[i] = Output[i]
    BY <1>9, <1>10
  <2>2. CASE j = n
    BY <1>4, <1>10, <1>11, <2>1, <2>2
  <2>3. CASE j # n
    <3>1. j \in 1 .. Len(Output) /\ Output'[j] = Output[j]
      BY <1>9, <1>10, <2>3
    <3> QED BY <1>1, <1>9, <2>1, <3>1 DEF OutputWhole
  <2> QED BY <2>2, <2>3
<1>13. OutputInv'
  <2>1. ASSUME NEW i \in 1 .. n PROVE Output'[i][2] <= calls'[Output'[i][1]]
    <3>1. CASE i = n
      BY <1>2, <1>3, <1>4, <1>10, <3>1
    <3>2. CASE i # n
      <4>1. i \in DOMAIN Output /\ Output'[i] = Output[i]
        BY <1>9, <1>10, <3>2
      <4> QED BY <1>1, <1>2, <4>1 DEF OutputInv
    <3> QED BY <3>1, <3>2
  <2>2. ASSUME NEW w \in Writer, w # t PROVE pc[w] \in {"user", "lock"}
    BY <1>1, <1>2, <2>2 DEF DriverInv, Thread
  <2>3. ASSUME NEW w \in Writer
        PROVE  /\ pc'[w] = "lock" => count'[w] = 0
               /\ pc'[w] # "user" /\ count'[w] = 0 =>
                    \A i \in 1 .. n : Output'[i][1] = w => Output'[i][2] # calls'[w]
               /\ pc'[w] # "user" /\ count'[w] > 0 =>
                    Output' # <<>> /\ Last(Output') = <<w, calls'[w], count'[w]>>
    <3>1. CASE w = t
      <4>1. count'[w] = count[t] + 1 /\ count[t] + 1 # 0 /\ pc'[w] = "io" /\ calls'[w] = calls[t]
        BY <1>2, <1>3, <1>5, <3>1
      <4>2. Last(Output') = b
        BY <1>10 DEF Last
      <4> QED BY <1>10, <3>1, <4>1, <4>2 DEF b
    <3>2. CASE w # t
      <4>1. w \in Thread /\ count'[w] = count[w] /\ pc'[w] = pc[w] /\ calls'[w] = calls[w]
        BY <1>2, <1>5, <3>2 DEF Thread
      <4>2. pc[w] = "user" \/ (pc[w] = "lock" /\ count[w] = 0)
        BY <1>1, <2>2, <3>2 DEF OutputInv
      <4>3. pc[w] = "lock" => \A i \in 1 .. n : Output'[i][1] = w => Output'[i][2] # calls'[w]
        <5> SUFFICES ASSUME pc[w] = "lock", NEW i \in 1 .. n, Output'[i][1] = w
                     PROVE  Output'[i][2] # calls[w]
          BY <4>1
        <5>1. i \in 1 .. Len(Output) /\ Output'[i] = Output[i]
          BY <1>4, <1>9, <1>10, <3>2
        <5> QED BY <1>1, <1>9, <4>2, <5>1 DEF OutputInv
      <4> QED BY <4>1, <4>2, <4>3
    <3> QED BY <3>1, <3>2
  <2> QED BY <1>10, <2>1, <2>3 DEF OutputInv
<1> QED BY <1>7, <1>8, <1>12, <1>13 DEF SerialInv, TerminalExact

----------------------------------------------------------------------------
LEMMA NextInv == SerialInv /\ [SerialNext]_svars => SerialInv'
<1> SUFFICES ASSUME SerialInv, [SerialNext]_svars PROVE SerialInv'
  OBVIOUS
<1>1. CASE UNCHANGED svars
  <2>1. /\ typed' = typed /\ sent' = sent /\ kbd' = kbd /\ con' = con /\ got' = got /\ shown' = shown
        /\ flipped' = flipped /\ ready' = ready /\ overdue' = overdue /\ pic' = pic /\ rx' = rx
        /\ kernel' = kernel /\ rx_ready' = rx_ready /\ calls' = calls /\ pc' = pc /\ count' = count
    BY <1>1 DEF svars, terminal, device, irq
  <2>2. TypeOK' /\ InputExact' /\ DriverInv'
    BY <2>1 DEF SerialInv, TerminalExact, TypeOK, InputExact, DriverInv
  <2>3. Output' = Output
    BY <2>1 DEF Output
  <2>4. OutputWhole' /\ OutputInv'
    BY <2>1, <2>3 DEF SerialInv, TerminalExact, OutputWhole, OutputInv
  <2> QED BY <2>2, <2>4 DEF SerialInv, TerminalExact
<1>2. ASSUME NEW t \in Thread, call(t) \/ Step(t) PROVE SerialInv'
  BY <1>2, CallInv, DriverStep, ReadInv, WriteInv DEF Step
<1> QED BY <1>1, <1>2, QuietInv, TerminalInv, HandlerInv DEF SerialNext

\* The inductive invariant holds for any number of threads and any sizes.
THEOREM SerialCorrect == SerialSpec => []SerialInv
<1> QED BY InitInv, NextInv, PTL DEF SerialSpec

\* No byte is lost, doubled or displaced between the keyboard and the readers,
\* and the bytes of one call of Write are displayed in order and together, for
\* any number of readers and writers (serial_read(), serial_write()).
THEOREM TerminalIsExact == SerialSpec => []TerminalExact
<1>1. SerialInv => TerminalExact
  BY DEF SerialInv
<1> QED BY <1>1, SerialCorrect, PTL

----------------------------------------------------------------------------
(***************************************************************************)
(* The test framework, for any tests, machines, messages and FIFOs.        *)
(***************************************************************************)

\* The test's process between the start of its daemons and its end.
Alive == {"boot", "close con", "join con", "close kbd", "join kbd", "exit"}

\* Where a daemon works on a pattern.
Busy(d) == IF d = "con" THEN {"poll", "test", "read"} ELSE {"poll", "save", "write"}

FrameworkTypeOK ==
  /\ complete \in [Daemon -> BOOLEAN]
  /\ dpc \in [Daemon -> {"off", "get", "poll", "test", "read", "save", "write", "exited"}]
  /\ left \in [Daemon -> Seq(Byte)] /\ pattern \in [Daemon -> Seq(Seq(Byte))]
  /\ con \in Seq(Byte) /\ kbd \in Seq(Byte) /\ Len(kbd) <= Capacity
  /\ written \in Seq(Byte)

LEMMA FrameworkTypeInit == Init => FrameworkTypeOK
<1> SUFFICES ASSUME Init PROVE FrameworkTypeOK
  OBVIOUS
<1>1. complete \in [Daemon -> BOOLEAN]
  BY Zenon DEF Init
<1>2. <<>> \in Seq(Byte) /\ <<>> \in Seq(Seq(Byte)) /\ Len(<<>>) = 0
  BY EmptySeq
<1>3. Capacity \in Nat
  BY FifosAssumption
<1> QED BY <1>1, <1>2, <1>3 DEF Init, FrameworkTypeOK

LEMMA FrameworkTypeStep == FrameworkTypeOK /\ [Next]_vars => FrameworkTypeOK'
<1> SUFFICES ASSUME FrameworkTypeOK, [Next]_vars PROVE FrameworkTypeOK'
  OBVIOUS
<1> USE UnitTestingAssumption, FifosAssumption
<1>1. CASE skip \/ execute \/ set_alarm \/ sigwait \/ cancel \/ waitpid \/ restore \/ expire
  <2>1. UNCHANGED <<con, kbd, daemon>> /\ (written' = written \/ written' = <<>>)
    BY <1>1 DEF skip, execute, set_alarm, sigwait, cancel, waitpid, restore, expire, truth
  <2>2. written' \in Seq(Byte)
    BY <2>1, EmptySeq DEF FrameworkTypeOK
  <2> QED BY <2>1, <2>2 DEF FrameworkTypeOK, daemon
<1>2. CASE kill \/ exit \/ crash
  <2>1. /\ UNCHANGED <<con, kbd, pattern, left, complete, written>>
        /\ dpc' = dpc \/ dpc' = [d \in Daemon |-> "off"]
    BY <1>2 DEF kill, exit, crash, Dies, truth
  <2> QED BY <2>1 DEF FrameworkTypeOK
<1>3. ASSUME NEW d \in Daemon, term_proxy_daemon_add(d) PROVE FrameworkTypeOK'
  <2>1. Append(pattern[d], Message) \in Seq(Seq(Byte))
    BY DEF FrameworkTypeOK
  <2>2. pattern' = [pattern EXCEPT ![d] = Append(pattern[d], Message)]
    BY <1>3 DEF term_proxy_daemon_add
  <2>3. pattern' \in [Daemon -> Seq(Seq(Byte))]
    BY <2>1, <2>2 DEF FrameworkTypeOK
  <2> QED BY <1>3, <2>3 DEF term_proxy_daemon_add, FrameworkTypeOK
<1>4. CASE Write
  <2>1. PICK b \in Byte : con' = Append(con, b) /\ written' = Append(written, b)
    BY <1>4 DEF Write
  <2>2. con' \in Seq(Byte) /\ written' \in Seq(Byte)
    BY <2>1, AppendProperties DEF FrameworkTypeOK
  <2> QED BY <1>4, <2>2 DEF Write, FrameworkTypeOK, daemon
<1>5. CASE Read
  <2>1. kbd' \in Seq(Byte) /\ Len(kbd') = Len(kbd) - 1 /\ Len(kbd) \in Nat
    BY <1>5, HeadTailProperties, LenProperties DEF Read, FrameworkTypeOK
  <2>2. Len(kbd') <= Capacity
    BY <2>1 DEF FrameworkTypeOK
  <2> QED BY <1>5, <2>1, <2>2 DEF Read, FrameworkTypeOK, daemon, truth
<1>6. CASE ASSERT \/ boot
  BY <1>6 DEF ASSERT, boot, FrameworkTypeOK, daemon, truth
<1>7. CASE term_proxy_init
  <2>1. <<>> \in Seq(Byte) /\ <<>> \in Seq(Seq(Byte)) /\ Len(<<>>) = 0
    BY EmptySeq
  <2>2. complete' \in [Daemon -> BOOLEAN]
    BY <1>7 DEF term_proxy_init, FrameworkTypeOK
  <2>3. con' \in Seq(Byte) /\ kbd' \in Seq(Byte) /\ Len(kbd') <= Capacity
    <3>1. CASE Terminal
      <4>1. con' = <<>> /\ kbd' = <<>>
        BY <1>7, <3>1 DEF term_proxy_init, open_fifo
      <4>2. con' \in Seq(Byte) /\ kbd' \in Seq(Byte) /\ Len(kbd') = 0
        BY <2>1, <4>1
      <4> QED BY <4>2
    <3>2. CASE ~Terminal
      BY <1>7, <3>2 DEF term_proxy_init, FrameworkTypeOK
    <3> QED BY <3>1, <3>2
  <2>4. pattern' \in [Daemon -> Seq(Seq(Byte))]
    BY <1>7, <2>1 DEF term_proxy_init, FrameworkTypeOK
  <2> QED BY <1>7, <2>2, <2>3, <2>4 DEF term_proxy_init, FrameworkTypeOK, truth
<1>8. ASSUME NEW d \in Daemon, term_proxy_daemon_close(d) \/ pthread_join(d) PROVE FrameworkTypeOK'
  <2>1. complete' \in [Daemon -> BOOLEAN]
    BY <1>8 DEF term_proxy_daemon_close, pthread_join, FrameworkTypeOK, daemon
  <2> QED BY <1>8, <2>1 DEF term_proxy_daemon_close, pthread_join, FrameworkTypeOK, daemon, truth
<1>9. ASSUME NEW d \in Daemon, term_proxy_daemon_get(d) PROVE FrameworkTypeOK'
  <2>1. dpc' \in [Daemon -> {"off", "get", "poll", "test", "read", "save", "write", "exited"}]
    BY <1>9 DEF term_proxy_daemon_get, Goto, FrameworkTypeOK
  <2>2. left' \in [Daemon -> Seq(Byte)] /\ pattern' \in [Daemon -> Seq(Seq(Byte))]
    <3>1. CASE pattern[d] # <<>>
      <4>1. Head(pattern[d]) \in Seq(Byte) /\ Tail(pattern[d]) \in Seq(Seq(Byte))
        BY <3>1, HeadTailProperties DEF FrameworkTypeOK
      <4>2. /\ left' = [left EXCEPT ![d] = Head(pattern[d])]
            /\ pattern' = [pattern EXCEPT ![d] = Tail(pattern[d])]
        BY <1>9, <3>1 DEF term_proxy_daemon_get, FrameworkTypeOK
      <4> QED BY <4>1, <4>2 DEF FrameworkTypeOK
    <3>2. CASE pattern[d] = <<>>
      BY <1>9, <3>2 DEF term_proxy_daemon_get, FrameworkTypeOK
    <3> QED BY <3>1, <3>2
  <2> QED BY <1>9, <2>1, <2>2 DEF term_proxy_daemon_get, FrameworkTypeOK, truth
<1>10. CASE con_poll \/ con_complete \/ kbd_poll \/ kbd_save
  <2>1. dpc' \in [Daemon -> {"off", "get", "poll", "test", "read", "save", "write", "exited"}]
    BY <1>10 DEF con_poll, con_complete, kbd_poll, kbd_save, Finish, Goto, FrameworkTypeOK
  <2> QED BY <1>10, <2>1 DEF con_poll, con_complete, kbd_poll, kbd_save, FrameworkTypeOK, truth
<1>11. CASE con_read
  <2> DEFINE n == IF Len(con) < Len(left["con"]) THEN Len(con) ELSE Len(left["con"])
             rest == SubSeq(left["con"], n + 1, Len(left["con"]))
  <2>1. dpc' \in [Daemon -> {"off", "get", "poll", "test", "read", "save", "write", "exited"}]
    BY <1>11 DEF con_read, Finish, Goto, FrameworkTypeOK
  <2>2. con' = SubSeq(con, n + 1, Len(con)) /\ left' = [left EXCEPT !["con"] = rest]
    BY <1>11 DEF con_read
  <2>3. left["con"] \in Seq(Byte) /\ con \in Seq(Byte)
    BY DEF FrameworkTypeOK, Daemon
  <2>4. Len(con) \in Nat /\ Len(left["con"]) \in Nat
    BY <2>3, LenProperties
  <2>5. n \in 0 .. Len(con) /\ n \in 0 .. Len(left["con"])
    BY <2>4
  <2> HIDE DEF n
  <2>6. rest \in Seq(Byte) /\ SubSeq(con, n + 1, Len(con)) \in Seq(Byte)
    BY <2>3, <2>5, DropLemma
  <2> HIDE DEF rest
  <2>7. con' \in Seq(Byte) /\ left' \in [Daemon -> Seq(Byte)]
    BY <2>2, <2>6 DEF FrameworkTypeOK
  <2> QED BY <1>11, <2>1, <2>7 DEF con_read, FrameworkTypeOK, truth
<1>12. CASE kbd_write
  <2> DEFINE room == Capacity - Len(kbd)
             n == IF room < Len(left["kbd"]) THEN room ELSE Len(left["kbd"])
             rest == SubSeq(left["kbd"], n + 1, Len(left["kbd"]))
             first == SubSeq(left["kbd"], 1, n)
  <2>1. dpc' \in [Daemon -> {"off", "get", "poll", "test", "read", "save", "write", "exited"}]
    BY <1>12 DEF kbd_write, Finish, Goto, FrameworkTypeOK
  <2>2. kbd' = kbd \o first /\ left' = [left EXCEPT !["kbd"] = rest]
    BY <1>12 DEF kbd_write
  <2>3. left["kbd"] \in Seq(Byte) /\ kbd \in Seq(Byte)
    BY DEF FrameworkTypeOK, Daemon
  <2>4. Len(kbd) \in Nat /\ Len(left["kbd"]) \in Nat
    BY <2>3, LenProperties
  <2>5. n \in 0 .. Len(left["kbd"]) /\ Len(kbd) + n <= Capacity
    BY <2>4 DEF FrameworkTypeOK
  <2> HIDE DEF n
  <2>6. rest \in Seq(Byte) /\ first \in Seq(Byte) /\ Len(first) = n
    BY <2>3, <2>5, DropLemma
  <2> HIDE DEF rest, first
  <2>7. kbd' \in Seq(Byte) /\ Len(kbd') = Len(kbd) + n
    BY <2>2, <2>3, <2>6, ConcatProperties
  <2>8. left' \in [Daemon -> Seq(Byte)] /\ Len(kbd') <= Capacity
    BY <2>2, <2>5, <2>6, <2>7 DEF FrameworkTypeOK
  <2> QED BY <1>12, <2>1, <2>7, <2>8 DEF kbd_write, FrameworkTypeOK, truth
<1>13. CASE UNCHANGED vars
  BY <1>13 DEF vars, daemon, truth, FrameworkTypeOK
<1> QED BY <1>1, <1>2, <1>3, <1>4, <1>5, <1>6, <1>7, <1>8, <1>9, <1>10, <1>11, <1>12, <1>13
        DEF Next, Framework, Program, Around, con_proc, kbd_proc

----------------------------------------------------------------------------
\* The framework and the life of the test's process.
FrameworkFits ==
  /\ at \in {"next", "forked", "nofork", "sigwait", "cancel", "kill", "waitpid", "restore", "killed"}
  /\ child \in Alive \cup {"none", "init", "zombie"}
  /\ armed => at \in {"sigwait", "cancel"}
  /\ pending # {} => at \in {"forked", "sigwait", "cancel", "kill", "waitpid", "restore"}
  /\ child = "none" <=> at \in {"next", "restore", "killed"}
  /\ fork => at # "nofork"
  /\ ~fork => at \in {"next", "nofork", "killed"} /\ child # "zombie"
  /\ child \notin {"none", "zombie"} => status = "none"
  /\ at = "next" /\ verdict = "ok" => status = "129"

LEMMA FrameworkInit == Init => FrameworkFits
BY DEF Init, FrameworkFits

LEMMA FrameworkStep == FrameworkFits /\ [Next]_vars => FrameworkFits'
<1> SUFFICES ASSUME FrameworkFits, [Next]_vars PROVE FrameworkFits'
  OBVIOUS
<1> USE DEF FrameworkFits, Alive
<1>1. CASE skip
  BY <1>1 DEF skip, Decide
<1>2. CASE execute
  BY <1>2 DEF execute
<1>3. CASE set_alarm \/ expire \/ sigwait
  <2>1. CASE set_alarm
    BY <2>1 DEF set_alarm
  <2>2. CASE expire
    BY <2>2 DEF expire
  <2>3. CASE sigwait
    BY <2>3 DEF sigwait
  <2> QED BY <1>3, <2>1, <2>2, <2>3
<1>4. CASE cancel \/ kill \/ waitpid
  <2>1. CASE cancel
    BY <2>1 DEF cancel, cancel_alarm
  <2>2. CASE kill
    BY <2>2 DEF kill, Dies
  <2>3. CASE waitpid
    BY <2>3 DEF waitpid
  <2> QED BY <1>4, <2>1, <2>2, <2>3
<1>5. CASE restore
  BY <1>5 DEF restore, unblock, Decide
<1>6. CASE exit
  <2>1. CASE fork
    BY <1>6, <2>1 DEF exit, Dies
  <2>2. CASE ~fork
    BY <1>6, <2>2 DEF exit, Decide
  <2> QED BY <2>1, <2>2
<1>7. CASE crash
  BY <1>7 DEF crash, Dies
<1>8. ASSUME child \in Alive \cup {"init"}, child' \in Alive, UNCHANGED <<framework, status>>
      PROVE  FrameworkFits'
  BY <1>8 DEF framework
<1>9. CASE boot \/ (Around /\ ~exit)
  <2>1. ASSUME NEW d \in Daemon, term_proxy_daemon_close(d) \/ pthread_join(d) PROVE FrameworkFits'
    <3>1. child \in Alive /\ child' \in Alive /\ UNCHANGED <<framework, status>>
      BY <2>1 DEF term_proxy_daemon_close, pthread_join
    <3> QED BY <1>8, <3>1
  <2>2. CASE boot
    <3>1. child \in Alive /\ child' \in Alive /\ UNCHANGED <<framework, status>>
      BY <2>2 DEF boot
    <3> QED BY <1>8, <3>1
  <2>3. CASE term_proxy_init
    <3>1. child = "init" /\ child' \in Alive /\ UNCHANGED <<framework, status>>
      BY <2>3 DEF term_proxy_init
    <3> QED BY <1>8, <3>1
  <2> QED BY <1>9, <2>1, <2>2, <2>3 DEF Around
<1>10. ASSUME UNCHANGED <<framework, child, status>> PROVE FrameworkFits'
  BY <1>10 DEF framework
<1>11. CASE Write \/ Read \/ ASSERT \/ \E d \in Daemon : term_proxy_daemon_add(d)
  BY <1>10, <1>11 DEF term_proxy_daemon_add, Write, Read, ASSERT
<1>12. CASE con_proc \/ kbd_proc
  BY <1>10, <1>12 DEF con_proc, kbd_proc, con_poll, con_complete, con_read, kbd_poll, kbd_save,
     kbd_write
<1>13. ASSUME NEW d \in Daemon, term_proxy_daemon_get(d) PROVE FrameworkFits'
  BY <1>10, <1>13 DEF term_proxy_daemon_get
<1>14. CASE UNCHANGED vars
  BY <1>10, <1>14 DEF vars
<1> QED BY <1>1, <1>2, <1>3, <1>4, <1>5, <1>6, <1>7, <1>8, <1>9, <1>11, <1>12, <1>13, <1>14
        DEF Next, Framework, Program, Around

----------------------------------------------------------------------------
\* The test has daemons at the other end of its terminal.
Connected == child \in Alive /\ Terminal

\* They are there as long as the test can use its terminal, and go on until
\* they are told that it is complete.
DaemonsFit ==
  IF Connected
  THEN /\ \A d \in Daemon : dpc[d] \in {"get", "exited"} \cup Busy(d)
       /\ \A d \in Daemon : dpc[d] = "exited" => complete[d]
       /\ child \in {"boot", "close con"} => ~complete["con"]
       /\ child \in {"boot", "close con", "join con", "close kbd"} => ~complete["kbd"]
       /\ child \in {"close kbd", "join kbd", "exit"} => dpc["con"] = "exited"
       /\ child = "exit" => dpc["kbd"] = "exited"
  ELSE \A d \in Daemon : dpc[d] \in {"off", "exited"}

LEMMA DaemonsInit == Init => DaemonsFit
BY DEF Init, DaemonsFit, Connected, Alive, Daemon

LEMMA SameTerminal == job' = job => (Terminal' <=> Terminal)
BY DEF Terminal

\* A step of daemon d: the terminal is connected.
LEMMA DaemonConnected ==
  ASSUME DaemonsFit, NEW d \in Daemon, dpc[d] \notin {"off", "exited"}
  PROVE  Connected
BY DEF DaemonsFit

LEMMA DaemonMoves ==
  ASSUME FrameworkTypeOK, DaemonsFit, NEW d \in Daemon, dpc[d] \notin {"off", "exited"}, NEW l, Goto(d, l),
         l \in {"get", "exited"} \cup Busy(d), l = "exited" => complete[d],
         UNCHANGED <<framework, child, complete>>
  PROVE  DaemonsFit'
<1>1. Connected /\ (Connected' <=> Connected)
  BY DaemonConnected, SameTerminal DEF Connected, framework
<1>2. \A e \in Daemon : dpc'[e] = IF e = d THEN l ELSE dpc[e]
  BY DEF Goto, FrameworkTypeOK
<1>3. "con" \in Daemon /\ "kbd" \in Daemon
  BY DEF Daemon
<1> QED BY <1>1, <1>2, <1>3 DEF DaemonsFit

LEMMA DaemonsStep ==
  ASSUME FrameworkTypeOK, FrameworkFits, DaemonsFit, [Next]_vars
  PROVE  DaemonsFit'
<1>0. "con" \in Daemon /\ "kbd" \in Daemon
  BY DEF Daemon
<1>1. ASSUME UNCHANGED <<job, child, dpc, complete>> PROVE DaemonsFit'
  BY <1>1, SameTerminal DEF DaemonsFit, Connected
<1>2. ASSUME child = "none", child' \in {"none", "init"}, dpc' = dpc PROVE DaemonsFit'
  BY <1>2 DEF DaemonsFit, Connected, Alive
<1>3. CASE skip \/ execute \/ restore
  <2>1. child = "none" /\ child' \in {"none", "init"} /\ dpc' = dpc
    BY <1>3 DEF skip, execute, restore, FrameworkFits, daemon
  <2> QED BY <1>2, <2>1
<1>4. CASE set_alarm \/ sigwait \/ cancel \/ expire
  BY <1>1, <1>4 DEF set_alarm, sigwait, cancel, expire, daemon
<1>5. ASSUME NEW how, Dies(how) PROVE DaemonsFit'
  BY <1>5 DEF Dies, DaemonsFit, Connected, Alive
<1>6. CASE kill
  BY <1>1, <1>5, <1>6 DEF kill
<1>7. CASE waitpid
  BY <1>7 DEF waitpid, DaemonsFit, Connected, Alive, daemon
<1>8. CASE exit
  <2>1. CASE fork
    BY <1>5, <1>8, <2>1 DEF exit
  <2>2. CASE ~fork
    <3>1. child = "exit" /\ child' = "none" /\ dpc' = dpc
      BY <1>8, <2>2 DEF exit
    <3>2. \A d \in Daemon : dpc[d] \in {"off", "exited"}
      BY <3>1 DEF DaemonsFit, Daemon
    <3> QED BY <3>1, <3>2 DEF DaemonsFit, Connected, Alive
  <2> QED BY <2>1, <2>2
<1>9. CASE crash
  BY <1>5, <1>9 DEF crash
<1>10. CASE Write \/ Read \/ ASSERT \/ \E d \in Daemon : term_proxy_daemon_add(d)
  BY <1>1, <1>10 DEF term_proxy_daemon_add, Write, Read, ASSERT, daemon, framework
<1>11. CASE boot
  <2>1. /\ child = "boot" /\ dpc' = dpc /\ complete' = complete
        /\ child' = IF Terminal THEN "close con" ELSE "exit"
    BY <1>11 DEF boot, daemon
  <2>2. Terminal' <=> Terminal
    BY <1>11, SameTerminal DEF boot, framework
  <2> QED BY <2>1, <2>2 DEF DaemonsFit, Connected, Alive
<1>12. CASE term_proxy_init
  <2>1. child = "init" /\ child' = "boot" /\ (Terminal' <=> Terminal)
    BY <1>12, SameTerminal DEF term_proxy_init, framework
  <2>2. CASE Terminal
    <3>1. \A d \in Daemon : dpc'[d] = "get" /\ complete'[d] = FALSE
      BY <1>12, <2>2 DEF term_proxy_init
    <3> QED BY <1>0, <2>1, <2>2, <3>1 DEF DaemonsFit, Connected, Alive
  <2>3. CASE ~Terminal
    <3>1. dpc' = dpc
      BY <1>12, <2>3 DEF term_proxy_init
    <3> QED BY <2>1, <2>3, <3>1 DEF DaemonsFit, Connected, Alive
  <2> QED BY <2>2, <2>3
<1>13. ASSUME NEW d \in Daemon, term_proxy_daemon_close(d) PROVE DaemonsFit'
  <2>1. /\ dpc' = dpc /\ child = (IF d = "con" THEN "close con" ELSE "close kbd")
        /\ child' = (IF d = "con" THEN "join con" ELSE "join kbd")
        /\ (Terminal' <=> Terminal)
    BY <1>13, SameTerminal DEF term_proxy_daemon_close, framework
  <2>2. \A e \in Daemon : complete'[e] = IF e = d THEN TRUE ELSE complete[e]
    BY <1>13 DEF term_proxy_daemon_close, FrameworkTypeOK
  <2>3. CASE Terminal
    BY <1>0, <2>1, <2>2, <2>3 DEF DaemonsFit, Connected, Alive, Daemon
  <2>4. CASE ~Terminal
    BY <2>1, <2>4 DEF DaemonsFit, Connected
  <2> QED BY <2>3, <2>4
<1>14. ASSUME NEW d \in Daemon, pthread_join(d) PROVE DaemonsFit'
  <2>1. /\ dpc' = dpc /\ complete' = complete /\ dpc[d] = "exited"
        /\ child = (IF d = "con" THEN "join con" ELSE "join kbd")
        /\ child' = (IF d = "con" THEN "close kbd" ELSE "exit")
        /\ (Terminal' <=> Terminal)
    BY <1>14, SameTerminal DEF pthread_join, framework, daemon
  <2>2. CASE Terminal
    BY <1>0, <2>1, <2>2 DEF DaemonsFit, Connected, Alive, Daemon
  <2>3. CASE ~Terminal
    BY <2>1, <2>3 DEF DaemonsFit, Connected
  <2> QED BY <2>2, <2>3
<1>15. ASSUME NEW d \in Daemon, term_proxy_daemon_get(d) PROVE DaemonsFit'
  <2>1. PICK l : Goto(d, l) /\ l \in {"poll", "exited"} /\ (l = "exited" => complete[d])
    BY <1>15 DEF term_proxy_daemon_get
  <2> QED BY <1>15, <2>1, DaemonMoves DEF term_proxy_daemon_get, Busy
<1>16. CASE con_proc
  <2>1. PICK l : Goto("con", l) /\ l \in {"get", "poll", "test", "read"}
    BY <1>16 DEF con_proc, con_poll, con_complete, con_read, Finish
  <2>2. dpc["con"] \in {"poll", "test", "read"} /\ UNCHANGED <<framework, child, complete>>
    BY <1>16 DEF con_proc, con_poll, con_complete, con_read
  <2> QED BY <1>0, <2>1, <2>2, DaemonMoves DEF Busy
<1>17. CASE kbd_proc
  <2>1. PICK l : Goto("kbd", l) /\ l \in {"get", "poll", "save", "write"}
    BY <1>17 DEF kbd_proc, kbd_poll, kbd_save, kbd_write, Finish
  <2>2. dpc["kbd"] \in {"poll", "save", "write"} /\ UNCHANGED <<framework, child, complete>>
    BY <1>17 DEF kbd_proc, kbd_poll, kbd_save, kbd_write
  <2> QED BY <1>0, <2>1, <2>2, DaemonMoves DEF Busy
<1>18. CASE UNCHANGED vars
  BY <1>1, <1>18 DEF vars, daemon, framework
<1> QED BY <1>3, <1>4, <1>6, <1>7, <1>8, <1>9, <1>10, <1>11, <1>12, <1>13, <1>14, <1>15, <1>16,
           <1>17, <1>18 DEF Next, Framework, Program, Around

----------------------------------------------------------------------------
\* What the framework knows of a test, and what it has done.
TruthFits ==
  /\ ~asserted => FLAG_FAILURE
  /\ child \in Alive \cup {"init"} /\ ~Terminal => told = {}
  /\ child = "init" => told = {} /\ written = <<>>

LEMMA TruthInit == Init => TruthFits
BY DEF Init, TruthFits, Alive

LEMMA TruthStep ==
  ASSUME FrameworkFits, TruthFits, [Next]_vars
  PROVE  TruthFits'
<1>1. ASSUME UNCHANGED <<asserted, told, written, job>>, FLAG_FAILURE => FLAG_FAILURE',
             child' \in Alive => child \in Alive \cup {"init"}, child' = "init" => child = "init"
      PROVE  TruthFits'
  BY <1>1, SameTerminal DEF TruthFits, Alive
<1>2. ASSUME UNCHANGED <<asserted, told, written, FLAG_FAILURE>>, child' = "none" PROVE TruthFits'
  BY <1>2 DEF TruthFits, Alive
<1>3. CASE skip \/ restore
  BY <1>2, <1>3 DEF skip, restore, FrameworkFits, truth
<1>4. CASE execute
  BY <1>4 DEF execute, TruthFits
<1>5. CASE set_alarm \/ sigwait \/ cancel \/ expire
  BY <1>1, <1>5 DEF set_alarm, sigwait, cancel, expire, truth
<1>6. CASE kill \/ waitpid \/ crash
  BY <1>1, <1>6 DEF kill, waitpid, crash, Dies, truth, Alive
<1>7. CASE exit
  <2>1. CASE fork
    BY <1>1, <1>7, <2>1 DEF exit, Dies, truth, Alive
  <2>2. CASE ~fork
    BY <1>2, <1>7, <2>2 DEF exit, truth
  <2> QED BY <2>1, <2>2
<1>8. ASSUME NEW d \in Daemon, term_proxy_daemon_add(d) PROVE TruthFits'
  BY <1>8, SameTerminal DEF term_proxy_daemon_add, TruthFits, framework
<1>9. CASE Write
  BY <1>9, SameTerminal DEF Write, TruthFits, framework
<1>10. CASE ASSERT
  BY <1>10, SameTerminal DEF ASSERT, TruthFits, framework
<1>11. CASE Read \/ boot \/ term_proxy_init
  <2>1. /\ UNCHANGED <<asserted, told, written, job, FLAG_FAILURE>> /\ child \in {"boot", "init"}
        /\ child' # "init"
    BY <1>11 DEF Read, boot, term_proxy_init, truth, framework
  <2> QED BY <1>1, <2>1 DEF Alive
<1>12. ASSUME NEW d \in Daemon, term_proxy_daemon_close(d) \/ pthread_join(d) PROVE TruthFits'
  <2>1. /\ UNCHANGED <<asserted, told, written, job, FLAG_FAILURE>> /\ child \in Alive
        /\ child' # "init"
    BY <1>12 DEF term_proxy_daemon_close, pthread_join, truth, framework, Alive
  <2> QED BY <1>1, <2>1
<1>13. ASSUME NEW d \in Daemon, term_proxy_daemon_get(d) PROVE TruthFits'
  BY <1>1, <1>13 DEF term_proxy_daemon_get, truth, framework
<1>14. CASE con_proc \/ kbd_proc
  <2>1. /\ UNCHANGED <<asserted, told, written, job, child>>
        /\ FLAG_FAILURE => FLAG_FAILURE'
    BY <1>14 DEF con_proc, kbd_proc, con_poll, con_complete, con_read, kbd_poll, kbd_save,
       kbd_write, Finish, truth, framework
  <2> QED BY <1>1, <2>1
<1>15. CASE UNCHANGED vars
  BY <1>1, <1>15 DEF vars, truth, framework
<1> QED BY <1>3, <1>4, <1>5, <1>6, <1>7, <1>8, <1>9, <1>10, <1>11, <1>12, <1>13, <1>14, <1>15
        DEF Next, Framework, Program, Around

----------------------------------------------------------------------------
\* The one message that a test announces to a daemon is not yet there, on its
\* list, or taken from it.
Announced(d) ==
  \/ d \notin told /\ pattern[d] = <<>> /\ dpc[d] \notin Busy(d)
  \/ d \in told /\ pattern[d] = <<Message>> /\ dpc[d] = "get"
  \/ d \in told /\ pattern[d] = <<>>

AnnouncedFits == Connected => \A d \in Daemon : Announced(d)

LEMMA AnnouncedInit == Init => AnnouncedFits
BY DEF Init, AnnouncedFits, Connected, Alive

LEMMA AnnouncedStep ==
  ASSUME FrameworkTypeOK, FrameworkFits, DaemonsFit, AnnouncedFits, TruthFits, [Next]_vars
  PROVE  AnnouncedFits'
<1>1. ASSUME UNCHANGED <<job, told, pattern, dpc>>, child' \in Alive => child \in Alive PROVE AnnouncedFits'
  BY <1>1, SameTerminal DEF AnnouncedFits, Announced, Connected
<1>2. ASSUME child' \notin Alive PROVE AnnouncedFits'
  BY <1>2 DEF AnnouncedFits, Connected
<1>3. CASE skip \/ restore \/ execute \/ kill \/ waitpid \/ crash \/ exit
  <2>1. CASE child' \notin Alive
    BY <1>2, <2>1
  <2>2. CASE child' \in Alive
    <3>1. /\ ~execute /\ ~waitpid /\ ~crash /\ ~exit /\ ~skip /\ ~restore
      BY <2>2 DEF execute, waitpid, crash, exit, skip, restore, Dies, Alive, FrameworkFits
    <3>2. FALSE
      BY <1>3, <2>2, <3>1 DEF kill, Dies, Alive
    <3> QED BY <3>2
  <2> QED BY <2>1, <2>2
<1>4. CASE set_alarm \/ sigwait \/ cancel \/ expire
  BY <1>1, <1>4 DEF set_alarm, sigwait, cancel, expire, daemon, truth
<1>5. ASSUME NEW d \in Daemon, term_proxy_daemon_add(d) PROVE AnnouncedFits'
  <2>1. Connected /\ child = "boot" /\ d \notin told /\ told' = told \cup {d} /\ dpc' = dpc
    BY <1>5 DEF term_proxy_daemon_add, Connected, Alive
  <2>2. pattern[d] = <<>> /\ dpc[d] \notin Busy(d)
    BY <2>1 DEF AnnouncedFits, Announced
  <2>3. dpc[d] = "get"
    BY <2>1, <2>2 DEF DaemonsFit, Daemon
  <2>4. \A e \in Daemon : pattern'[e] = IF e = d THEN Append(pattern[d], Message) ELSE pattern[e]
    BY <1>5 DEF term_proxy_daemon_add, FrameworkTypeOK
  <2>5. pattern'[d] = <<Message>>
    BY <2>2, <2>4
  <2>6. \A e \in Daemon \ {d} : pattern'[e] = pattern[e] /\ (e \in told' <=> e \in told)
    BY <2>1, <2>4
  <2> QED BY <2>1, <2>3, <2>5, <2>6 DEF AnnouncedFits, Announced
<1>6. CASE Write \/ Read \/ ASSERT \/ boot
  <2>1. UNCHANGED <<job, told, pattern, dpc>> /\ child = "boot"
    BY <1>6 DEF Write, Read, ASSERT, boot, framework, truth, daemon
  <2> QED BY <1>1, <2>1 DEF Alive
<1>7. CASE term_proxy_init
  <2>1. child' = "boot" /\ child = "init" /\ (Terminal' <=> Terminal) /\ told' = told
    BY <1>7, SameTerminal DEF term_proxy_init, framework, truth
  <2>2. CASE Terminal
    <3>1. \A d \in Daemon : dpc'[d] = "get" /\ pattern'[d] = <<>>
      BY <1>7, <2>2 DEF term_proxy_init
    <3> QED BY <2>1, <3>1 DEF AnnouncedFits, Announced, TruthFits, Busy
  <2>3. CASE ~Terminal
    BY <2>1, <2>3 DEF AnnouncedFits, Connected
  <2> QED BY <2>2, <2>3
<1>8. ASSUME NEW d \in Daemon, term_proxy_daemon_close(d) \/ pthread_join(d) PROVE AnnouncedFits'
  <2>1. UNCHANGED <<job, told, pattern, dpc>> /\ child \in Alive
    BY <1>8 DEF term_proxy_daemon_close, pthread_join, framework, truth, daemon, Alive
  <2> QED BY <1>1, <2>1
<1>9. ASSUME NEW d \in Daemon, NEW l, Goto(d, l), dpc[d] \in {"get"} \cup Busy(d),
             l # "off", d \notin told => l \notin Busy(d),
             \A e \in Daemon \ {d} : pattern'[e] = pattern[e],
             pattern'[d] = <<>>, UNCHANGED <<job, child, told>>
      PROVE  AnnouncedFits'
  <2>1. Connected /\ (Connected' <=> Connected)
    BY <1>9, DaemonConnected, SameTerminal DEF Connected, Busy
  <2>2. \A e \in Daemon : dpc'[e] = IF e = d THEN l ELSE dpc[e]
    BY <1>9 DEF Goto, FrameworkTypeOK
  <2> QED BY <1>9, <2>1, <2>2 DEF AnnouncedFits, Announced
<1>10. ASSUME NEW d \in Daemon, term_proxy_daemon_get(d) PROVE AnnouncedFits'
  <2>1. Connected /\ dpc[d] = "get" /\ Announced(d)
    BY <1>10, DaemonConnected DEF term_proxy_daemon_get, AnnouncedFits
  <2>2. CASE pattern[d] = <<>>
    BY <1>9, <1>10, <2>1, <2>2 DEF term_proxy_daemon_get, framework, truth, Busy
  <2>3. CASE pattern[d] # <<>>
    <3>1. pattern[d] = <<Message>> /\ d \in told
      BY <2>1, <2>3 DEF Announced
    <3>2. Tail(pattern[d]) = <<>>
      BY <3>1
    <3>3. \A e \in Daemon : pattern'[e] = IF e = d THEN Tail(pattern[d]) ELSE pattern[e]
      BY <1>10, <2>3 DEF term_proxy_daemon_get, FrameworkTypeOK
    <3> QED BY <1>9, <1>10, <2>1, <2>3, <3>1, <3>2, <3>3 DEF term_proxy_daemon_get, framework, truth
  <2> QED BY <2>2, <2>3
<1>11. CASE con_proc \/ kbd_proc
  <2>1. PICK d \in Daemon, l \in {"get", "poll", "test", "read", "save", "write"} :
          dpc[d] \in Busy(d) /\ Goto(d, l)
    BY <1>11 DEF con_proc, kbd_proc, con_poll, con_complete, con_read, kbd_poll, kbd_save,
       kbd_write, Finish, Daemon, Busy
  <2>2. UNCHANGED <<job, child, told, pattern>>
    BY <1>11 DEF con_proc, kbd_proc, con_poll, con_complete, con_read, kbd_poll, kbd_save,
       kbd_write, framework, truth
  <2>3. Connected
    BY <2>1, DaemonConnected DEF Busy
  <2>4. d \in told /\ pattern[d] = <<>>
    BY <2>1, <2>3 DEF AnnouncedFits, Announced, Busy
  <2> QED BY <1>9, <2>1, <2>2, <2>4
<1>12. CASE UNCHANGED vars
  BY <1>1, <1>12 DEF vars, framework, truth, daemon
<1> QED BY <1>3, <1>4, <1>5, <1>6, <1>7, <1>8, <1>10, <1>11, <1>12
        DEF Next, Framework, Program, Around

----------------------------------------------------------------------------
\* The console daemon is left with the rest l of the message, c waits for it,
\* and w has been written: what has been compared has been equal.
Comparing(c, l, w) == \E m \in Seq(Byte) : Message = m \o l /\ w = m \o c

ConFits ==
  IF "con" \in told /\ pattern["con"] = <<>>
  THEN /\ Comparing(con, left["con"], written)
       /\ dpc["con"] \notin Busy("con") => left["con"] = <<>>
  ELSE written = con

KbdFits ==
  "kbd" \in told /\ pattern["kbd"] = <<>> /\ dpc["kbd"] \notin Busy("kbd") => left["kbd"] = <<>>

ContentsFit == Connected /\ ~FLAG_FAILURE => ConFits /\ KbdFits

LEMMA ContentsInit == Init => ContentsFit
BY DEF Init, ContentsFit, Connected, Alive

\* The test writes a byte more.
LEMMA CompareWrite ==
  ASSUME NEW c \in Seq(Byte), NEW l, NEW w, NEW b \in Byte, Comparing(c, l, w)
  PROVE  Comparing(Append(c, b), l, Append(w, b))
<1>1. PICK m \in Seq(Byte) : Message = m \o l /\ w = m \o c
  BY DEF Comparing
<1>2. m \o Append(c, b) = Append(m \o c, b)
  BY ConcatAppend
<1> QED BY <1>1, <1>2 DEF Comparing

\* The daemon compares more, and finds s.
LEMMA CompareRead ==
  ASSUME NEW s \in Seq(Byte), NEW l \in Seq(Byte), NEW c \in Seq(Byte), NEW w,
         Comparing(s \o c, s \o l, w)
  PROVE  Comparing(c, l, w)
<1>1. PICK m \in Seq(Byte) : Message = m \o (s \o l) /\ w = m \o (s \o c)
  BY DEF Comparing
<1>2. m \o s \in Seq(Byte)
  BY ConcatProperties
<1>3. (m \o s) \o l = m \o (s \o l)
  BY ConcatAssociative
<1>4. (m \o s) \o c = m \o (s \o c)
  BY ConcatAssociative
<1> QED BY <1>1, <1>2, <1>3, <1>4 DEF Comparing

\* Everything is compared: the message has been written, perhaps with more.
LEMMA CompareEnd ==
  ASSUME NEW c \in Seq(Byte), NEW w, Comparing(c, <<>>, w)
  PROVE  IsPrefix(Message, w)
<1>0. PICK m \in Seq(Byte) : Message = m \o <<>> /\ w = m \o c
  BY DEF Comparing
<1>1. Message = m
  BY <1>0, ConcatEmptySeq
<1>2. Len(m \o c) = Len(m) + Len(c) /\ Len(m) \in Nat /\ Len(c) \in Nat
  BY ConcatProperties, LenProperties
<1>3. Len(m) <= Len(m \o c)
  BY <1>2
<1>4. SubSeq(m \o c, 1, Len(m)) = m /\ SubSeq(m, 1, Len(m)) = m
  BY SubSeqOfConcat1, SubSeqFull
<1> QED BY <1>0, <1>1, <1>3, <1>4 DEF IsPrefix

LEMMA ConReadFits ==
  ASSUME FrameworkTypeOK, con_read, Comparing(con, left["con"], written), "con" \in told,
         pattern["con"] = <<>>,
         ~FLAG_FAILURE'
  PROVE  ConFits'
<1> DEFINE n == IF Len(con) < Len(left["con"]) THEN Len(con) ELSE Len(left["con"])
           s == SubSeq(con, 1, n)
           c == SubSeq(con, n + 1, Len(con))
           l == SubSeq(left["con"], n + 1, Len(left["con"]))
<1>1. s = SubSeq(left["con"], 1, n) /\ con' = c /\ left' = [left EXCEPT !["con"] = l]
      /\ dpc' = [dpc EXCEPT !["con"] = IF l # <<>> THEN "poll" ELSE "get"]
      /\ UNCHANGED <<pattern, told, written>>
  BY DEF con_read, Finish, Goto, truth
<1>2. left["con"] \in Seq(Byte) /\ con \in Seq(Byte) /\ "con" \in Daemon
  BY DEF FrameworkTypeOK, Daemon
<1>3. Len(con) \in Nat /\ Len(left["con"]) \in Nat
  BY <1>2, LenProperties
<1>4. n \in 0 .. Len(con) /\ n \in 0 .. Len(left["con"])
  BY <1>3
<1> HIDE DEF n
<1>5. s \in Seq(Byte) /\ c \in Seq(Byte) /\ s \o c = con
  BY <1>2, <1>4, DropLemma, SplitLemma
<1>6. l \in Seq(Byte) /\ SubSeq(left["con"], 1, n) \o l = left["con"]
  BY <1>2, <1>4, DropLemma, SplitLemma
<1>7. s \o l = left["con"]
  BY <1>1, <1>6
<1> HIDE DEF s, c, l
<1>8. Comparing(c, l, written)
  <2>1. Comparing(s \o c, s \o l, written)
    BY <1>5, <1>7
  <2> QED BY <1>5, <1>6, <2>1, CompareRead
<1>9. left'["con"] = l /\ dpc'["con"] = IF l # <<>> THEN "poll" ELSE "get"
  BY <1>1, <1>2 DEF FrameworkTypeOK
<1> QED BY <1>1, <1>8, <1>9 DEF ConFits, Busy

\* The process is alive and its terminal connected, before and after a step.
LEMMA ContentsStep ==
  ASSUME FrameworkTypeOK, FrameworkFits, DaemonsFit, AnnouncedFits, TruthFits, ContentsFit, [Next]_vars
  PROVE  ContentsFit'
<1> USE UnitTestingAssumption
<1>0. "con" \in Daemon /\ "kbd" \in Daemon
  BY DEF Daemon
<1>1. ASSUME UNCHANGED <<told, con, written, dpc["con"], pattern["con"], left["con"]>>, ConFits PROVE ConFits'
  BY <1>1 DEF ConFits
<1>2. ASSUME UNCHANGED <<told, dpc["kbd"], pattern["kbd"], left["kbd"]>>, KbdFits PROVE KbdFits'
  BY <1>2 DEF KbdFits
<1>3. ASSUME UNCHANGED <<told, con, written, dpc, pattern, left, job>>, FLAG_FAILURE => FLAG_FAILURE',
             child' \in Alive => child \in Alive
      PROVE  ContentsFit'
  <2>1. Connected' => Connected
    BY <1>3, SameTerminal DEF Connected
  <2> QED BY <1>1, <1>2, <1>3, <2>1 DEF ContentsFit
<1>4. ASSUME child' \notin Alive PROVE ContentsFit'
  BY <1>4 DEF ContentsFit, Connected
<1>5. CASE skip \/ restore \/ execute \/ kill \/ waitpid \/ crash \/ exit
  <2>1. child' \notin Alive
    <3>1. (skip \/ restore \/ execute) => child' \notin Alive
      BY DEF execute, skip, restore, Alive, FrameworkFits
    <3>2. (waitpid \/ crash \/ kill \/ exit) => child' \notin Alive
      BY DEF waitpid, crash, exit, kill, Dies, Alive
    <3> QED BY <1>5, <3>1, <3>2
  <2> QED BY <1>4, <2>1
<1>6. CASE set_alarm \/ sigwait \/ cancel \/ expire
  BY <1>3, <1>6 DEF set_alarm, sigwait, cancel, expire, daemon, truth
<1>7. CASE Read \/ ASSERT \/ boot
  <2>1. UNCHANGED <<job, told, con, written, pattern, dpc, left>> /\ child = "boot"
    BY <1>7 DEF Read, ASSERT, boot, framework, truth, daemon
  <2>2. FLAG_FAILURE => FLAG_FAILURE'
    BY <1>7 DEF Read, ASSERT, boot
  <2> QED BY <1>3, <2>1, <2>2 DEF Alive
<1>8. ASSUME NEW d \in Daemon, term_proxy_daemon_close(d) \/ pthread_join(d) PROVE ContentsFit'
  <2>1. UNCHANGED <<job, told, con, written, pattern, dpc, left, FLAG_FAILURE>> /\ child \in Alive
    BY <1>8 DEF term_proxy_daemon_close, pthread_join, framework, truth, daemon, Alive
  <2> QED BY <1>3, <2>1
<1>9. CASE term_proxy_init
  <2>1. child' = "boot" /\ child = "init" /\ (Terminal' <=> Terminal) /\ UNCHANGED <<told, written>>
    BY <1>9, SameTerminal DEF term_proxy_init, framework, truth
  <2>2. CASE Terminal
    <3>1. /\ dpc' = [d \in Daemon |-> "get"] /\ con' = <<>> /\ told' = {} /\ written' = <<>>
      BY <1>9, <2>1, <2>2 DEF term_proxy_init, open_fifo, TruthFits
    <3> QED BY <1>0, <3>1 DEF ContentsFit, ConFits, KbdFits, Busy
  <2>3. CASE ~Terminal
    BY <2>1, <2>3 DEF ContentsFit, Connected
  <2> QED BY <2>2, <2>3
<1>10. ASSUME NEW d \in Daemon, term_proxy_daemon_add(d) PROVE ContentsFit'
  <2>1. /\ Connected /\ d \notin told /\ told' = told \cup {d}
        /\ UNCHANGED <<con, written, dpc, left, FLAG_FAILURE>>
        /\ \A e \in Daemon : pattern'[e] = IF e = d THEN Append(pattern[d], Message) ELSE pattern[e]
    BY <1>10 DEF term_proxy_daemon_add, Connected, Alive, FrameworkTypeOK
  <2>2. pattern[d] = <<>>
    BY <2>1 DEF AnnouncedFits, Announced
  <2>3. pattern'[d] # <<>>
    <3>1. pattern'[d] = <<Message>>
      BY <2>1, <2>2
    <3> QED BY <3>1
  <2>4. \A e \in Daemon \ {d} : pattern'[e] = pattern[e] /\ (e \in told' <=> e \in told)
    BY <2>1
  <2> QED BY <1>0, <2>1, <2>3, <2>4 DEF ContentsFit, ConFits, KbdFits
<1>11. CASE Write
  <2>1. PICK b \in Byte : con' = Append(con, b) /\ written' = Append(written, b)
    BY <1>11 DEF Write
  <2>2. Connected /\ UNCHANGED <<told, dpc, pattern, left, FLAG_FAILURE>>
    BY <1>11 DEF Write, Connected, Alive, daemon
  <2>3. SUFFICES ASSUME ~FLAG_FAILURE PROVE ConFits' /\ KbdFits'
    BY <2>2 DEF ContentsFit
  <2>4. ConFits /\ KbdFits
    BY <2>2, <2>3 DEF ContentsFit
  <2>5. CASE "con" \in told /\ pattern["con"] = <<>>
    <3>1. Comparing(con, left["con"], written) /\ con \in Seq(Byte)
      BY <2>4, <2>5 DEF ConFits, FrameworkTypeOK
    <3>2. Comparing(con', left["con"], written')
      BY <2>1, <3>1, CompareWrite
    <3> QED BY <1>2, <2>2, <2>4, <2>5, <3>2 DEF ConFits
  <2>6. CASE ~("con" \in told /\ pattern["con"] = <<>>)
    BY <1>2, <2>1, <2>2, <2>4, <2>6 DEF ConFits
  <2> QED BY <2>5, <2>6
<1>12. CASE term_proxy_daemon_get("con")
  <2>1. /\ Connected /\ UNCHANGED <<told, con, written, FLAG_FAILURE>> /\ dpc["con"] = "get"
        /\ Announced("con")
    BY <1>0, <1>12, DaemonConnected DEF term_proxy_daemon_get, truth, AnnouncedFits
  <2>2. UNCHANGED <<dpc["kbd"], pattern["kbd"], left["kbd"]>>
    BY <1>0, <1>12 DEF term_proxy_daemon_get, Goto, FrameworkTypeOK
  <2>3. SUFFICES ASSUME ~FLAG_FAILURE PROVE ConFits'
    BY <1>2, <2>1, <2>2 DEF ContentsFit
  <2>4. ConFits
    BY <2>1, <2>3 DEF ContentsFit
  <2>5. CASE pattern["con"] = <<>>
    <3>1. pattern' = pattern /\ left' = left /\ dpc'["con"] = "exited"
      BY <1>0, <1>12, <2>5 DEF term_proxy_daemon_get, Goto, FrameworkTypeOK
    <3> QED BY <2>1, <2>4, <3>1 DEF ConFits, Busy
  <2>6. CASE pattern["con"] # <<>>
    <3>1. pattern["con"] = <<Message>>
      BY <2>1, <2>6 DEF Announced
    <3>2. "con" \in told /\ left'["con"] = Message /\ pattern'["con"] = <<>> /\ dpc'["con"] = "poll"
      BY <1>0, <1>12, <2>1, <2>6, <3>1 DEF term_proxy_daemon_get, Goto, FrameworkTypeOK, Announced
    <3>3. written = con /\ con \in Seq(Byte)
      BY <2>1, <2>4, <2>6 DEF ConFits, Busy, FrameworkTypeOK
    <3>4. <<>> \in Seq(Byte) /\ <<>> \o Message = Message /\ <<>> \o con = con
      BY <3>3, EmptySeq, ConcatEmptySeq
    <3>5. Comparing(con, Message, written)
      BY <3>3, <3>4 DEF Comparing
    <3> QED BY <2>1, <3>2, <3>5 DEF ConFits, Busy
  <2> QED BY <2>5, <2>6
<1>13. CASE term_proxy_daemon_get("kbd")
  <2>1. /\ Connected /\ UNCHANGED <<told, con, written, FLAG_FAILURE>> /\ dpc["kbd"] = "get"
        /\ Announced("kbd")
    BY <1>0, <1>13, DaemonConnected DEF term_proxy_daemon_get, truth, AnnouncedFits
  <2>2. UNCHANGED <<dpc["con"], pattern["con"], left["con"]>>
    BY <1>0, <1>13 DEF term_proxy_daemon_get, Goto, FrameworkTypeOK
  <2>3. KbdFits => KbdFits'
    <3>1. CASE pattern["kbd"] = <<>>
      <4>1. pattern' = pattern /\ left' = left
        BY <1>13, <3>1 DEF term_proxy_daemon_get
      <4> QED BY <2>1, <4>1 DEF KbdFits, Busy
    <3>2. CASE pattern["kbd"] # <<>>
      <4>1. dpc'["kbd"] = "poll"
        BY <1>0, <1>13, <3>2 DEF term_proxy_daemon_get, Goto, FrameworkTypeOK
      <4> QED BY <4>1 DEF KbdFits, Busy
    <3> QED BY <3>1, <3>2
  <2> QED BY <1>1, <2>1, <2>2, <2>3 DEF ContentsFit
<1>14. CASE con_proc
  <2>1. dpc["con"] \in Busy("con") /\ UNCHANGED <<told, written, pattern>>
    BY <1>14 DEF con_proc, con_poll, con_complete, con_read, Busy, truth
  <2>2. Connected /\ "con" \in told /\ pattern["con"] = <<>>
    BY <1>0, <2>1, DaemonConnected DEF AnnouncedFits, Announced, Busy
  <2>3. UNCHANGED <<dpc["kbd"], pattern["kbd"], left["kbd"]>> /\ (FLAG_FAILURE => FLAG_FAILURE')
    BY <1>0, <1>14 DEF con_proc, con_poll, con_complete, con_read, Finish, Goto, FrameworkTypeOK
  <2>4. SUFFICES ASSUME ~FLAG_FAILURE, ~FLAG_FAILURE',
                        Comparing(con, left["con"], written)
                 PROVE  ConFits'
    BY <1>2, <2>1, <2>2, <2>3 DEF ContentsFit, ConFits
  <2>5. CASE con_poll
    <3>1. dpc'["con"] \in {"read", "test"} /\ UNCHANGED <<con, left>>
      BY <1>0, <2>5 DEF con_poll, Goto, FrameworkTypeOK
    <3> QED BY <2>1, <2>2, <2>4, <3>1 DEF ConFits, Busy
  <2>6. CASE con_complete
    <3>1. dpc'["con"] = "poll" /\ UNCHANGED <<con, left>>
      BY <1>0, <2>4, <2>6 DEF con_complete, Finish, Goto, FrameworkTypeOK
    <3> QED BY <2>1, <2>2, <2>4, <3>1 DEF ConFits, Busy
  <2>7. CASE con_read
    BY <2>2, <2>4, <2>7, ConReadFits
  <2> QED BY <1>14, <2>5, <2>6, <2>7 DEF con_proc
<1>15. CASE kbd_proc
  <2>1. /\ dpc["kbd"] \in Busy("kbd") /\ UNCHANGED <<told, con, written>>
        /\ UNCHANGED <<dpc["con"], pattern["con"], left["con"]>> /\ (FLAG_FAILURE => FLAG_FAILURE')
    BY <1>0, <1>15 DEF kbd_proc, kbd_poll, kbd_save, kbd_write, Finish, Goto, Busy, truth,
       FrameworkTypeOK
  <2>2. Connected
    BY <1>0, <2>1, DaemonConnected DEF Busy
  <2>3. ~FLAG_FAILURE' => KbdFits'
    <3>1. CASE kbd_poll \/ kbd_save
      <4>1. dpc'["kbd"] \in {"save", "write"}
        BY <1>0, <3>1 DEF kbd_poll, kbd_save, Goto, FrameworkTypeOK
      <4> QED BY <4>1 DEF KbdFits, Busy
    <3>2. CASE kbd_write
      <4>1. ~FLAG_FAILURE' => left'["kbd"] = <<>> \/ dpc'["kbd"] \in {"poll", "write"}
        BY <1>0, <3>2 DEF kbd_write, Finish, Goto, FrameworkTypeOK
      <4> QED BY <4>1 DEF KbdFits, Busy
    <3> QED BY <1>15, <3>1, <3>2 DEF kbd_proc
  <2> QED BY <1>1, <2>1, <2>2, <2>3 DEF ContentsFit
<1>16. CASE UNCHANGED vars
  BY <1>3, <1>16 DEF vars, framework, truth, daemon
<1>17. \A d \in Daemon : d = "con" \/ d = "kbd"
  BY DEF Daemon
<1> QED BY <1>5, <1>6, <1>7, <1>8, <1>9, <1>10, <1>11, <1>12, <1>13, <1>14, <1>15, <1>16, <1>17
        DEF Next, Framework, Program, Around

----------------------------------------------------------------------------
\* What "ok" says of a test.
Passed ==
  /\ asserted
  /\ "con" \in told => IsPrefix(Message, written)
  /\ "kbd" \in told => left["kbd"] = <<>> /\ pattern["kbd"] = <<>>

\* It is decided when the test ends.
StatusFits == status = "129" => Passed

LEMMA StatusInit == Init => StatusFits
BY DEF Init, StatusFits

LEMMA StatusStep ==
  ASSUME FrameworkTypeOK, FrameworkFits, DaemonsFit, AnnouncedFits, TruthFits, ContentsFit, StatusFits,
         [Next]_vars
  PROVE  StatusFits'
<1>1. ASSUME status' # "129" PROVE StatusFits'
  BY <1>1 DEF StatusFits
<1>2. ASSUME UNCHANGED <<status, truth, pattern["kbd"], left["kbd"]>> PROVE StatusFits'
  BY <1>2 DEF StatusFits, Passed, truth
<1>3. CASE skip \/ set_alarm \/ sigwait \/ cancel \/ expire \/ waitpid \/ restore
  BY <1>2, <1>3 DEF skip, set_alarm, sigwait, cancel, expire, waitpid, restore, daemon
<1>4. CASE execute \/ crash
  BY <1>1, <1>4 DEF execute, crash, Dies
<1>5. CASE kill
  <2>1. CASE child = "zombie"
    BY <1>2, <1>5, <2>1 DEF kill
  <2>2. CASE child # "zombie"
    BY <1>1, <1>5, <2>2 DEF kill, Dies
  <2> QED BY <2>1, <2>2
<1>6. ASSUME child \in Alive \cup {"init"}, status' = status PROVE StatusFits'
  BY <1>1, <1>6 DEF FrameworkFits, Alive
<1>7. CASE Program /\ ~crash
  BY <1>6, <1>7 DEF Program, term_proxy_daemon_add, Write, Read, ASSERT, boot, Alive
<1>8. ASSUME NEW d \in Daemon, term_proxy_daemon_close(d) \/ pthread_join(d) PROVE StatusFits'
  <2>1. child \in Alive /\ status' = status
    BY <1>8 DEF term_proxy_daemon_close, pthread_join, Alive
  <2> QED BY <1>6, <2>1
<1>9. CASE term_proxy_init
  BY <1>6, <1>9 DEF term_proxy_init
<1>10. CASE exit
  <2>1. child = "exit" /\ UNCHANGED <<truth, pattern, left>> /\ (status' = "129" => ~FLAG_FAILURE)
    BY <1>10 DEF exit, Dies
  <2>2. SUFFICES ASSUME ~FLAG_FAILURE PROVE Passed
    BY <2>1 DEF StatusFits, Passed, truth
  <2>3. asserted
    BY <2>2 DEF TruthFits
  <2>4. CASE ~Terminal
    BY <2>1, <2>3, <2>4 DEF TruthFits, Alive, Passed
  <2>5. CASE Terminal
    <3>1. Connected /\ dpc["con"] = "exited" /\ dpc["kbd"] = "exited" /\ ConFits /\ KbdFits
      BY <2>1, <2>2, <2>5 DEF Connected, Alive, DaemonsFit, ContentsFit
    <3>2. Announced("con") /\ Announced("kbd")
      BY <3>1 DEF AnnouncedFits, Daemon
    <3>3. /\ "con" \in told => pattern["con"] = <<>>
          /\ "kbd" \in told => pattern["kbd"] = <<>>
      BY <3>1, <3>2 DEF Announced
    <3>4. /\ "con" \in told => Comparing(con, <<>>, written)
          /\ "kbd" \in told => left["kbd"] = <<>>
      BY <3>1, <3>3 DEF ConFits, KbdFits, Busy
    <3>5. "con" \in told => IsPrefix(Message, written)
      BY <3>4, CompareEnd DEF FrameworkTypeOK
    <3> QED BY <2>3, <3>3, <3>4, <3>5 DEF Passed
  <2> QED BY <2>4, <2>5
<1>11. ASSUME NEW d \in Daemon, dpc[d] \notin {"off", "exited"}, status' = status PROVE StatusFits'
  <2>1. child \in Alive
    BY <1>11, DaemonConnected DEF Connected
  <2> QED BY <1>6, <1>11, <2>1
<1>12. CASE con_proc \/ kbd_proc
  <2>1. /\ status' = status
        /\ dpc["con"] \in {"poll", "test", "read"} \/ dpc["kbd"] \in {"poll", "save", "write"}
    BY <1>12 DEF con_proc, kbd_proc, con_poll, con_complete, con_read, kbd_poll, kbd_save, kbd_write
  <2> QED BY <1>11, <2>1 DEF Daemon
<1>13. ASSUME NEW d \in Daemon, term_proxy_daemon_get(d) PROVE StatusFits'
  BY <1>11, <1>13 DEF term_proxy_daemon_get
<1>14. CASE UNCHANGED vars
  BY <1>2, <1>14 DEF vars, daemon
<1> QED BY <1>3, <1>4, <1>5, <1>7, <1>8, <1>9, <1>10, <1>12, <1>13, <1>14
        DEF Next, Framework, Program, Around

----------------------------------------------------------------------------
\* The inductive invariant of the framework.
UnitTestingInv ==
  /\ FrameworkTypeOK /\ FrameworkFits /\ DaemonsFit
  /\ TruthFits /\ AnnouncedFits /\ ContentsFit /\ StatusFits

LEMMA UnitTestingInit == Init => UnitTestingInv
BY FrameworkTypeInit, FrameworkInit, DaemonsInit, TruthInit, AnnouncedInit, ContentsInit, StatusInit
   DEF UnitTestingInv

LEMMA UnitTestingStep == UnitTestingInv /\ [Next]_vars => UnitTestingInv'
BY FrameworkTypeStep, FrameworkStep, DaemonsStep, TruthStep, AnnouncedStep, ContentsStep, StatusStep
   DEF UnitTestingInv

\* The steps of the tests of test_util.c do not touch the framework.
LEMMA TestUtilStep == [TestUtilNext]_tvars => [Next]_vars
BY DEF TestUtilNext, tvars, rlist_tests, exception_tests

LEMMA UnitTestingInvariant == TestUtilSpec => []UnitTestingInv
<1>1. TestUtilInit => UnitTestingInv
  BY UnitTestingInit DEF TestUtilInit
<1>2. UnitTestingInv /\ [TestUtilNext]_tvars => UnitTestingInv'
  BY UnitTestingStep, TestUtilStep
<1> QED BY <1>1, <1>2, PTL DEF TestUtilSpec

\* The verdicts of the framework can be relied on (run_boot_test(), execute(),
\* term_proxy_close()), whatever the tests are, announce and write, and however
\* the daemons, signals and the alarm interleave with them.
THEOREM VerdictsReliable == TestUtilSpec => []OkMeansPassed
<1>1. UnitTestingInv => OkMeansPassed
  BY DEF UnitTestingInv, FrameworkFits, StatusFits, Passed, OkMeansPassed
<1> QED BY <1>1, UnitTestingInvariant, PTL

\* No test finds the alarm, a signal, the process or a daemon of another one
\* (execute(), term_proxy_close()).
THEOREM NothingLeft == TestUtilSpec => []CleanBetween
<1>1. UnitTestingInv => CleanBetween
  BY DEF UnitTestingInv, FrameworkFits, DaemonsFit, Connected, Alive, CleanBetween
<1> QED BY <1>1, UnitTestingInvariant, PTL

----------------------------------------------------------------------------
(***************************************************************************)
(* The exceptions, for any nesting of blocks and exceptions.               *)
(***************************************************************************)
Activation ==
  [kind : {"main", "body", "handler"}, frame : Nat]
  \cup [kind : {"unwind"}, frame : Nat, errcode : Nat, captured : BOOLEAN]

Frame == [catchers : Int, finalizers : Int, reached : Int, ran : Int, jbuf : Nat]

\* Where TRY blocks are executed or left.
Blocks(st) == {i \in DOMAIN st : st[i].kind \in {"body", "unwind"}}

Accounted(frame) == frame.finalizers + frame.ran = frame.reached

\* UnwindSound of the stack st and the frames ctx, and their types.
Sound(st, ctx) ==
  /\ st \in Seq(Activation) /\ ctx \in Seq(Frame)
  /\ st # <<>> /\ st[1].kind = "main"
  /\ {ctx[f].jbuf : f \in DOMAIN ctx} = Blocks(st)
  /\ \A f, g \in DOMAIN ctx : f < g => ctx[f].jbuf < ctx[g].jbuf
  /\ \A f \in DOMAIN ctx : st[ctx[f].jbuf].frame = f /\ Accounted(ctx[f])

LEMMA SoundMeans == Sound(cstack, context) => UnwindSound
BY DEF Sound, Blocks, Accounted, UnwindSound

LEMMA SoundInit == ExceptionsInit => Sound(cstack, context)
<1> SUFFICES ASSUME ExceptionsInit PROVE Sound(cstack, context)
  OBVIOUS
<1>1. cstack = <<[kind |-> "main", frame |-> 0]>> /\ context = <<>>
  BY DEF ExceptionsInit, Code
<1>2. cstack \in Seq(Activation) /\ cstack # <<>> /\ cstack[1].kind = "main" /\ DOMAIN cstack = {1}
  BY <1>1 DEF Activation
<1>3. context \in Seq(Frame) /\ DOMAIN context = {}
  BY <1>1
<1>4. Blocks(cstack) = {}
  BY <1>2 DEF Blocks
<1> QED BY <1>2, <1>3, <1>4 DEF Sound

LEMMA SoundTypes ==
  ASSUME NEW st, NEW ctx, Sound(st, ctx)
  PROVE  /\ Len(st) \in Nat \ {0} /\ DOMAIN st = 1 .. Len(st)
         /\ Len(ctx) \in Nat /\ DOMAIN ctx = 1 .. Len(ctx)
         /\ \A i \in 1 .. Len(st) : st[i] \in Activation
         /\ \A f \in 1 .. Len(ctx) : ctx[f] \in Frame
BY EmptySeq, LenProperties DEF Sound

\* The innermost frame is the one of the innermost block.
LEMMA SoundTop ==
  ASSUME NEW st, NEW ctx, Sound(st, ctx), Len(st) \in Blocks(st)
  PROVE  /\ ctx # <<>> /\ Len(ctx) \in Nat \ {0} /\ Len(ctx) \in DOMAIN ctx
         /\ st[Len(st)].frame = Len(ctx) /\ ctx[Len(ctx)].jbuf = Len(st)
<1>1. PICK f \in DOMAIN ctx : ctx[f].jbuf = Len(st)
  BY DEF Sound
<1>2. f \in 1 .. Len(ctx) /\ Len(ctx) \in Nat /\ Len(st) \in Nat
  BY SoundTypes
<1>3. Len(ctx) \in DOMAIN ctx
  BY <1>2, SoundTypes
<1>4. ctx[Len(ctx)].jbuf \in 1 .. Len(st)
  BY <1>3, SoundTypes DEF Sound, Blocks
<1>5. f = Len(ctx)
  BY <1>1, <1>2, <1>3, <1>4 DEF Sound
<1> QED BY <1>1, <1>2, <1>3, <1>5 DEF Sound

\* A step that keeps the blocks and their frames.
LEMMA SoundSame ==
  ASSUME NEW st, NEW ctx, Sound(st, ctx), NEW st2 \in Seq(Activation), NEW ctx2 \in Seq(Frame),
         st2 # <<>>, st2[1].kind = "main",
         Blocks(st2) = Blocks(st), \A i \in Blocks(st) : st2[i].frame = st[i].frame,
         DOMAIN ctx2 = DOMAIN ctx, \A f \in DOMAIN ctx : ctx2[f].jbuf = ctx[f].jbuf /\ Accounted(ctx2[f])
  PROVE  Sound(st2, ctx2)
<1>1. {ctx2[f].jbuf : f \in DOMAIN ctx2} = {ctx[f].jbuf : f \in DOMAIN ctx}
  OBVIOUS
<1>2. \A f \in DOMAIN ctx : ctx[f].jbuf \in Blocks(st)
  BY DEF Sound
<1>3. \A f \in DOMAIN ctx2 : st2[ctx2[f].jbuf].frame = f
  BY <1>2 DEF Sound
<1>4. \A f, g \in DOMAIN ctx2 : f < g => ctx2[f].jbuf < ctx2[g].jbuf
  BY DEF Sound
<1> QED BY <1>1, <1>3, <1>4 DEF Sound

\* A longjmp() to the innermost frame finds its function there.  The stack may
\* still have something above st.
LEMMA SoundJump ==
  ASSUME NEW st, NEW ctx, Sound(st, ctx), ctx # <<>>,
         NEW st0 \in Seq(Activation), Len(st) <= Len(st0), \A i \in 1 .. Len(st) : st0[i] = st[i]
  PROVE  Sound(Append(SubSeq(st0, 1, Last(ctx).jbuf - 1), Unwind(Len(ctx), 1)), ctx)
<1> DEFINE n == ctx[Len(ctx)].jbuf
           u == Unwind(Len(ctx), 1)
           s == SubSeq(st0, 1, n - 1)
           st2 == Append(s, u)
<1>0. st \in Seq(Activation) /\ ctx \in Seq(Frame)
  BY DEF Sound
<1>1. Len(ctx) \in Nat \ {0} /\ Len(ctx) \in DOMAIN ctx /\ DOMAIN ctx = 1 .. Len(ctx)
  BY <1>0, EmptySeq, SoundTypes
<1>2. n \in Blocks(st) /\ n \in Nat
  BY <1>1, SoundTypes DEF Sound, Frame
<1>3. n \in 2 .. Len(st) /\ Len(st) \in Nat
  BY <1>2, SoundTypes DEF Blocks, Sound
<1>4. u \in Activation /\ u.kind = "unwind" /\ u.frame = Len(ctx)
  BY <1>1 DEF Activation, Unwind
<1>5. \A i \in Blocks(st) : i <= n
  <2> SUFFICES ASSUME NEW i \in Blocks(st) PROVE i <= n
    OBVIOUS
  <2>1. PICK f \in DOMAIN ctx : ctx[f].jbuf = i
    BY DEF Sound
  <2>2. i \in Nat /\ f \in 1 .. Len(ctx)
    BY <1>1, <2>1, SoundTypes DEF Frame
  <2>3. f < Len(ctx) \/ f = Len(ctx)
    BY <1>1, <2>2
  <2> QED BY <1>1, <1>2, <2>1, <2>2, <2>3 DEF Sound
<1> HIDE DEF n, u
<1>6. s \in Seq(Activation) /\ Len(s) = n - 1 /\ \A i \in 1 .. (n - 1) : s[i] = st[i]
  BY <1>0, <1>3, LenProperties, SoundTypes, SubSeqProperties
<1> HIDE DEF s
<1>7. /\ st2 \in Seq(Activation) /\ st2 # <<>> /\ Len(st2) = n
      /\ \A i \in 1 .. (n - 1) : st2[i] = st[i]
      /\ st2[n] = u
  <2>1. /\ st2 \in Seq(Activation) /\ st2 # <<>> /\ Len(st2) = Len(s) + 1
        /\ \A i \in 1 .. Len(s) : st2[i] = s[i]
        /\ st2[Len(s) + 1] = u
    BY <1>4, <1>6, AppendProperties
  <2>2. Len(s) + 1 = n
    BY <1>3, <1>6
  <2> QED BY <1>6, <2>1, <2>2
<1>8. DOMAIN st2 = 1 .. n
  BY <1>7, LenProperties
<1> HIDE DEF st2
<1>9. Blocks(st2) = Blocks(st)
  <2>1. \A i \in 1 .. (n - 1) : i \in Blocks(st2) <=> i \in Blocks(st)
    BY <1>3, <1>7, <1>8, SoundTypes DEF Blocks
  <2>2. n \in Blocks(st2)
    BY <1>3, <1>4, <1>7, <1>8 DEF Blocks
  <2>3. \A i : i \in Blocks(st) \/ i \in Blocks(st2) => i \in 1 .. n
    BY <1>2, <1>3, <1>5, <1>8, SoundTypes DEF Blocks
  <2>4. \A i \in 1 .. n : i = n \/ i \in 1 .. (n - 1)
    BY <1>3
  <2> QED BY <1>2, <2>1, <2>2, <2>3, <2>4
<1>10. \A i \in Blocks(st) : st2[i].frame = st[i].frame
  <2>1. st[n].frame = Len(ctx)
    BY <1>1 DEF Sound, n
  <2>2. \A i \in Blocks(st) : i = n \/ i \in 1 .. (n - 1)
    BY <1>3, <1>5, SoundTypes DEF Blocks
  <2> QED BY <1>4, <1>7, <2>1, <2>2
<1>11. st2[1].kind = "main"
  BY <1>3, <1>7 DEF Sound
<1>12. \A f \in DOMAIN ctx : Accounted(ctx[f])
  BY DEF Sound
<1>13. Sound(st2, ctx)
  BY <1>0, <1>7, <1>9, <1>10, <1>11, <1>12, SoundSame
<1> QED BY <1>13 DEF st2, s, n, u, Last

\* A TRY block that has been left.
LEMMA SoundPop ==
  ASSUME NEW st, NEW ctx, Sound(st, ctx), Len(st) \in Blocks(st)
  PROVE  Sound(Front(st), SubSeq(ctx, 1, Len(ctx) - 1))
<1> DEFINE s == SubSeq(st, 1, Len(st) - 1)
           c == SubSeq(ctx, 1, Len(ctx) - 1)
           n == Len(st)
           k == Len(ctx)
<1>0. st \in Seq(Activation) /\ ctx \in Seq(Frame)
  BY DEF Sound
<1>1. k \in Nat \ {0} /\ n \in Nat \ {0} /\ ctx[k].jbuf = n /\ DOMAIN ctx = 1 .. k /\ DOMAIN st = 1 .. n
  BY SoundTop, SoundTypes
<1>2. n # 1
  BY DEF Sound, Blocks
<1>3. s \in Seq(Activation) /\ Len(s) = n - 1 /\ \A i \in 1 .. (n - 1) : s[i] = st[i]
  BY <1>0, <1>1, SoundTypes, SubSeqProperties
<1>4. c \in Seq(Frame) /\ Len(c) = k - 1 /\ \A f \in 1 .. (k - 1) : c[f] = ctx[f]
  BY <1>0, <1>1, SoundTypes, SubSeqProperties
<1> HIDE DEF s, c
<1>5. DOMAIN s = 1 .. (n - 1) /\ DOMAIN c = 1 .. (k - 1)
  BY <1>3, <1>4, LenProperties
<1> HIDE DEF n, k
<1>6. s # <<>> /\ s[1].kind = "main"
  BY <1>1, <1>2, <1>3, <1>5 DEF Sound
<1>7. Blocks(s) = Blocks(st) \ {n}
  BY <1>1, <1>3, <1>5 DEF Blocks
<1>8. \A f \in 1 .. (k - 1) : c[f].jbuf \in Blocks(s) /\ s[c[f].jbuf].frame = f /\ Accounted(c[f])
  <2> SUFFICES ASSUME NEW f \in 1 .. (k - 1)
               PROVE  c[f].jbuf \in Blocks(s) /\ s[c[f].jbuf].frame = f /\ Accounted(c[f])
    OBVIOUS
  <2>1. f \in DOMAIN ctx /\ k \in DOMAIN ctx /\ f < k /\ c[f] = ctx[f]
    BY <1>1, <1>4
  <2>2. ctx[f].jbuf \in Blocks(st) /\ ctx[f].jbuf < n /\ st[ctx[f].jbuf].frame = f /\ Accounted(ctx[f])
    BY <1>1, <2>1 DEF Sound
  <2>3. ctx[f].jbuf \in Blocks(s) /\ ctx[f].jbuf \in 1 .. (n - 1)
    BY <1>1, <1>7, <2>2 DEF Blocks
  <2> QED BY <1>3, <2>1, <2>2, <2>3
<1>9. \A i \in Blocks(s) : \E f \in 1 .. (k - 1) : c[f].jbuf = i
  <2> SUFFICES ASSUME NEW i \in Blocks(s) PROVE \E f \in 1 .. (k - 1) : c[f].jbuf = i
    OBVIOUS
  <2>1. PICK f \in DOMAIN ctx : ctx[f].jbuf = i
    BY <1>7 DEF Sound
  <2>2. f # k
    BY <1>1, <1>7, <2>1
  <2>3. f \in 1 .. (k - 1)
    BY <1>1, <2>1, <2>2
  <2> QED BY <1>4, <2>1, <2>3
<1>10. {c[f].jbuf : f \in DOMAIN c} = Blocks(s)
  BY <1>5, <1>8, <1>9
<1>11. \A f, g \in DOMAIN c : f < g => c[f].jbuf < c[g].jbuf
  BY <1>1, <1>4, <1>5 DEF Sound
<1>12. Sound(s, c)
  BY <1>3, <1>4, <1>5, <1>6, <1>8, <1>10, <1>11 DEF Sound
<1> QED BY <1>12 DEF s, c, n, k, Front

\* A step that replaces the top of the stack by code for the same frame, and
\* may call a block from there.
LEMMA SoundReplace ==
  ASSUME NEW st, NEW ctx, Sound(st, ctx), NEW a \in Activation, Len(st) \in Blocks(st),
         a.kind \in {"body", "unwind"}, a.frame = st[Len(st)].frame
  PROVE  Sound(Append(Front(st), a), ctx)
<1> DEFINE s == SubSeq(st, 1, Len(st) - 1)
           n == Len(st)
           st2 == Append(s, a)
<1>0. st \in Seq(Activation) /\ ctx \in Seq(Frame) /\ DOMAIN st = 1 .. n /\ n \in Nat \ {0}
  BY SoundTypes DEF Sound
<1>1. s \in Seq(Activation) /\ Len(s) = n - 1 /\ \A i \in 1 .. (n - 1) : s[i] = st[i]
  BY <1>0, SoundTypes, SubSeqProperties
<1>4. n \in Blocks(st) /\ a.frame = st[n].frame
  OBVIOUS
<1> HIDE DEF s, n
<1>2. /\ st2 \in Seq(Activation) /\ st2 # <<>> /\ Len(st2) = n
      /\ \A i \in 1 .. (n - 1) : st2[i] = st[i]
      /\ st2[n] = a
  <2>1. /\ st2 \in Seq(Activation) /\ st2 # <<>> /\ Len(st2) = Len(s) + 1
        /\ \A i \in 1 .. Len(s) : st2[i] = s[i]
        /\ st2[Len(s) + 1] = a
    BY <1>1, AppendProperties
  <2>2. Len(s) + 1 = n
    BY <1>0, <1>1
  <2> QED BY <1>1, <2>1, <2>2
<1>3. DOMAIN st2 = 1 .. n /\ n # 1
  BY <1>2, <1>4, LenProperties DEF Sound, Blocks
<1> HIDE DEF st2
<1>5. \A i \in 1 .. n : i = n \/ i \in 1 .. (n - 1)
  BY <1>0
<1>6. Blocks(st2) = Blocks(st) /\ \A i \in Blocks(st) : st2[i].frame = st[i].frame
  BY <1>0, <1>2, <1>3, <1>4, <1>5 DEF Blocks
<1>7. st2[1].kind = "main"
  BY <1>0, <1>2, <1>3 DEF Sound
<1>8. \A f \in DOMAIN ctx : Accounted(ctx[f])
  BY DEF Sound
<1>9. Sound(st2, ctx)
  BY <1>0, <1>2, <1>6, <1>7, <1>8, SoundSame
<1> QED BY <1>9 DEF st2, s, Front

LEMMA SoundCall ==
  ASSUME NEW st, NEW ctx, Sound(st, ctx), NEW a \in Activation, a.kind = "handler"
  PROVE  Sound(Append(st, a), ctx)
<1> DEFINE n == Len(st)
           st2 == Append(st, a)
<1>0. st \in Seq(Activation) /\ ctx \in Seq(Frame) /\ DOMAIN st = 1 .. n /\ n \in Nat \ {0}
  BY SoundTypes DEF Sound
<1>1. /\ st2 \in Seq(Activation) /\ st2 # <<>> /\ Len(st2) = n + 1
      /\ \A i \in 1 .. n : st2[i] = st[i]
      /\ st2[n + 1] = a
  BY <1>0, AppendProperties
<1>2. DOMAIN st2 = 1 .. (n + 1)
  BY <1>1, LenProperties
<1> HIDE DEF st2, n
<1>3. \A i \in 1 .. (n + 1) : i = n + 1 \/ i \in 1 .. n
  BY <1>0
<1>4. Blocks(st2) = Blocks(st) /\ \A i \in Blocks(st) : st2[i].frame = st[i].frame
  BY <1>0, <1>1, <1>2, <1>3 DEF Blocks
<1>5. st2[1].kind = "main"
  BY <1>0, <1>1 DEF Sound
<1>6. \A f \in DOMAIN ctx : Accounted(ctx[f])
  BY DEF Sound
<1>7. Sound(st2, ctx)
  BY <1>0, <1>1, <1>4, <1>5, <1>6, SoundSame
<1> QED BY <1>7 DEF st2

LEMMA SoundReturn ==
  ASSUME NEW st, NEW ctx, Sound(st, ctx), st[Len(st)].kind = "handler"
  PROVE  Sound(Front(st), ctx)
<1> DEFINE n == Len(st)
           s == SubSeq(st, 1, n - 1)
<1>0. st \in Seq(Activation) /\ ctx \in Seq(Frame) /\ DOMAIN st = 1 .. n /\ n \in Nat \ {0}
  BY SoundTypes DEF Sound
<1>1. s \in Seq(Activation) /\ Len(s) = n - 1 /\ \A i \in 1 .. (n - 1) : s[i] = st[i]
  BY <1>0, SoundTypes, SubSeqProperties
<1> HIDE DEF s
<1>2. DOMAIN s = 1 .. (n - 1) /\ n # 1 /\ st[n].kind = "handler"
  BY <1>1, LenProperties DEF Sound
<1> HIDE DEF n
<1>3. \A i \in 1 .. n : i = n \/ i \in 1 .. (n - 1)
  BY <1>0
<1>4. Blocks(s) = Blocks(st) /\ \A i \in Blocks(st) : s[i].frame = st[i].frame
  BY <1>0, <1>1, <1>2, <1>3 DEF Blocks
<1>5. s # <<>> /\ s[1].kind = "main"
  BY <1>0, <1>1, <1>2 DEF Sound
<1>6. \A f \in DOMAIN ctx : Accounted(ctx[f])
  BY DEF Sound
<1>7. Sound(s, ctx)
  BY <1>0, <1>1, <1>4, <1>5, <1>6, SoundSame
<1> QED BY <1>7 DEF s, n, Front

\* A frame is replaced by one that accounts for its blocks, too.
LEMMA SoundFrame ==
  ASSUME NEW st, NEW ctx, Sound(st, ctx), NEW k \in DOMAIN ctx, NEW e \in Frame,
         e.jbuf = ctx[k].jbuf, Accounted(e)
  PROVE  Sound(st, [ctx EXCEPT ![k] = e])
<1>1. ctx \in Seq(Frame) /\ st \in Seq(Activation) /\ st # <<>> /\ st[1].kind = "main"
  BY DEF Sound
<1>2. [ctx EXCEPT ![k] = e] \in Seq(Frame)
  BY <1>1, ExceptSeq
<1>3. \A f \in DOMAIN ctx : [ctx EXCEPT ![k] = e][f] = IF f = k THEN e ELSE ctx[f]
  OBVIOUS
<1>4. \A f \in DOMAIN ctx : [ctx EXCEPT ![k] = e][f].jbuf = ctx[f].jbuf /\ Accounted([ctx EXCEPT ![k] = e][f])
  BY <1>3 DEF Sound
<1>5. DOMAIN [ctx EXCEPT ![k] = e] = DOMAIN ctx
  OBVIOUS
<1> QED BY <1>1, <1>2, <1>4, <1>5, SoundSame

\* A new TRY block.
LEMMA SoundTry ==
  ASSUME NEW st, NEW ctx, Sound(st, ctx), NEW a \in Activation, NEW e \in Frame,
         a.kind = "body", a.frame = Len(ctx) + 1, e.jbuf = Len(st) + 1, Accounted(e)
  PROVE  Sound(Append(st, a), Append(ctx, e))
<1> DEFINE n == Len(st)
           k == Len(ctx)
           st2 == Append(st, a)
           ctx2 == Append(ctx, e)
<1>0. /\ st \in Seq(Activation) /\ ctx \in Seq(Frame) /\ DOMAIN st = 1 .. n /\ n \in Nat \ {0}
      /\ DOMAIN ctx = 1 .. k /\ k \in Nat
  BY SoundTypes DEF Sound
<1>1. /\ st2 \in Seq(Activation) /\ st2 # <<>> /\ Len(st2) = n + 1
      /\ \A i \in 1 .. n : st2[i] = st[i]
      /\ st2[n + 1] = a
  BY <1>0, AppendProperties
<1>2. /\ ctx2 \in Seq(Frame) /\ Len(ctx2) = k + 1
      /\ \A i \in 1 .. k : ctx2[i] = ctx[i]
      /\ ctx2[k + 1] = e
  BY <1>0, AppendProperties
<1>3. DOMAIN st2 = 1 .. (n + 1) /\ DOMAIN ctx2 = 1 .. (k + 1)
  BY <1>1, <1>2, LenProperties
<1>4. a.frame = k + 1 /\ e.jbuf = n + 1
  OBVIOUS
<1> HIDE DEF st2, n, k, ctx2
<1>5. \A i \in 1 .. (n + 1) : i = n + 1 \/ i \in 1 .. n
  BY <1>0
<1>6. \A i \in 1 .. (k + 1) : i = k + 1 \/ i \in 1 .. k
  BY <1>0
<1>7. Blocks(st2) = Blocks(st) \cup {n + 1}
  BY <1>0, <1>1, <1>3, <1>5 DEF Blocks
<1>8. \A f \in 1 .. k : ctx[f].jbuf \in Blocks(st) /\ ctx[f].jbuf \in 1 .. n
  BY <1>0 DEF Sound, Blocks
<1>9. \A i \in Blocks(st) : \E f \in 1 .. k : ctx[f].jbuf = i
  BY <1>0 DEF Sound
<1>10. k + 1 \in 1 .. (k + 1) /\ \A f \in 1 .. k : f \in 1 .. (k + 1)
  BY <1>0
<1>11. {ctx2[f].jbuf : f \in DOMAIN ctx2} = Blocks(st2)
  <2>1. \A f \in 1 .. (k + 1) : ctx2[f].jbuf \in Blocks(st2)
    BY <1>2, <1>4, <1>6, <1>7, <1>8
  <2>2. \A i \in Blocks(st2) : \E f \in 1 .. (k + 1) : ctx2[f].jbuf = i
    BY <1>2, <1>4, <1>7, <1>9, <1>10
  <2> QED BY <1>3, <2>1, <2>2
<1>12. \A f, g \in DOMAIN ctx2 : f < g => ctx2[f].jbuf < ctx2[g].jbuf
  <2> SUFFICES ASSUME NEW f \in 1 .. (k + 1), NEW g \in 1 .. (k + 1), f < g
               PROVE  ctx2[f].jbuf < ctx2[g].jbuf
    BY <1>3
  <2>1. f \in 1 .. k
    BY <1>0
  <2>2. CASE g = k + 1
    BY <1>0, <1>2, <1>4, <1>8, <2>1, <2>2
  <2>3. CASE g \in 1 .. k
    BY <1>0, <1>2, <2>1, <2>3 DEF Sound
  <2> QED BY <1>6, <2>2, <2>3
<1>13. \A f \in DOMAIN ctx2 : st2[ctx2[f].jbuf].frame = f /\ Accounted(ctx2[f])
  <2> SUFFICES ASSUME NEW f \in 1 .. (k + 1)
               PROVE  st2[ctx2[f].jbuf].frame = f /\ Accounted(ctx2[f])
    BY <1>3
  <2>1. CASE f = k + 1
    BY <1>1, <1>2, <1>4, <2>1
  <2>2. CASE f \in 1 .. k
    BY <1>0, <1>1, <1>2, <1>8, <2>2 DEF Sound
  <2> QED BY <1>6, <2>1, <2>2
<1>14. st2[1].kind = "main"
  BY <1>0, <1>1 DEF Sound
<1>15. Sound(st2, ctx2)
  BY <1>1, <1>2, <1>11, <1>12, <1>13, <1>14 DEF Sound
<1> QED BY <1>15 DEF st2, ctx2

\* Frames whose blocks are reached, dropped or executed.
LEMMA FrameReached ==
  ASSUME NEW r \in Frame, Accounted(r), NEW e, e = [r EXCEPT !.finalizers = @ + 1, !.reached = @ + 1]
  PROVE  e \in Frame /\ e.jbuf = r.jbuf /\ Accounted(e)
<1>1. /\ r.finalizers \in Int /\ r.ran \in Int /\ r.reached \in Int
      /\ r.finalizers + r.ran = r.reached
  BY DEF Frame, Accounted
<1>2. r.finalizers + 1 \in Int /\ r.reached + 1 \in Int
  BY <1>1
<1>3. e \in Frame
  BY <1>2 DEF Frame
<1>4. /\ e.finalizers = r.finalizers + 1 /\ e.reached = r.reached + 1 /\ e.ran = r.ran
      /\ e.jbuf = r.jbuf
  BY DEF Frame
<1>5. e.finalizers + e.ran = e.reached
  BY <1>1, <1>4
<1> QED BY <1>3, <1>4, <1>5 DEF Accounted

LEMMA FrameRan ==
  ASSUME NEW r \in Frame, Accounted(r), NEW e, e = [popped(r) EXCEPT !.ran = @ + 1]
  PROVE  e \in Frame /\ e.jbuf = r.jbuf /\ Accounted(e)
<1>1. /\ r.finalizers \in Int /\ r.ran \in Int /\ r.reached \in Int
      /\ r.finalizers + r.ran = r.reached
  BY DEF Frame, Accounted
<1>2. r.finalizers - 1 \in Int /\ r.ran + 1 \in Int
  BY <1>1
<1>3. popped(r) \in Frame /\ popped(r).ran = r.ran /\ popped(r).finalizers = r.finalizers - 1
      /\ popped(r).reached = r.reached /\ popped(r).jbuf = r.jbuf
  BY <1>2 DEF Frame, popped
<1>4. e \in Frame
  BY <1>2, <1>3 DEF Frame
<1>5. /\ e.finalizers = r.finalizers - 1 /\ e.reached = r.reached /\ e.ran = r.ran + 1
      /\ e.jbuf = r.jbuf
  BY <1>3 DEF Frame
<1>6. e.finalizers + e.ran = e.reached
  BY <1>1, <1>5
<1> QED BY <1>4, <1>5, <1>6 DEF Accounted

LEMMA SoundStep ==
  ASSUME Sound(cstack, context), ExceptionsNext
  PROVE  Sound(cstack', context')
<1>1. /\ Len(cstack) \in Nat \ {0} /\ DOMAIN cstack = 1 .. Len(cstack) /\ Top \in Activation
      /\ Top = cstack[Len(cstack)] /\ Len(context) \in Nat /\ DOMAIN context = 1 .. Len(context)
      /\ \A f \in DOMAIN context : context[f] \in Frame /\ Accounted(context[f])
  BY SoundTypes DEF Top, Last, Sound
<1>2. ASSUME Top.kind \in {"body", "unwind"}
      PROVE  /\ Len(cstack) \in Blocks(cstack) /\ Len(context) \in DOMAIN context
             /\ Top.frame = Len(context)
  BY <1>1, <1>2, SoundTop DEF Blocks
<1>3. CASE TRY_WITH
  <2>1. NewFrame \in Frame /\ NewFrame.jbuf = Len(cstack) + 1 /\ Accounted(NewFrame)
    BY <1>1 DEF NewFrame, Frame, Accounted
  <2>2. Code("body", Len(context) + 1) \in Activation
    BY <1>1 DEF Code, Activation
  <2>3. Code("body", Len(context) + 1).kind = "body" /\ Code("body", Len(context) + 1).frame = Len(context) + 1
    BY DEF Code
  <2> QED BY <1>3, <2>1, <2>2, <2>3, SoundTry DEF TRY_WITH
<1>4. CASE ON_ERROR
  <2> DEFINE k == Top.frame
             e == [context[k] EXCEPT !.catchers = @ + 1]
  <2>1. k \in DOMAIN context /\ context[k] \in Frame /\ Accounted(context[k])
    BY <1>1, <1>2, <1>4 DEF ON_ERROR
  <2>2. context' = [context EXCEPT ![k] = e] /\ cstack' = cstack
    BY <1>4 DEF ON_ERROR
  <2>3. e \in Frame /\ e.jbuf = context[k].jbuf /\ Accounted(e)
    BY <2>1 DEF Frame, Accounted
  <2> QED BY <2>1, <2>2, <2>3, SoundFrame
<1>5. CASE FINALLY
  <2> DEFINE k == Top.frame
             e == [context[k] EXCEPT !.finalizers = @ + 1, !.reached = @ + 1]
  <2>1. k \in DOMAIN context /\ context[k] \in Frame /\ Accounted(context[k])
    BY <1>1, <1>2, <1>5 DEF FINALLY
  <2>2. context' = [context EXCEPT ![k] = e] /\ cstack' = cstack
    BY <1>5 DEF FINALLY
  <2>3. e \in Frame /\ e.jbuf = context[k].jbuf /\ Accounted(e)
    BY <2>1, FrameReached
  <2> QED BY <2>1, <2>2, <2>3, SoundFrame
<1>6. CASE raise_exception
  <2>1. context # <<>> /\ cstack \in Seq(Activation) /\ Len(cstack) <= Len(cstack)
    BY <1>1, <1>6 DEF raise_exception, Sound
  <2>2. Sound(longjmp(context), context)
    BY <2>1, SoundJump DEF longjmp
  <2> QED BY <1>6, <2>2 DEF raise_exception
<1>7. CASE exc_exit_try
  <2> DEFINE k == Len(context)
             e == [context[k] EXCEPT !.catchers = 0]
             u == Unwind(k, 0)
  <2>1. /\ Len(cstack) \in Blocks(cstack) /\ k \in DOMAIN context /\ Top.frame = k
        /\ context[k] \in Frame /\ Accounted(context[k])
    BY <1>1, <1>2, <1>7 DEF exc_exit_try
  <2>2. context' = [context EXCEPT ![k] = e] /\ cstack' = Append(Front(cstack), u)
    BY <1>7 DEF exc_exit_try
  <2>3. e \in Frame /\ e.jbuf = context[k].jbuf /\ Accounted(e)
    BY <2>1 DEF Frame, Accounted
  <2>4. u \in Activation /\ u.kind = "unwind" /\ u.frame = k
    BY <1>1 DEF Unwind, Activation
  <2>5. Sound(cstack, context')
    BY <2>1, <2>2, <2>3, SoundFrame
  <2> HIDE DEF u, k
  <2>6. Sound(Append(Front(cstack), u), context')
    BY <1>1, <2>1, <2>4, <2>5, SoundReplace
  <2> QED BY <2>2, <2>6
<1>8. CASE unwind_call
  <2> DEFINE k == Top.frame
             t == [Top EXCEPT !.captured = TRUE]
             h == Code("handler", k)
             e == IF context[k].catchers > 0 THEN [context[k] EXCEPT !.catchers = @ - 1]
                  ELSE [popped(context[k]) EXCEPT !.ran = @ + 1]
  <2>1. /\ Len(cstack) \in Blocks(cstack) /\ k \in DOMAIN context /\ Top.kind = "unwind"
        /\ context[k] \in Frame /\ Accounted(context[k]) /\ k \in Nat
    BY <1>1, <1>2, <1>8 DEF unwind_call
  <2>2. context' = [context EXCEPT ![k] = e]
    BY <1>8 DEF unwind_call
  <2>9. cstack' = Append(IF context[k].catchers > 0 THEN Append(Front(cstack), t) ELSE cstack, h)
    BY <1>8 DEF unwind_call
  <2>3. e \in Frame /\ e.jbuf = context[k].jbuf /\ Accounted(e)
    <3>1. CASE context[k].catchers > 0
      BY <2>1, <3>1 DEF Frame, Accounted
    <3>2. CASE ~(context[k].catchers > 0)
      <4>1. e = [popped(context[k]) EXCEPT !.ran = @ + 1]
        BY <3>2
      <4> QED BY <2>1, <4>1, FrameRan
    <3> QED BY <3>1, <3>2
  <2>4. t \in Activation /\ t.kind = "unwind" /\ t.frame = k
    BY <1>1, <2>1 DEF Activation
  <2>5. h \in Activation /\ h.kind = "handler"
    BY <2>1 DEF Code, Activation
  <2>6. Sound(cstack, context')
    BY <2>1, <2>2, <2>3, SoundFrame
  <2> HIDE DEF t, h, e
  <2>7. Sound(Append(Front(cstack), t), context')
    BY <1>1, <2>1, <2>4, <2>6, SoundReplace
  <2> QED BY <2>5, <2>6, <2>7, <2>9, SoundCall
<1>9. CASE handler_return
  BY <1>1, <1>9, SoundReturn DEF handler_return
<1>10. CASE unwind_return
  <2>1. /\ Len(cstack) \in Blocks(cstack) /\ Top.frame = Len(context)
    BY <1>2, <1>10 DEF unwind_return
  <2>2. /\ context' = SubSeq(context, 1, Len(context) - 1)
        /\ cstack' = Front(cstack) \/ (context' # <<>> /\ cstack' = longjmp(context'))
    BY <1>10, <2>1 DEF unwind_return, outer_frames
  <2>3. Sound(Front(cstack), context')
    BY <2>1, <2>2, SoundPop
  <2>4. /\ cstack \in Seq(Activation) /\ Len(Front(cstack)) <= Len(cstack)
        /\ \A i \in 1 .. Len(Front(cstack)) : cstack[i] = Front(cstack)[i]
    BY <1>1, SoundTypes, SubSeqProperties DEF Sound, Front
  <2>5. context' # <<>> => Sound(longjmp(context'), context')
    BY <2>3, <2>4, SoundJump DEF longjmp
  <2> QED BY <2>2, <2>3, <2>5
<1> QED BY <1>3, <1>4, <1>5, <1>6, <1>7, <1>8, <1>9, <1>10 DEF ExceptionsNext

\* A test that has returned has left its TRY blocks.
LEMMA SoundEnd ==
  ASSUME Sound(cstack, context), Len(cstack) = 1
  PROVE  context = <<>>
<1>1. Blocks(cstack) = {}
  BY SoundTypes DEF Sound, Blocks
<1>2. DOMAIN context = {} /\ context \in Seq(Frame)
  BY <1>1 DEF Sound
<1> QED BY <1>2, EmptySeq, SoundTypes

\* The inductive invariant: the exceptions are handled by a test alone.
ExceptionsInv == Sound(cstack, context) /\ (child # "boot" => Len(cstack) = 1)

LEMMA ExceptionsInvariant == TestUtilSpec => []ExceptionsInv
<1>1. TestUtilInit => ExceptionsInv
  BY SoundInit DEF TestUtilInit, ExceptionsInv, ExceptionsInit
<1>2. ExceptionsInv /\ [TestUtilNext]_tvars => ExceptionsInv'
  <2> SUFFICES ASSUME ExceptionsInv, [TestUtilNext]_tvars PROVE ExceptionsInv'
    OBVIOUS
  <2>1. ASSUME UNCHANGED evars PROVE Sound(cstack', context')
    BY <2>1 DEF evars, ExceptionsInv
  <2>2. CASE Next /\ UNCHANGED evars /\ (child = "boot" /\ child' # "boot" => Len(cstack) = 1)
    BY <2>1, <2>2 DEF ExceptionsInv, evars
  <2>3. CASE exception_tests
    <3>1. ExceptionsNext /\ child' = "boot"
      BY <2>3 DEF exception_tests, InTest, vars
    <3> QED BY <3>1, SoundStep DEF ExceptionsInv
  <2>4. CASE rlist_tests
    BY <2>1, <2>4 DEF rlist_tests, vars, evars, ExceptionsInv
  <2>5. CASE UNCHANGED tvars
    BY <2>1, <2>5 DEF tvars, vars, evars, ExceptionsInv
  <2> QED BY <2>2, <2>3, <2>4, <2>5 DEF TestUtilNext
<1> QED BY <1>1, <1>2, PTL DEF TestUtilSpec

\* The exception frames are those of the functions on the stack, every FINALLY
\* block is executed once, and a test leaves no frame behind
\* (exception_unwind(), test_exc_unwind()), for any nesting of the blocks.
THEOREM FramesSound == TestUtilSpec => []ExceptionsSound
<1>1. ExceptionsInv => ExceptionsSound
  BY SoundMeans, SoundEnd DEF ExceptionsInv, ExceptionsSound
<1> QED BY <1>1, ExceptionsInvariant, PTL
=============================================================================
