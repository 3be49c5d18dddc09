------------------------------- MODULE Serial -------------------------------
(***************************************************************************)
(* A serial port, from the programs that read and write it to the terminal *)
(* at its other end: the driver (kernel_dev.c), the io_devices of the      *)
(* virtual machine and the loop of the PIC that watches them (bios.c), and *)
(* the program "terminal" (terminal.c).                                    *)
(*                                                                         *)
(* The keyboard and the console are FIFOs of the host.  The kernel lock is *)
(* the monitor that module KernelCC shows it to be.  Interrupts go to one  *)
(* core while the threads may be on others, so the handler may run at any  *)
(* time.                                                                   *)
(***************************************************************************)
EXTENDS Integers, Sequences, FiniteSets, SequencesExt, Fifos

CONSTANTS
  Reader, Writer,  \* threads that call Read and Write
  Size,            \* the size of their buffers
  MaxTyped,        \* bound on the bytes that the user types
  MaxCalls,        \* bound on the calls of Write of each writer
  Nil

ASSUME SerialAssumption ==
  /\ Size \in Nat \ {0}
  /\ MaxTyped \in Nat /\ MaxCalls \in Nat
  /\ Reader \cap Writer = {}
  /\ Nil \notin Reader \cup Writer

VARIABLES
  typed,    \* how many bytes have been typed; they are 1, 2, 3, ...
  sent,     \* how many of them the terminal has sent
  got,      \* the bytes that readers have got, oldest first
  shown,    \* the bytes that the terminal has displayed, oldest first
  flipped,  \* the files that the terminal has found ready, and polls no more
  ready,    \* io_device.ready of "kbd" and "con"
  overdue,  \* the devices without an interrupt for SERIAL_TIMEOUT
  pic,      \* where the PIC is, and what select() has returned
  rx,       \* SERIAL_RX_READY is pending
  rx_ready, \* the threads that wait for this condition
  kernel,   \* the thread that holds the kernel, or Nil
  pc,       \* where each thread is
  count,    \* the local variable of serial_read() and serial_write()
  calls     \* how often each writer has called Write

terminal == <<typed, sent, shown, flipped>>
device == <<ready, overdue>>
irq == <<pic, rx>>
svars == <<terminal, kbd, con, got, device, irq, rx_ready, kernel, pc, count, calls>>

Thread == Reader \cup Writer

(***************************************************************************)
(* Control points of a thread:                                             *)
(*   user     executes its program                                         *)
(*   lock     waits for the kernel                                         *)
(*   io       in the loop of serial_read() or serial_write()               *)
(*   failed   bios_read_serial() has failed, and is going to clear the     *)
(*            ready flag                                                   *)
(*   wait     is going to call kernel_wait()                               *)
(*   waiting  has called it                                                *)
(***************************************************************************)

\* The devices are ready when the machine starts if select() says so.
io_device_init == [d \in {"kbd", "con"} |-> d = "con"]

SerialInit ==
  /\ typed = 0 /\ sent = 0
  /\ kbd = <<>> /\ con = <<>>
  /\ got = <<>> /\ shown = <<>>
  /\ flipped = {}
  /\ ready = io_device_init
  /\ overdue = {}
  /\ pic = [at |-> "select", fds |-> {}]
  /\ rx = FALSE
  /\ rx_ready = {}
  /\ kernel = Nil
  /\ pc = [t \in Thread |-> "user"]
  /\ count = [t \in Thread |-> 0]
  /\ calls = [t \in Thread |-> 0]

----------------------------------------------------------------------------
(***************************************************************************)
(* The terminal.                                                           *)
(***************************************************************************)

\* The user types; the bytes wait in the standard input of the terminal.
type ==
  /\ typed < MaxTyped
  /\ typed' = typed + 1
  /\ UNCHANGED <<sent, kbd, con, got, shown, flipped, device, irq, rx_ready, kernel, pc, count, calls>>

\* What poll() finds.  The standard output always has room.
Pollable == (IF sent < typed THEN {"IN"} ELSE {})
            \cup (IF Len(kbd) < Capacity THEN {"KBD"} ELSE {})
            \cup (IF con # <<>> THEN {"CON"} ELSE {})

\* Mutant: files that have been ready are not polled again.
transfer_byte_once(files) == {}

\* After a transfer its files are polled again.
transfer_byte(files) == files

\* One round: poll, and transfer a byte in each direction where both ends
\* have been found ready.  Reading and writing would block if they were not.
io_loop ==
  LET found == flipped \cup Pollable
      XKBD == {"IN", "KBD"} \subseteq found
      XCON == "CON" \in found
  IN
  /\ Pollable \ flipped # {}
  /\ XKBD => sent < typed /\ Len(kbd) < Capacity
  /\ XCON => con # <<>>
  /\ sent' = IF XKBD THEN sent + 1 ELSE sent
  /\ kbd' = IF XKBD THEN Append(kbd, sent + 1) ELSE kbd
  /\ con' = IF XCON THEN Tail(con) ELSE con
  /\ shown' = IF XCON THEN Append(shown, Head(con)) ELSE shown
  /\ flipped' = found \ ((IF XKBD THEN transfer_byte({"IN", "KBD"}) ELSE {})
                         \cup IF XCON THEN transfer_byte({"CON"}) ELSE {})
  /\ UNCHANGED <<typed, got, device, irq, rx_ready, kernel, pc, count, calls>>

----------------------------------------------------------------------------
(***************************************************************************)
(* The PIC.                                                                *)
(***************************************************************************)

\* What select() reports.
io_ready == (IF kbd # <<>> THEN {"kbd"} ELSE {})
            \cup IF Len(con) < Capacity THEN {"con"} ELSE {}

\* The PIC calls select() for the devices that are not ready.  It returns, at
\* the latest after SLOW_HZ, and the clock goes on: devices may be overdue.
PIC_select ==
  /\ pic.at = "select"
  /\ pic' = [at |-> "process", fds |-> {d \in io_ready : ~ready[d]}]
  /\ overdue' \in {overdue, {"kbd", "con"}}
  /\ UNCHANGED <<terminal, kbd, con, got, ready, rx, rx_ready, kernel, pc, count, calls>>

\* Mutant: a device that is still marked as ready gets no interrupt.
PIC_due_unready == pic.fds \cup {d \in overdue : ~ready[d]}

\* The devices that get an interrupt.
PIC_due == pic.fds \cup overdue

\* The PIC marks them as ready and raises SERIAL_TX_READY, which does nothing,
\* or SERIAL_RX_READY.
PIC_process ==
  /\ pic.at = "process"
  /\ ready' = [d \in {"kbd", "con"} |-> ready[d] \/ d \in PIC_due]
  /\ overdue' = overdue \ PIC_due
  /\ rx' = (rx \/ "kbd" \in PIC_due)
  /\ pic' = [at |-> "select", fds |-> {}]
  /\ UNCHANGED <<terminal, kbd, con, got, rx_ready, kernel, pc, count, calls>>

\* The handler of SERIAL_RX_READY wakes up all readers.
serial_rx_handler ==
  /\ rx
  /\ rx' = FALSE
  /\ rx_ready' = {}
  /\ pc' = [t \in Thread |-> IF t \in rx_ready THEN "lock" ELSE pc[t]]
  /\ UNCHANGED <<terminal, kbd, con, got, device, pic, kernel, count, calls>>

----------------------------------------------------------------------------
(***************************************************************************)
(* The threads.                                                            *)
(***************************************************************************)
GoesTo(t, l) == pc' = [pc EXCEPT ![t] = l]

\* A thread calls Read or Write.
call(t) ==
  /\ pc[t] = "user"
  /\ t \in Writer => calls[t] < MaxCalls
  /\ calls' = [calls EXCEPT ![t] = IF t \in Writer THEN @ + 1 ELSE @]
  /\ count' = [count EXCEPT ![t] = 0]
  /\ GoesTo(t, "lock")
  /\ UNCHANGED <<terminal, kbd, con, got, device, irq, rx_ready, kernel>>

\* It gets the kernel, in the system call or at the end of kernel_wait().
kernel_lock(t) ==
  /\ pc[t] = "lock"
  /\ kernel = Nil
  /\ kernel' = t
  /\ GoesTo(t, "io")
  /\ UNCHANGED <<terminal, kbd, con, got, device, irq, rx_ready, count, calls>>

\* The loop has filled the buffer, and the system call returns.
return(t) ==
  /\ pc[t] = "io"
  /\ count[t] = Size
  /\ kernel' = Nil
  /\ GoesTo(t, "user")
  /\ UNCHANGED <<terminal, kbd, con, got, device, irq, rx_ready, count, calls>>

\* Mutant: a byte that is read while the device is not ready is dropped.
valid_ready == ready["kbd"]

\* read() has returned a byte.
valid == TRUE

\* bios_read_serial(), that is io_device_read().
io_device_read(t) ==
  /\ t \in Reader
  /\ pc[t] = "io"
  /\ count[t] < Size
  /\ IF kbd = <<>>
     THEN GoesTo(t, "failed") /\ UNCHANGED <<kbd, got, count>>
     ELSE /\ kbd' = Tail(kbd)
          /\ got' = IF valid THEN Append(got, Head(kbd)) ELSE got
          /\ count' = [count EXCEPT ![t] = @ + 1]
          /\ UNCHANGED pc
  /\ UNCHANGED <<terminal, con, device, irq, rx_ready, kernel, calls>>

\* bios_write_serial(), that is io_device_write().  A byte is written as the
\* writer, its call and its place in the buffer.
io_device_write(t) ==
  /\ t \in Writer
  /\ pc[t] = "io"
  /\ count[t] < Size
  /\ Len(con) < Capacity
  /\ con' = Append(con, <<t, calls[t], count[t] + 1>>)
  /\ count' = [count EXCEPT ![t] = @ + 1]
  /\ UNCHANGED <<terminal, kbd, got, device, irq, rx_ready, kernel, pc, calls>>

Unready(d) == ready' = [ready EXCEPT ![d] = FALSE]

\* The transfer has failed: serial_read() returns what it has, or waits.
serial_read(t) ==
  /\ t \in Reader
  /\ pc[t] = "failed"
  /\ Unready("kbd")
  /\ IF count[t] > 0
     THEN kernel' = Nil /\ GoesTo(t, "user")
     ELSE UNCHANGED kernel /\ GoesTo(t, "wait")
  /\ UNCHANGED <<terminal, kbd, con, got, overdue, irq, rx_ready, count, calls>>

\* kernel_wait(&dcb->rx_ready).
kernel_wait(t) ==
  /\ pc[t] = "wait"
  /\ kernel' = Nil
  /\ rx_ready' = rx_ready \cup {t}
  /\ GoesTo(t, "waiting")
  /\ UNCHANGED <<terminal, kbd, con, got, device, irq, count, calls>>

\* Mutant: serial_write() leaves the kernel while it yields, even when it has
\* written something.
serial_write_released(t) ==
  /\ t \in Writer
  /\ pc[t] = "io"
  /\ count[t] < Size
  /\ Len(con) = Capacity
  /\ Unready("con")
  /\ kernel' = Nil
  /\ GoesTo(t, "lock")
  /\ UNCHANGED <<terminal, kbd, con, got, overdue, irq, rx_ready, count, calls>>

\* The FIFO is full: serial_write() returns if it has written something,
\* or calls yield() and tries again, with the kernel locked.
serial_write(t) ==
  /\ t \in Writer
  /\ pc[t] = "io"
  /\ count[t] < Size
  /\ Len(con) = Capacity
  /\ Unready("con")
  /\ IF count[t] > 0
     THEN kernel' = Nil /\ GoesTo(t, "user")
     ELSE UNCHANGED kernel /\ GoesTo(t, "io")
  /\ UNCHANGED <<terminal, kbd, con, got, overdue, irq, rx_ready, count, calls>>

Step(t) ==
  \/ kernel_lock(t) \/ return(t)
  \/ io_device_read(t) \/ io_device_write(t)
  \/ serial_read(t) \/ kernel_wait(t) \/ serial_write(t)

PIC_daemon == PIC_select \/ PIC_process

SerialNext ==
  \/ type \/ io_loop
  \/ PIC_daemon \/ serial_rx_handler
  \/ \E t \in Thread : call(t) \/ Step(t)

SerialSpec == SerialInit /\ [][SerialNext]_svars

\* Everybody goes on, and time passes: a device without an interrupt becomes
\* overdue.  A thread that asks for the kernel gets it when it is free again
\* and again.  Nothing is assumed of the user and of the programs.
SerialFairSpec ==
  /\ SerialSpec
  /\ WF_svars(io_loop) /\ WF_svars(PIC_daemon) /\ WF_svars(serial_rx_handler)
  /\ SF_svars(PIC_select /\ overdue' = {"kbd", "con"})
  /\ \A t \in Thread : WF_svars(Step(t)) /\ SF_svars(kernel_lock(t))

----------------------------------------------------------------------------
\* What is displayed and about to be displayed.
Output == shown \o con

\* No byte is lost, doubled or displaced on its way from the user to the
\* readers, although calls of Read fail, wait and return with a part.
InputExact == got \o kbd = [i \in 1 .. sent |-> i]

\* The bytes that one call of Write has accepted are displayed in order and
\* without bytes of others in between, although a call that fails halfway
\* returns and one that fails at once polls (serial_write()).
OutputWhole ==
  \A i, j \in DOMAIN Output :
    i < j /\ Output[i][1] = Output[j][1] /\ Output[i][2] = Output[j][2] =>
      Output[j][3] = Output[i][3] + (j - i)

\* What is typed and what is written arrive unharmed (serial_read() and
\* serial_write()).
TerminalExact == InputExact /\ OutputWhole

Device == {"kbd", "con"}
ConByte == Writer \X Nat \X Nat

TypeOK ==
  /\ typed \in Nat /\ sent \in Nat
  /\ kbd \in Seq(Nat) /\ got \in Seq(Nat)
  /\ con \in Seq(ConByte) /\ shown \in Seq(ConByte)
  /\ flipped \subseteq {"IN", "KBD", "CON"}
  /\ ready \in [Device -> BOOLEAN] /\ overdue \subseteq Device
  /\ pic \in [at : {"select", "process"}, fds : SUBSET Device]
  /\ rx \in BOOLEAN
  /\ rx_ready \subseteq Reader
  /\ kernel \in Thread \cup {Nil}
  /\ pc \in [Thread -> {"user", "lock", "io", "failed", "wait", "waiting"}]
  /\ count \in [Thread -> 0 .. Size]
  /\ calls \in [Thread -> Nat]

\* What makes TerminalExact inductive: the driver is executed by the thread
\* that holds the kernel, ...
DriverInv ==
  /\ \A t \in Thread : kernel = t <=> pc[t] \in {"io", "failed", "wait"}
  /\ \A w \in Writer : pc[w] \in {"user", "lock", "io"}
  /\ \A r \in rx_ready : pc[r] = "waiting"

\* ... the bytes of a call come after the call, and the last byte of a call
\* that is not finished is the last byte of all.
OutputInv ==
  /\ \A i \in DOMAIN Output : Output[i][2] <= calls[Output[i][1]]
  /\ \A w \in Writer :
       /\ pc[w] = "lock" => count[w] = 0
       /\ pc[w] # "user" /\ count[w] = 0 =>
            \A i \in DOMAIN Output : Output[i][1] = w => Output[i][2] # calls[w]
       /\ pc[w] # "user" /\ count[w] > 0 =>
            Output # <<>> /\ Last(Output) = <<w, calls[w], count[w]>>

SerialInv == TypeOK /\ TerminalExact /\ DriverInv /\ OutputInv

\* A call of Read returns when there is input, even if the interrupt for it
\* comes between the failed read and kernel_wait(), or the PIC marks the
\* keyboard as ready after the reader has found it empty.
ReadsEnd ==
  \A r \in Reader :
    (pc[r] # "user" /\ Len(got) < typed) ~> (pc[r] = "user" \/ Len(got) = typed)

\* Every call of Write returns, while the terminal takes bytes.
WritesEnd == \A w \in Writer : (pc[w] # "user") ~> (pc[w] = "user")
=============================================================================
