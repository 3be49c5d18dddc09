------------------------------ MODULE Programs ------------------------------
(***************************************************************************)
(* User programs on the kernel: processes execute sequences of calls of    *)
(* the TinyOS API, and check their results.  The processes and streams     *)
(* are those of Process and Streams; added are what these modules leave    *)
(* out (the results of the calls, exit values, the bytes of terminals),    *)
(* and mutexes and condition variables as KernelMonitor has them.          *)
(*                                                                         *)
(* Program[t][s] is the code of part s of program t; part "boot" is the    *)
(* boot task.  A call that locks, waits or uses a driver takes several     *)
(* steps; every other one is a step.                                       *)
(***************************************************************************)
EXTENDS Process

CONSTANTS
  Program,  \* see above
  null,     \* the null device
  term0, term1  \* the terminals

VARIABLES
  test,     \* the program that the machine has been booted with
  part,     \* which part of it a process executes
  ip,       \* its next call
  kids,     \* the results of its calls of Exec
  files,    \* the results of its calls of OpenTerminal and OpenNull
  count,    \* how much a loop around Read or Write has transferred
  exitval,  \* pcb->exitval
  sum,      \* of the exit values that the boot task has added up
  failed,   \* FLAG_FAILURE of unit_testing.c
  sends,    \* what the proxy of a terminal has still to send
  kbd,      \* the input of a terminal
  shown,    \* the output of a terminal
  expected, \* the output that the program has announced
  mem,      \* variables that the processes share
  mx,       \* the holder of their mutex, or Nil
  waiting,  \* the condition variable that a process waits for, or Nil
  relocking \* the processes that have been awakened and want the mutex

terminals == <<sends, kbd, shown, expected>>
monitor == <<mem, mx, waiting, relocking>>
results == <<kids, files, count, exitval, sum>>
pvars == <<vars, test, part, ip, failed, results, terminals, monitor>>

Terminal == {term0, term1}

----------------------------------------------------------------------------
(***************************************************************************)
(* Operands: a number, or a pid or file id that is known only when the     *)
(* program runs.                                                           *)
(***************************************************************************)
Operand(kind, n) == [v |-> kind, n |-> n]
Num(n) == Operand("int", n)
Kid(n) == Operand("kid", n)           \* the n-th process it has executed
BootKid(n) == Operand("bootkid", n)   \* the n-th one of the boot task
File(n) == Operand("file", n)         \* the n-th stream it has opened
Self == Operand("self", 0)            \* GetPid()
AnyOf == Operand("any", 0)            \* any child, or any result but an error
Mine == Operand("mine", 0)            \* one of the processes it has executed
Fails == Operand("fails", 0)          \* NOPROC
Ignored == Operand("ignored", 0)      \* the program does not look

NOFILE == -1

Value(p, e) ==
  CASE e.v = "int" -> e.n
    [] e.v = "kid" -> kids[p][e.n]
    [] e.v = "bootkid" -> kids[1][e.n]
    [] e.v = "file" -> files[p][e.n]
    [] e.v = "self" -> p + e.n
    [] OTHER -> Nil

\* The instructions.  "is" is what the program asserts of the result.
exec(s) == [call |-> "Exec", s |-> s, is |-> AnyOf]
wait(e, is) ==
  [call |-> "WaitChild", pid |-> e, is |-> is, status |-> AnyOf, loop |-> FALSE, add |-> FALSE]
wait_status(e, st) == [wait(e, e) EXCEPT !.status = st]
wait_all == [wait(AnyOf, Fails) EXCEPT !.loop = TRUE]
assert_sum(n) == [call |-> "Sum", is |-> n]
return(e) == [call |-> "Exit", status |-> e]
open(d) == [call |-> "Open", dev |-> d]
dup2(e, f, is) == [call |-> "Dup2", old |-> e, new |-> f, is |-> is, unless |-> Nil]
close(e, is) == [call |-> "Close", fid |-> e, is |-> is, unless |-> Nil]
read(e, data) == [call |-> "Read", fid |-> e, is |-> data, until |-> "once"]
read_until(e, cond) == [read(e, <<>>) EXCEPT !.until = cond]
write(e, data) == [call |-> "Write", fid |-> e, is |-> data]
sendme(t, data) == [call |-> "sendme", t |-> t, data |-> data]
expect(t, data) == [call |-> "expect", t |-> t, data |-> data]
stub(name, is) == [call |-> name, is |-> is]
lock == [call |-> "Lock"]
unlock == [call |-> "Unlock"]
assign(i, v) == [call |-> "Assign", cell |-> i, value |-> v, add |-> 0]
incr(i) == [call |-> "Assign", cell |-> i, value |-> 0, add |-> 1]
signal(c) == [call |-> "Signal", cv |-> c]
broadcast(c) == [call |-> "Broadcast", cv |-> c]
timed_wait(c) == [call |-> "Wait", cv |-> c, once |-> TRUE]
wait_while(c, i, values) ==
  [call |-> "Wait", cv |-> c, once |-> FALSE, cell |-> i, values |-> values]

\* The condition variable of a process that waits for a timeout only.
own == -1

\* if(fid != f) { Dup2(fid, f); Close(fid); }, for the n-th stream opened.
at(n, f) ==
  <<[dup2(File(n), Num(f), 0) EXCEPT !.unless = f], [close(File(n), 0) EXCEPT !.unless = f]>>

\* n times the same calls.
Times(n, code) == FlattenSeq([i \in 1 .. n |-> code])

\* The calls code(1) ... code(n).
ForEach(n, code(_)) == [i \in 1 .. n |-> code(i)]

----------------------------------------------------------------------------
\* Cells holds the indices of the shared variables.
ProgramInit(Cells) ==
  /\ Init
  /\ test \in DOMAIN Program
  /\ part = [p \in User |-> "boot"]
  /\ ip = [p \in User |-> 1]
  /\ kids = [p \in User |-> <<>>] /\ files = [p \in User |-> <<>>]
  /\ count = [p \in User |-> 0]
  /\ exitval = [p \in User |-> 0] /\ sum = 0
  /\ failed = FALSE
  /\ sends = [t \in Terminal |-> <<>>] /\ kbd = [t \in Terminal |-> <<>>]
  /\ shown = [t \in Terminal |-> <<>>] /\ expected = [t \in Terminal |-> <<>>]
  /\ mem = [i \in Cells |-> 0]
  /\ mx = Nil
  /\ waiting = [p \in User |-> Nil]
  /\ relocking = {}

Code(p) == Program[test][part[p]]

Cmd(p) == Code(p)[ip[p]]

\* Process p does not wait for a condition variable, or for its mutex then.
Awake(p) == waiting[p] = Nil /\ p \notin relocking

\* Process p is going to make, or is inside, this call.
At(p, call) ==
  /\ ip[p] <= Len(Code(p)) /\ Cmd(p).call = call
  /\ pstate[p] = "ALIVE" /\ pc[p] # "exit" /\ Awake(p)

\* ASSERT().
Check(ok) == failed' = (failed \/ ~ok)

Advance(p) == ip' = [ip EXCEPT ![p] = @ + 1]

\* The call is over.
Done(p, ok) == Advance(p) /\ Check(ok)

----------------------------------------------------------------------------
(***************************************************************************)
(* Processes.                                                              *)
(***************************************************************************)
Exec(p) ==
  /\ At(p, "Exec")
  /\ \E c \in User :
       /\ sys_Exec(p, c)
       /\ part' = [part EXCEPT ![c] = Cmd(p).s]
       /\ ip' = [ip EXCEPT ![p] = @ + 1, ![c] = 1]
       /\ kids' = [kids EXCEPT ![p] = Append(@, c), ![c] = <<>>]
       /\ files' = [files EXCEPT ![c] = <<>>]
  /\ UNCHANGED <<test, failed, count, exitval, sum, terminals, monitor>>

\* Exec() returns NOPROC: the process table is full.
ExecFails(p) ==
  /\ At(p, "Exec")
  /\ pcb_freelist = <<>>
  /\ kids' = [kids EXCEPT ![p] = Append(@, Nil)]
  /\ Done(p, Cmd(p).is = Ignored)
  /\ UNCHANGED <<vars, test, part, files, count, exitval, sum, terminals, monitor>>

\* The process to wait for, or NOPROC for any.
Target(p) == Value(p, Cmd(p).pid)

\* WaitChild() returns NOPROC at once.
NoChild(p) ==
  /\ Calling(p)
  /\ IF Target(p) = Nil THEN children_list[p] = {}
     ELSE Target(p) \notin User \/ ~LegalChild(p, Target(p))

\* A result of WaitChild() and what the program does with it.
Waited(p, c) ==
  /\ Check(/\ \/ Cmd(p).is \in {AnyOf, Ignored} \/ Cmd(p).loop
              \/ Cmd(p).is = Mine /\ c \in Range(kids[p])
              \/ c = Value(p, Cmd(p).is)
           /\ Cmd(p).status = AnyOf \/ exitval[c] = Value(p, Cmd(p).status))
  /\ sum' = IF Cmd(p).add THEN sum + exitval[c] ELSE sum
  /\ IF Cmd(p).loop THEN UNCHANGED ip ELSE Advance(p)

WaitChild(p) ==
  LET c == IF Target(p) = Nil THEN Head(exited_list[p]) ELSE Target(p) IN
  /\ At(p, "WaitChild")
  /\ IF NoChild(p)
     THEN Done(p, Cmd(p).is \in {Fails, Ignored}) /\ UNCHANGED <<vars, sum>>
     ELSE /\ IF Target(p) = Nil THEN wait_for_any_child(p) ELSE wait_for_specific_child(p, c)
          /\ IF pc'[p] = "user" THEN Waited(p, c) ELSE UNCHANGED <<ip, failed, sum>>
  /\ UNCHANGED <<test, part, kids, files, count, exitval, terminals, monitor>>

AssertSum(p) ==
  /\ At(p, "Sum")
  /\ Done(p, sum = Cmd(p).is)
  /\ UNCHANGED <<vars, test, part, results, terminals, monitor>>

\* Exit(), or the end of the main function of a process (start_main_thread()).
ExitProgram(p) ==
  /\ Awake(p)
  /\ At(p, "Exit") \/ ip[p] > Len(Code(p)) \/ pc[p] = "exit"
  /\ Exit(p)
  /\ exitval' = [exitval EXCEPT ![p] = IF At(p, "Exit") THEN Value(p, Cmd(p).status) ELSE 0]
  /\ UNCHANGED <<test, part, ip, failed, kids, files, count, sum, terminals, monitor>>

----------------------------------------------------------------------------
(***************************************************************************)
(* Streams.                                                                *)
(***************************************************************************)
OpenStream(p) ==
  /\ At(p, "Open")
  /\ UNCHANGED <<tree, threads>>
  /\ Files!open_stream(p, Cmd(p).dev)
  /\ files' = [files EXCEPT ![p] = Append(@, CHOOSE fd \in Files!Fid : FIDT'[p][fd] # FIDT[p][fd])]
  /\ Done(p, TRUE)
  /\ UNCHANGED <<test, part, kids, count, exitval, sum, terminals, monitor>>

\* The block that a file id names, or Nil: get_fcb().
Fcb(p, fd) == IF fd \in Files!Fid THEN FIDT[p][fd] ELSE Nil

\* A call that the program makes only for another file id than this one.
Skipped(p, fd) == fd = Cmd(p).unless

Dup2(p) ==
  LET old == Value(p, Cmd(p).old)  new == Value(p, Cmd(p).new)
      legal == new \in Files!Fid /\ Fcb(p, old) # Nil
  IN
  /\ At(p, "Dup2")
  /\ IF ~Skipped(p, old) /\ legal /\ Fcb(p, old) # Fcb(p, new)
     THEN UNCHANGED <<tree, threads>> /\ Files!sys_Dup2(p, old, new)
     ELSE UNCHANGED vars
  /\ Done(p, Skipped(p, old) \/ Cmd(p).is = IF legal THEN 0 ELSE -1)
  /\ UNCHANGED <<test, part, results, terminals, monitor>>

Close(p) ==
  LET fd == Value(p, Cmd(p).fid) IN
  /\ At(p, "Close")
  /\ IF ~Skipped(p, fd) /\ Fcb(p, fd) # Nil
     THEN UNCHANGED <<tree, threads>> /\ Files!sys_Close(p, fd)
     ELSE UNCHANGED vars
  /\ Done(p, Skipped(p, fd) \/ Cmd(p).is = IF fd \in Files!Fid THEN 0 ELSE -1)
  /\ UNCHANGED <<test, part, results, terminals, monitor>>

\* Read() and Write() find the stream, or fail.
Transfer(p) ==
  LET fd == Value(p, Cmd(p).fid) IN
  /\ At(p, "Read") \/ At(p, "Write")
  /\ used[p] = Nil
  /\ IF Fcb(p, fd) = Nil
     THEN Done(p, Cmd(p).is = NOFILE) /\ UNCHANGED vars
     ELSE UNCHANGED <<tree, threads, ip, failed>> /\ Files!sys_Read(p, fd)
  /\ UNCHANGED <<test, part, results, terminals, monitor>>

\* The part of a loop around Read() or Write() that is still to do.
Rest(p) == SubSeq(Cmd(p).is, count[p] + 1, Len(Cmd(p).is))

\* What Read() is asked for: a line is read byte by byte.
Wanted(p) == IF Cmd(p).until = "newline" THEN 1 ELSE Len(Cmd(p).is) - count[p]

\* nulldev_read() fills the buffer with zeros; serial_read() waits for input
\* and returns what there is.
driver_read(p) ==
  LET d == streamobj[used[p]] IN
  IF d = null THEN [i \in 1 .. Wanted(p) |-> 0]
  ELSE SubSeq(kbd[d], 1, Min({Wanted(p), Len(kbd[d])}))

\* A program checks one Read(), reads until it has everything, or reads byte
\* by byte to the end of a line.
ReadEnds(p, got) ==
  CASE Cmd(p).until = "once" -> TRUE
    [] Cmd(p).until = "all" -> count[p] + Len(got) = Len(Cmd(p).is)
    [] Cmd(p).until = "newline" -> Last(got) = "newline"

ReadReturns(p) ==
  LET d == streamobj[used[p]]  got == driver_read(p) IN
  /\ At(p, "Read")
  /\ used[p] # Nil
  /\ got # <<>>
  /\ kbd' = IF d = null THEN kbd
            ELSE [kbd EXCEPT ![d] = SubSeq(@, Len(got) + 1, Len(@))]
  /\ IF ReadEnds(p, got)
     THEN /\ Done(p, Cmd(p).until = "newline" \/ got = Rest(p))
          /\ count' = [count EXCEPT ![p] = 0]
     ELSE /\ Check(Cmd(p).until = "newline" \/ IsPrefix(got, Rest(p)))
          /\ count' = [count EXCEPT ![p] = IF Cmd(p).until = "all" THEN @ + Len(got) ELSE 0]
          /\ UNCHANGED ip
  /\ UNCHANGED <<tree, threads>>
  /\ Files!sys_Read_return(p)
  /\ UNCHANGED <<test, part, kids, files, exitval, sum, sends, shown, expected, monitor>>

\* nulldev_write() takes everything, serial_write() what the console takes;
\* the program goes on until all is written.
WriteReturns(p) ==
  LET d == streamobj[used[p]] IN
  /\ At(p, "Write")
  /\ used[p] # Nil
  /\ \E n \in (IF d = null THEN {Len(Rest(p))} ELSE 1 .. Len(Rest(p))) :
       /\ shown' = IF d = null THEN shown ELSE [shown EXCEPT ![d] = @ \o SubSeq(Rest(p), 1, n)]
       /\ IF n = Len(Rest(p))
          THEN Done(p, TRUE) /\ count' = [count EXCEPT ![p] = 0]
          ELSE count' = [count EXCEPT ![p] = @ + n] /\ UNCHANGED <<ip, failed>>
  /\ UNCHANGED <<tree, threads>>
  /\ Files!sys_Read_return(p)
  /\ UNCHANGED <<test, part, kids, files, exitval, sum,
                 sends, kbd, expected, monitor>>

\* The test announces input or output to the proxy of a terminal.
Announce(p) ==
  /\ At(p, "sendme") \/ At(p, "expect")
  /\ IF At(p, "sendme")
     THEN sends' = [sends EXCEPT ![Cmd(p).t] = Append(@, Cmd(p).data)] /\ UNCHANGED expected
     ELSE expected' = [expected EXCEPT ![Cmd(p).t] = @ \o Cmd(p).data] /\ UNCHANGED sends
  /\ Done(p, TRUE)
  /\ UNCHANGED <<vars, test, part, results, kbd, shown, monitor>>

\* The proxy sends it.
kbd_proc(t) ==
  /\ sends[t] # <<>>
  /\ kbd' = [kbd EXCEPT ![t] = @ \o Head(sends[t])]
  /\ sends' = [sends EXCEPT ![t] = Tail(@)]
  /\ UNCHANGED <<vars, test, part, ip, failed, results, shown, expected, monitor>>

\* Calls that are not implemented: each returns an error, and the tests that
\* are modelled ask for no more.
socket_stubs == [Socket |-> NOFILE, Listen |-> -1, Accept |-> NOFILE, Connect |-> -1]
thread_stubs == [CreateThread |-> 0, ThreadJoin |-> -1]
Unimplemented == socket_stubs @@ thread_stubs

Stub(p) ==
  /\ \E call \in DOMAIN Unimplemented : At(p, call)
  /\ Done(p, Unimplemented[Cmd(p).call] = Cmd(p).is)
  /\ UNCHANGED <<vars, test, part, results, terminals, monitor>>

----------------------------------------------------------------------------
(***************************************************************************)
(* Mutexes and condition variables.                                        *)
(***************************************************************************)
Mutex_Lock(p) ==
  /\ mx = Nil
  /\ \/ At(p, "Lock") /\ Done(p, TRUE) /\ UNCHANGED relocking
     \/ p \in relocking /\ relocking' = relocking \ {p} /\ UNCHANGED <<ip, failed>>
  /\ mx' = p
  /\ UNCHANGED <<vars, test, part, results, terminals, mem, waiting>>

Mutex_Unlock(p) ==
  /\ At(p, "Unlock")
  /\ mx' = Nil
  /\ Done(p, mx = p)
  /\ UNCHANGED <<vars, test, part, results, terminals, mem, waiting, relocking>>

Assign(p) ==
  /\ At(p, "Assign")
  /\ mem' = [mem EXCEPT ![Cmd(p).cell] = IF Cmd(p).add = 0 THEN Cmd(p).value ELSE @ + Cmd(p).add]
  /\ Done(p, mx = p)
  /\ UNCHANGED <<vars, test, part, results, terminals, mx, waiting, relocking>>

\* A wait with a short timeout on a condition variable of the process's own
\* needs no mutex; a loop around Cond_Wait() ends when its condition does.
Cond_Wait(p) ==
  LET cmd == Cmd(p) IN
  /\ At(p, "Wait")
  /\ IF cmd.once \/ mem[cmd.cell] \in cmd.values
     THEN /\ waiting' = [waiting EXCEPT ![p] = cmd.cv]
          /\ mx' = IF cmd.cv = own THEN mx ELSE Nil
          /\ IF cmd.once THEN Done(p, cmd.cv = own \/ mx = p) ELSE UNCHANGED <<ip, failed>>
     ELSE Done(p, mx = p) /\ UNCHANGED <<mx, waiting>>
  /\ UNCHANGED <<vars, test, part, results, terminals, mem, relocking>>

\* A timeout of less than the duration of the test.
timeout(p) ==
  /\ waiting[p] = own
  /\ waiting' = [waiting EXCEPT ![p] = Nil]
  /\ UNCHANGED <<vars, test, part, ip, failed, results, terminals, mem, mx, relocking>>

\* The processes in woken are awakened, and compete for the mutex.
Wake(woken) ==
  /\ waiting' = [p \in User |-> IF p \in woken THEN Nil ELSE waiting[p]]
  /\ relocking' = relocking \cup woken

Waiters(c) == {p \in User : waiting[p] = c}

\* One of the waiters, if there is one.
OneOf(S) == IF S = {} THEN {{}} ELSE {{p} : p \in S}

Cond_Signal(p) ==
  /\ At(p, "Signal")
  /\ \E woken \in OneOf(Waiters(Cmd(p).cv)) : Wake(woken)
  /\ Done(p, TRUE)
  /\ UNCHANGED <<vars, test, part, results, terminals, mem, mx>>

Cond_Broadcast(p) ==
  /\ At(p, "Broadcast")
  /\ Wake(Waiters(Cmd(p).cv))
  /\ Done(p, TRUE)
  /\ UNCHANGED <<vars, test, part, results, terminals, mem, mx>>

----------------------------------------------------------------------------
\* The processes that execute their programs.
Running == {p \in User : pstate[p] = "ALIVE"}

ProgramStep ==
  \/ \E p \in Running :
       \/ Exec(p) \/ ExecFails(p) \/ WaitChild(p) \/ AssertSum(p) \/ ExitProgram(p)
       \/ OpenStream(p) \/ Dup2(p) \/ Close(p)
       \/ Transfer(p) \/ ReadReturns(p) \/ WriteReturns(p)
       \/ Announce(p) \/ Stub(p)
       \/ Mutex_Lock(p) \/ Mutex_Unlock(p) \/ Assign(p)
       \/ Cond_Wait(p) \/ timeout(p) \/ Cond_Signal(p) \/ Cond_Broadcast(p)
  \/ \E t \in Terminal : kbd_proc(t)

----------------------------------------------------------------------------
\* No ASSERT of a program fails, whatever the order in which its processes
\* run, and when the machine stops the console shows what was expected: what
\* the tests of validate_api.c say of Exec(), WaitChild(), Exit(), of the
\* streams, and of condition variables.
TestsPass ==
  /\ ~failed
  /\ pstate[1] = "ZOMBIE" => \A t \in Terminal : IsPrefix(expected[t], shown[t])

\* Every program comes to its end, with all its processes.
TestsEnd == <>(pstate[1] = "ZOMBIE")
=============================================================================
