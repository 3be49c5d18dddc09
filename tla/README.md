# TinyOS 3 in TLA+

TinyOS 3 is a small multicore operating system that runs on a simulated
machine (`bios.c`). This directory holds TLA+ models of the machine, of the
kernel, of programs that run on it and of the framework that tests it, the TLC
runs that check them on small instances, and TLAPS proofs about them.

## 1. The system

| Part | State | Operations | Interacts with |
|---|---|---|---|
| machine (`bios.c`) | cores, halted list, pending interrupts, timers, clock, terminals | halt and restart a core, raise and dispatch interrupts, PIC loop, serial read and write | signals to core threads; the ALARM calls `yield_handler`, RX calls `serial_rx_handler` |
| scheduler (`kernel_sched.c`) | TCBs, `SCHED`, `TIMEOUT_LIST`, `sched_spinlock`, current thread of each core, `active_threads` | `spawn_thread`, `wakeup`, `sleep_releasing`, `yield`, `gain`, `idle_thread`, `run_scheduler` | called by everything that sleeps or wakes; calls the machine to halt and restart cores |
| concurrency control (`kernel_cc.c`, `kernel_sys.c`) | mutexes, condition variables with a ring of waiters, the kernel semaphore | `Mutex_Lock`, `Cond_Wait`, `Cond_TimedWait`, `Cond_Signal`, `Cond_Broadcast`, `kernel_lock`, `kernel_unlock`, `kernel_wait`, `kernel_signal`, `kernel_sleep` | `sleep_releasing` and `wakeup` of the scheduler; wraps every system call |
| processes (`kernel_proc.c`) | PCBs, process tree, zombie lists, free list | `Exec`, `Exit`, `WaitChild` | kernel lock, `child_exit` conditions, streams |
| streams (`kernel_streams.c`) | file id tables, FCBs with reference counts, free list | open, `Close`, `Dup2`, `Read`, `Write` | copied by `Exec`, closed by `Exit`; drivers may wait inside `Read` |
| drivers (`kernel_dev.c`) | device table, serial ports, `rx_ready` | `serial_read`, `serial_write`, `serial_rx_handler`, `device_open` | interrupts, kernel lock |
| boot (`kernel_init.c`) | - | initialisation, boot task | all of them |
| stubs (`kernel_threads.c`, `kernel_pipe.c`, `kernel_socket.c`) | none | return an error | - |
| lists and exceptions (`util.h`, `util.c`) | nodes with two pointers; the stack of exception frames | `rl_splice` and the list operations made of it; `TRY_WITH`, `ON_ERROR`, `FINALLY`, `raise_exception` | lists are used everywhere in the kernel |
| programs (`symposium.c`, `mtask.c`, `tinyos_shell.c`, `tinyoslib.c`, `validate_api.c`) | the philosophers' monitor; the streams of a shell | user programs and tests | system calls |
| terminal (`terminal.c`) | which files it has found ready | moves bytes between the FIFOs of a serial port and the user | the PIC, through the FIFOs |
| test framework (`unit_testing.c`) | the current test, its process, the daemons at the other end of its terminals | `execute`, `expect`, `sendme`, timeouts | boots the machine for each test |

What is hard in it:

- **a thread between two states**: a thread that goes to sleep is still on its
  core, and on its stack, for a while; other cores wake it up, time it out or
  pick it meanwhile (`phase`, the `READY` cases of `yield` and `gain`);
- **freeing a stack**: an exited thread is freed by whoever runs next;
- **sleep and release**: condition variables have their waiters on the stacks
  of the waiting threads, timeouts race with signals, and the kernel lock is
  itself built from a condition variable;
- **halting cores**: a core that finds nothing to do halts, without a lock that
  would exclude new work at that moment;
- **interrupts at any instruction**: a signal is queued only once, handlers nest
  and yield, and masks, flags and timers are restored by other frames than those
  that changed them;
- **preemption at any instruction**: what a thread reads of its core may be
  about another core when it is used, and a lock may be held by a thread that
  nobody schedules;
- **the end of processes**: exits of parents, children and of init in any
  order, with waits in progress, orphans and reuse of pids;
- **sharing of streams** between processes that copy, close and use them;
- **interrupts that miss their reader**: the serial driver, the PIC and the
  terminal each keep a flag about the other that may be out of date;
- **the end of the machine**: cores, timers and the PIC stop in any order, and
  the next machine is booted in the same process;
- **programs**, whose tests see one order of events out of many;
- **what a test leaves behind** for the next one: bytes, alarms, signals,
  processes.

`PROJECT.json` lists these hazards at their lines, and the properties aimed at
each of them.

## 2. The modules

| Module | Models |
|---|---|
| `RList` | the resident lists of `util.h` as sequences |
| `RingOps`, `Rings` | the same lists as nodes with pointers: the operations, and a program that uses them in any way |
| `Exceptions` | the exceptions of `util.h` and `util.c` |
| `Scheduler` | `kernel_sched.c`, with halting and restarting of cores from `bios.c` |
| `ThreadService` | what the scheduler promises: threads that are blocked, runnable or executed |
| `KernelCC` | `kernel_cc.c` and the system call wrapper of `kernel_sys.c` |
| `KernelMonitor` | what the kernel lock promises: a monitor with conditions |
| `Streams` | `kernel_streams.c`, and what `Exec` and `Exit` do to the file id tables |
| `Process` | `kernel_proc.c`, composed with an instance of `Streams` |
| `Preemption` | `set_core_preemption`, `Mutex_Lock` in both its modes and `CURTHREAD`, instruction by instruction |
| `Interrupts` | raising, masking, dispatching, timers and halting in `bios.c` |
| `Serial` | a serial port: driver, device, PIC, terminal |
| `Machine` | `vm_boot` and the boot of the kernel, shutdown, and boot again |
| `Programs` | user programs on `Process` and `Streams`: calls with their results, terminals, mutexes and conditions |
| `Validate`, `Symposium`, `Shell` | the tests of `validate_api.c`, the philosophers, and the shell, as such programs |
| `UnitTesting` | `unit_testing.c` |
| `TestUtil` | `test_util.c`: `UnitTesting` composed with `Rings` and `Exceptions` |
| `ListLemmas` | lemmas about lists, as sequences and as rings |
| `Cores`, `Fifos` | what `Preemption` and `Machine` share, the cores, and what `Serial` and `UnitTesting` share, the two FIFOs of a terminal |
| `SchedulerProofs`, `KernelCCProofs`, `StreamsProofs`, `ProcessProofs`, `InterruptsProofs` | proofs about the module of that name |
| `CoreProofs` | proofs about `Preemption` and `Machine` |
| `TerminalProofs` | proofs about `Serial`, `UnitTesting` and `TestUtil` |
| `MCCores` | `Preemption` and `Machine` in one run: a behaviour is about one of them |
| `MCKernelCC`, `MCProcess`, `MCPrograms`, `MCUnitTesting` | symmetry sets, bounds and programs for TLC |

The levels rest on one another through what is atomic: `Scheduler` takes the
critical sections of `sched_spinlock` as steps, and shows that `wakeup` and
`sleep_releasing` behave as atomic operations on a thread (`ThreadService`).
`KernelCC` uses them so, and shows that the kernel lock is a monitor
(`KernelMonitor`). `Process` and `Streams` use it so: a step is a system call,
or the part of one between two waits.
`Preemption` and `Interrupts` look below `Scheduler`, at what it takes for
granted: that a critical section is not interrupted, that `CURTHREAD` is the
caller, and that an ALARM reaches its core. `Serial` uses the kernel lock as the
monitor of `KernelCC`, and `Programs` takes all of this for granted: a program
sees processes, streams and conditions only. `Machine` and `UnitTesting` look
at the whole from outside.

### Scheduler

State: the fields `state`, `phase`, `wakeup_time`, `prev` of the TCBs, the two
lists, `sched_spinlock`, `current` (CURTHREAD of each core), `active_threads`,
`halted_list` and the clock. `pc` says where a core is, e.g. inside `yield`
before the lock, inside `sched_queue_select` with the lock, or after the switch
of contexts and before `gain`. Every action bears the name of its function; the
loop over the timeout list is one step per iteration, with the lock held
(`sched_wakeup_expired`), and `sched_queue_select` goes on to the end of
`yield`. An ALARM (`yield_handler`) may hit any point with interrupts enabled,
also in the idle thread, which resumes there (`idle_pc`). A TCB block may be
freed and allocated again. The `SCHED_CAUSE` argument has no effect in the code
and is left out. `halted_list` also stands for the flag `core->halted`, since
both change together under `core_halt_mutex`.

### KernelCC

State: the kernel mutex, the semaphore counter, ring and lock of each condition
variable, and for each thread where it is (`pc`), its waiter (`removed`,
`signalled`, `cv`, `timed`) and the signal it is executing. A step reaches from
one acquisition of a mutex to the next. `kernel_wait`, `kernel_unlock` and
`kernel_sleep` share their beginning, `kernel_release`. User threads and
interrupt handlers signal without the kernel lock (`Cond_Signal`).
A thread that has been awakened is `RUNNING` here; `Scheduler` knows better.

### Streams and Process

`Streams` keeps the file id tables, counters, stream objects and the free list,
and `used`, the block that a process is using inside a driver. `Process` keeps
the process table and tree; `pc` tells which call a process waits in, `asleep`
whether it sleeps on `child_exit`. The list of children is a set, since the code
only tests it for emptiness and removes from it; the list of exited children is
a sequence, since its head is the next child that `WaitChild` returns. The free
list of PCBs, linked through `parent` in the code, is a sequence of its own.
`live` of `Streams` is the set of ALIVE processes with a thread. Exit values,
arguments and bytes transferred are left out, and so are calls that fail
without changing anything. Programs pass a task to `Exec`: a process without a
thread, as the boot code creates with `Exec(NULL, 0, NULL)`, would never exit.

### Preemption

The scheduler again, without timeouts and halting, at a finer grain: an ALARM
(`yield_handler`) or an interrupt of the serial ports (`serial_rx_handler`) may
come between the two reads of `CURTHREAD`, after `curr_core()` in
`cpu_disable_interrupts`, or while a thread holds a Mutex. State of a core: its
current thread, its `preemption` flag, `int_disabled`, its signal mask, and where
it is in `yield`, `gain` or a handler (`mode`). State of a thread: where it is
(`pc`), and the local variables that outlive a preemption: the core it has read,
the `tcb` of `sleep_releasing`, the argument of `wakeup`, and what `preempt_off`
has returned to it (`oldpre`), to `yield` and to a handler (`preempt`).

Threads execute system calls, `Call` says which: `kernel_lock`, the call, and
`kernel_unlock`, with the semaphore and its condition variable. `Exec` counts a
new thread under `active_threads_spinlock` and wakes it up, `Exit` ends in
`kernel_sleep`, and `Read` enters `serial_read`, which turns preemption off and
calls `kernel_wait`. So `sleep_releasing` and `wakeup` are called with preemption
on and with preemption off (`driver`), and `serial_rx_handler` calls `wakeup`
with preemption off. The `waitset_lock` of the condition variables is left out:
`KernelCC` has it. `cv_wait` also evaluates `CURTHREAD`, for its waiter, with
the same window as `sleep_releasing`; here a waiter is always the caller.

### Interrupts

A core is a stack of frames, the calls that it has not finished; signals and
handlers push frames, and what is below goes on when they return. `blocked` and
`usr1` are the mask and the queue of the host thread, `intpending`,
`int_disabled` and `halted` the fields of `Core`. The PIC raises one interrupt at
a time, in three steps, interleaved with the core. `usr1` is a flag, since
the host queues a standard signal once, however often it is sent. Which thread the core
executes is left out, so the frames of a thread that yields stay on its core. A
section with interrupts disabled may call `yield`, as `sleep_releasing` does
(frame `sleep`): then `gain` leaves them disabled, and the section enables them.

### Serial

The keyboard and console FIFOs of one port hold at most `Capacity` bytes. The
bytes that the user types are numbered; a byte that is written carries its
writer, the call and its place in the buffer, so that one can see where it came
from. `ready` are the flags of `io_device`, which `select` leaves out;
`overdue` stands for `last_int` and SERIAL_TIMEOUT. `PIC_select` and
`PIC_process` are two steps, since the drivers go on in between; so are the
failed `read` and the clearing of the flag in `bios_read_serial`, and that and
`kernel_wait`, which are the windows in which an interrupt misses the reader.
`io_loop` is a round of `terminal.c`, with the files it has found ready and
polls no more in `flipped`. The FIFOs are those of `Fifos`: here the driver and
`terminal.c` are at their ends, in `UnitTesting` a test and the two daemons.

### Machine

The thread that calls `vm_boot` and becomes the PIC, and the core threads, from
barrier to barrier. SIGUSR1 for the PIC are counted (up to `MaxUsr1`), timers
and SIGALRM are kept per core. What happens in `run_scheduler` is reduced to
setting timers, interrupting others and returning.

### Programs, Validate, Symposium, Shell

A program is a record of parts, a part a sequence of calls with what the program
asserts of their results; a process executes a part. The steps of a call are
those of `Process` and `Streams`, and the results that these modules leave out
are added: errors of `WaitChild`, `Dup2`, `Close` and `Read`, exit values, the
bytes of the terminals, of which `serial_read` returns what there is. Mutexes and
conditions are those of a monitor. The calls of `kernel_threads.c` and
`kernel_socket.c` return their error. All processes and streams, also the boot
task, are in the state that `Process` starts with.

`Validate` has 29 programs, three of them for the groups `test_listen_fails_*`,
`test_accept_fails_*` and `test_connect_fails_*`. Left out are:
`test_pid_of_init_is_one`, `test_get_terminals` and `test_open_terminals`, which
change nothing or are part of others; `test_exec_copies_arguments` (arguments);
`test_main_return_returns_status` and `test_write_error_on_bad_fid`, which
differ from a modelled test in the name of the call; `test_multitask` and
`test_preemption`, which are about time; and the tests of threads, pipes and
sockets that ask for more than an error, as the code has stubs.

`Symposium` adds the monitor of the philosophers. In `Shell` a command line is
one word, and what is typed is fixed, so that the loop of the shell can be
written out.

### UnitTesting and TestUtil

The framework, the process of a test and the two daemons of its terminal are
separate actors; a test may write anything, fail, hang or crash. It announces a
text to the console daemon (`expect`) and one to the keyboard daemon (`sendme`),
separately, and at most one to each; both are `Message`. Without fork, the test
is executed by the framework itself. An empty or illegal list of cores or
terminals ends the framework before the first test (`parse_options`). `TestUtil` lets the tests of lists
and exceptions perform any operation, in any order, on four nodes, and
nested TRY blocks with handlers that raise exceptions. The C stack is a sequence,
and `longjmp` cuts it; `UnwindSound` relates it to the list of exception frames:
the frames point, in this order, at the calls on the stack that execute or leave
a TRY block.

## 3. The runs

| Run | Instance | Shows |
|---|---|---|
| `scheduler` | 2 threads, 2 cores, timeouts 0 and 1, clock up to 1 | the safety properties, the inductive invariant, the refinement of `ThreadService`; every ready thread runs, every timed sleep ends, every core leaves in the end |
| `kernel_cc` | 3 threads, 1 condition | exclusion, rings, no lost signal or free kernel, the refinement of `KernelMonitor` |
| `process` | 5 PCBs (3 besides 0 and init), 2 blocks, 2 file ids, 2 devices; streams are used while at most 3 PCBs are in use | the tree, zombies, waits, init exits last; exact counters and free list; `Process` implements `Streams`; every `WaitChild` returns, init exits |
| `cores` | 3 cores; 2 threads with all calls; 2 boots | preemption is off exactly in critical sections, and `sleep_releasing` stops its caller, as long as no thread uses the number of a core it has left; the order of boot and shutdown, no SIGUSR1 left over, the machine stops |
| `interrupts` | 1 core, RX, TX and ALARM | no interrupt is forgotten, each is handled, a running thread has a timer |
| `serial` | 1 reader, 2 writers, buffers of 2 bytes, FIFOs of 1 | no byte is lost, doubled, displaced or mixed with those of another call; every `Read` with input and every `Write` returns |
| `programs` | 33 programs: 29 tests with N = 2 children and L = 2 levels, 4 philosophers of one bite, and shells on one and two terminals; 7 PCBs, 5 file ids | no assertion fails, all programs end, neighbours do not eat together, shells keep their streams |
| `unit_testing` | 4 tests on machines with 1 and 2 cores, 0 and 1 terminals, FIFOs of 1 byte, messages of 2 and up to 3 bytes written (`MaxWritten`); 4 list nodes; C stacks up to 6 frames | verdicts are right, nothing is left behind, every execution and every daemon ends; lists behave like sequences; exceptions unwind |
| `preemption_moved` | 2 threads, 2 cores, `Exec` and others | violated: `SleeperIsCaller` |
| `preemption_locks` | 2 threads, 1 core, `Exec` and `Read` | violated: `LocksReleased` |
| `machine_killed` | 2 cores, 1 boot | violated: `VmBootReturns` |
| `unit_testing_killed` | 2 tests without terminals | violated: `RunsEnd` |

Why these bounds are enough for the interesting cases. With two cores one
thread can be between two states while the other core wakes it, times it out or
allocates the block of one that has exited; two different timeouts suffice to
insert in the wrong order, and a clock of 1 lets both expire. The safety
properties are proved for any number of threads, cores and timeouts; liveness is
checked on this instance only. Three threads let a timed-out waiter,
a waiter in the ring behind it and a signaller meet. Three processes below init
make an orphan that is a zombie itself, adopted while init waits, with a pid
used again; with six PCBs, without streams, the invariants of the tree hold as
well. Two blocks are fewer than the file ids of the processes that share
them, and let the free list run empty. In `cores`, three cores and
two threads let a thread go on on another core in every way while interrupts
hit the old and the new one. In `interrupts`, `MaxDepth` is
the number of frames up to which interrupts are raised: with 3 a handler that
yields can be interrupted by another one that yields or broadcasts. In `serial`
a FIFO of one byte is full or empty at every step, and buffers of two bytes make
calls fail at once and halfway; with two readers and one writer the properties
hold as well. Three cores let one arrive at a barrier first and one last, and two
boots show what the first leaves to the second. Four philosophers have a
neighbour on each side and one opposite, who eats at the same time; with process
0, the boot task and the symposium they need seven PCBs. A symposium that waits
once less than it has philosophers violates `SymposiumSafe` there. Two
processes of each kind meet in every order in the tests. Four nodes make lists
of up to three nodes, and two lists at a time; six frames hold a handler that raises
an exception within the handler of another.

Deadlock is checked except where the system may stop: in `kernel_cc`, where all
threads may have exited or may wait for a signal that no program sends, in
`cores` after the last boot and where locks meet as described below, in
`programs` after the last exit, and in `unit_testing` after the last test.

Fairness:

- `Scheduler`: a core that can go on does (weak fairness of its own steps). A
  core that spins on `sched_spinlock` gets it when it is free again and again
  (strong fairness of `yield` and `gain`), which is what a spinlock relies on.
  `gain` arms the timer, so a running thread is preempted and a halted core
  restarted in the end; ALARMs are a QUANTUM apart, so the idle thread gets its
  few instructions done between two of them (strong fairness of its steps).
  That the ALARM restarts a halted core assumes that it is not raised in the
  few instructions between the blocking of SIGUSR1 and `core->halted = 1` in
  `cpu_core_halt`; `Interrupts` states the same assumption (`AlarmTimely`).
- `Interrupts`: cores and the PIC go on, timers expire, and the PIC raises the
  ALARM of an expired timer. With `AlarmTimely` no ALARM comes within the few
  instructions that follow `timer_settime` in `bios_set_timer`, nor in those of
  `cpu_core_halt`: the timer is armed with a whole QUANTUM there. The run
  `interrupts` relies on this.
- `Preemption`: a core goes on, an ALARM is delivered while interrupts are
  enabled again and again, and a thread that gets its core again and again takes
  its next step (ALARMs are a QUANTUM apart).
- `KernelCC` has no fairness. Its waits are built on spinlocks that a signalling
  thread may take again and again, so that every acquisition would need strong
  fairness; `FreeKernelNoticed` says in safety terms that a free kernel does not
  go unnoticed.
- `Process`: a thread that was awakened goes on; a program that returns to user
  level again and again exits some day, which is asked of the programs.
  `InitExits` also asks that they stop creating processes.
- `Serial`: driver, PIC and terminal go on, and a device without an interrupt
  becomes overdue: the clock advances. A thread gets the kernel when it is free
  again and again. Nothing is asked of the user, who may stop typing, or of the
  programs.
- `Machine`: the PIC and the cores go on, and all programs end some day. Timers
  and interrupts are not asked for.
- `Programs`: some step is taken as long as one is possible. Programs have no
  loops that go on by themselves, so that this is enough; `TestsEnd` then says
  that they cannot get stuck.
- `UnitTesting`: the framework, the daemons and the end of a test go on and the
  alarm expires; of the test itself nothing is asked, as it may hang.

### What the violated properties show

- `preemption_moved`: `sleep_releasing` evaluates `CURTHREAD` with preemption on.
  The macro reads `cpu_core_id`, and then `cctx[...].current_thread`. If an ALARM
  comes in between and the thread goes on on another core, it stops the thread
  that now runs on its old core, and does not sleep itself. `kernel_sched.h:194`
  says "This call will block the current thread". Likewise
  `cpu_disable_interrupts` finds its core before interrupts are off, and can mark
  the one that the thread has left. `SteadySpec`, the specification of the run
  `cores`, excludes just these steps.
- `preemption_locks`: a system call locks `kernel_mutex` with preemption on, but
  `serial_read` calls `kernel_wait`, and so `Mutex_Lock(&kernel_mutex)`, with
  preemption off. If the holder is preempted and the reader gets the core, it
  spins for ever, though `kernel_cc.c:29` says of `Mutex_Lock` that "we can call
  the same function from both the preemptive and the non-preemptive domain of
  the kernel". Two cores have the same problem with `active_threads_spinlock`
  (`Core = {c1, c2}`, `Call = {"Exec", "Exit"}`): one core releases the TCB of an
  exited thread, with `sched_spinlock` held, and spins on it; the other has
  interrupted the holder, which has taken the kernel meanwhile, in `spawn_thread`,
  and its `yield` waits for `sched_spinlock`. Without such a mixture the locks are
  released: `LocksReleased` holds on one core for
  `Call = {"Exec", "Exit", "other"}`.
- `machine_killed`: a timer that expires just before its core cancels it leaves a
  SIGALRM pending; if the loop of the PIC ends before it reads the signal, its
  default action kills the process when `PIC_daemon` restores the mask
  (`bios.c:620`), and `vm_boot` does not return as `bios.h:148` says. SIGUSR1 is
  drained before (`Usr1Blocked`), SIGALRM is not. `MachineStops` says what holds:
  all cores come to their end.
- `unit_testing_killed`: an alarm that expires when the test has just ended, before
  `alarm(0)`, leaves SIGALRM pending though `sigwait` has returned SIGCHLD, and
  kills the framework when `execute_fork` restores the mask (`unit_testing.c:526`).
  Line 508 says "If SIGCHLD arrives first, all is ok". `ExecutionsEnd` says what
  holds: the process of a test ends and has been waited for.

### Other disagreements between code and comments

They are in the models, where their properties allow for them, but not worth a
run of their own:

- `cpu_core_halt` (`bios.c:740`): an interrupt that is raised after it has blocked
  SIGUSR1 and before it sets `core->halted` finds no core to restart. The core
  halts with the interrupt pending, though `bios.h:235` says that it blocks
  "until an interrupt arrives for the core"; the ALARM rescues it, unless it came
  in the same window (set `AlarmTimely = FALSE`, and the run `interrupts` fails).
- `con_proc` (`unit_testing.c:346`): the daemon polls without success, then the test
  writes its last bytes and ends, and `complete` is set; the daemon reports a
  mismatch without reading them, though its comment says that it returns when
  "there is no available input". A test that has passed is then reported as
  failed; `OkMeansPassed` is about the other direction. What a test writes after
  the text it announced is not looked at either, so a test that writes too much is ok.
- `parse_int_list` (`unit_testing.c:869`) looks for duplicates in the old list:
  duplicates are stored, and of `--term=1,0` the 0 is dropped, because the unused
  elements of the old list are 0.
- `rlist_pop_back` (`util.h:449`) empties a list of two or more nodes, where its
  comment says that it will "remove the tail of the list". The kernel does not use
  it, and `test_list_queue` does not notice, since its loop ends then.
  `ListStep` has no clause for it but that the pointers stay consistent.
- `exception_unwind` (`util.c:42`): if the last ON_ERROR block raises an exception
  itself, the unwinding starts again without knowing that a block was executed,
  and passes the exception on.
- `dispatch_interrupts` (`bios.c:262`) keeps its core across handlers that yield, so
  the thread may go on with it from another core. Nothing is lost: a flag is cleared
  before its handler is called, and the handlers of the kernel work on any core.

Each property of the other runs has a mutant: a changed definition, next to the original in its
module, with which TLC finds the property violated.

## 4. The proofs

Every theorem is about the specification of its module, needs nothing of its
fairness, and holds for all values of the constants that the named assumption of
the module allows:

| Theorem | States | For any |
|---|---|---|
| `SchedulerCorrect`, `SchedulerSafe`, `ShutdownCorrect` | `SchedulerInv`, `SchedulerSafety`, `ShutdownSound` | finite set of threads, cores, timeouts |
| `NobodyOversleeps` | `SelectWakesExpired`, an action property | same |
| `SchedulerServes` | `Scheduler` implements `ThreadService` | same |
| `KernelCorrect`, `KernelSafe` | `KernelInv`, `KernelSafety` | threads, conditions |
| `SignalsCount` | `SignalNotSwallowed`, an action property | same |
| `KernelIsMonitor` | `KernelCC` implements `KernelMonitor` | same |
| `StreamsCorrect` | `StreamsInv` of `Streams` | processes, file ids, finite set of blocks |
| `ProcessCorrect`, `TreeCorrect`, `CallsCorrect`, `NoLostExit` | `ProcessInv`, `TreeInv`, `CallsSound`, `SleepersWait` | `MAX_PROC` from 2 on |
| `StreamsImplemented` | `Process` implements `Streams` | same, with any file ids and blocks |
| `FilesCorrect`, `DevicesStay` | `StreamsSound`, `StreamStable` | same |
| `InterruptsCorrect` | `InterruptsInv` | cores, interrupts, depth of nesting |
| `PreemptionTypes` | `TypeOK` and `LocalsFit` of `Preemption` | threads, cores |
| `PreemptionCorrect` | `PreemptionInv`, under `SteadySpec` | threads, cores |
| `SerialCorrect`, `TerminalIsExact` | `SerialInv`, `TerminalExact` | readers, writers, sizes of buffers and FIFOs |
| `VerdictsReliable`, `NothingLeft` | `OkMeansPassed`, `CleanBetween` | tests, lists of cores and terminals, messages, sizes of FIFOs |
| `FramesSound` | `ExceptionsSound` | depth of the stack, blocks per frame |
| `MachineCorrect`, `BootOrdered`, `SignalsBlocked` | `MachineInv`, `BootOrder`, `Usr1Blocked` | finite set of cores, boots |
| `ListsStayLinked`, `RemovedIsAlone` | what the list operations do to pointers | nodes, linked in any way |

The safety properties are seldom inductive. The strengthening is defined next to
them, or where the proof is (`CoreProofs`, `TerminalProofs`), TLC has checked it on
the instance of the run, and the proof goes through the actions, with a step for
each conjunct that the action can disturb.

- **Scheduler.** `SchedulerInv` adds what a core knows of its current thread at
  each point (`CoreInv`), that `sched_spinlock` is held exactly by a core inside
  `sched_queue_select` (`LockInv`), and that a thread is dirty exactly when some
  core is on its stack, and on a core when it is running or exited
  (`ThreadInv`). With it, the phase test in `sched_make_ready` is precisely what
  decides between "the queue will have it" and "its core will look at it".
  `TimeoutsSorted` is an invariant of its own: inserting into and removing from
  the timeout list keeps its order, and then the loop that stops at the first
  timeout in the future has missed nobody. `active_threads` is exact because a
  thread changes from existing to not existing only where it is counted; with it
  a core that leaves has seen the last exit. In the refinement a thread that is
  on its way to sleep is already blocked, and one that was awakened while dirty
  is runnable before it is in any list.
- **KernelCC.** `KernelInv` adds who holds `kernel_mutex` and the ring of a
  condition at which point (`LocksInv`), and which arguments are valid where
  (`ThreadInv`); these give mutual exclusion of the steps that change a ring, so
  that a waiter is in the ring exactly while it is on the stack of `cv_wait`.
  A thread that has joined the ring of the semaphore and is about to sleep must
  already count as a waiter (`NoticeInv`), which holds because the test of the
  semaphore and joining the ring are in one critical section of `kernel_mutex`.
  In the refinement a thread owns the kernel until it unlocks `kernel_mutex`,
  although it has given back the semaphore before; that nobody else gets the
  kernel in between is `HandOverInv`, so that releasing the kernel and becoming
  a waiter are one step of the monitor.
- **Streams and Process.** The counter of a block is the number of file ids and
  calls that name it. A step changes one entry of one table at a time, so that
  the set counted gains or loses one element; the cardinalities come from
  `FiniteSetTheorems`. `Exec`, which copies a whole table, and `Exit`, which
  clears one, gain or lose as many as the table has entries for the block.
  `ProcessInv` is `TreeInv` with `CallsSound` and `SleepersWait`: that no exit is
  missed rests on the child still being one, and this on the tree. `Acyclic` is
  stated over sets of processes, so that it needs no induction. The invariants of
  streams are not proved again for processes: each step of `Process` is shown to
  be a step of `Streams` or a stutter, and `StreamsSound` follows from
  `StreamsCorrect`.
- **Interrupts.** Interrupts are disabled only below a frame that is going to
  enable them (`MaskInv`): so a signal that finds them disabled may be
  dropped. The timer runs unless it has expired or a frame is going to set it
  (`QuantumInv`); an ALARM is dropped by `clear_alarm` only above
  `preempt_off`, which is such a frame, or while the timer runs. The lemmas
  `PushFrame` and `TopFrame` reduce a stack to its top and what is below, so that
  nesting of any depth needs no induction. Without `AlarmTimely` the theorem still
  says that no interrupt is forgotten.
- **Serial.** The driver is executed by the thread that holds the kernel
  (`DriverInv`). The bytes of a call come after the call, and the last byte of a call
  that is not finished is the last byte of all (`OutputInv`): this is where the
  kernel lock matters, as `serial_write` keeps it while it polls. The input is
  exact because the terminal, the FIFO and the reader only move the head of one
  sequence to the end of another (`ConcatMove`, `ConcatAppend`).
- **Preemption.** `PreemptionInv` says what the flags of a core are while a thread
  runs (`PreemptionFits`); to be inductive it must also say what they are inside
  `yield`, `gain` and a handler, that a thread which does not run has saved in
  `preempt` what it will find again, and that a function which turned preemption
  off knows whether it was on in its caller, which it is except in `serial_read`
  (`SavedFits`). A thread is on one core or in the queue (`PlaceFits`), so that what
  it finds on a new core is what `gain` has left there. That `sleep_releasing` stops
  its caller (`SleeperIsCaller`) rests on `TcbFits`, from the evaluation of
  `CURTHREAD` on, and `LocalsFit` says where local variables have been set. The
  theorem is about `SteadySpec`: a thread that has read the number of its core uses
  it on that core. The code does not see to this, and `preemption_moved` shows what
  happens otherwise; all else, any number of cores and any moves of threads
  between them, is allowed. `PreemptionTypes` needs no such assumption.
- **UnitTesting.** `UnitTestingInv` has a part for each actor. `FrameworkFits`: an
  alarm, a signal or a status exists only in certain phases of `execute`.
  `DaemonsFit`: the daemons exist exactly while the test's process has its terminal,
  and end only when told so, in the order in which `term_proxy_close` joins them.
  `AnnouncedFits`: a message that was announced is with its daemon once, waiting, being worked
  on or done. `ContentsFit`, unless FLAG_FAILURE is set: what was written is what has
  been compared followed by what is still in the FIFO, and the message is the same
  followed by what the daemon still expects (`Comparing`). When the daemon ends there is
  nothing left to expect, so what was written is the message and whatever is still in
  the FIFO, which `con_proc` never looks at. That FIFOs are drained in `open_fifo` is needed at
  just one place, the first step of a test's process.
- **Exceptions.** `UnwindSound` with the types of the two stacks is inductive
  (`Sound`): the innermost frame belongs to the topmost TRY block (`SoundTop`), so a
  `longjmp` cuts the stack just there (`SoundJump`), also when an exception is passed
  on while the frame that was left is still on the stack. Each operation on the
  stack is a lemma about any stack and any frames, so that nesting of any depth
  needs no induction.
- **Machine.** `BarrierInv` says how far the PIC and the cores can be apart
  between two barriers, for all of them at once.
- **Lists.** `prev` is the inverse of `next` (`Linked`). It is enough to show that
  `rl_splice` keeps this, applied to any two nodes, equal, neighbours, in one ring
  or in two (`SpliceLinked`). `ListLemmas` also has the facts about `Append`,
  `Tail`, `InsertAt` and `rlist_remove` on sequences that the other proofs cite.

The assumptions are on constants only: that sets of names are disjoint, that what
is counted is finite, and that sizes are numbers; `MAX_PROC >= 2` since there is
process 0 and init, and a message of a test is not empty, as `expect` and `sendme`
are called with text. `StreamsCorrect` takes `StreamsAssumption` as its hypothesis,
and `ProcessProofs` shows it for the instance that `Process` uses.

Only model-checked:

- liveness: the provers know neither fairness nor ENABLED;
- what list operations do to sequences (`ListsBehave`), which needs induction over
  the length of a ring, with `rlist_reverse` and `rlist_select`, which are loops;
- `TestsPass`, `SymposiumSafe` and `ShellKeepsStreams`, which are about particular
  programs that an instance fixes: what they claim is an outcome of the calls
  of these programs, one after the other, and not of the kernel in general.

## 5. What is not modelled, and what could be added

Not modelled:

- the packing of arguments (`argvpack` and the like) and the stdio streams of
  `tinyoslib.c`: pure functions on bytes and callbacks of the C library, without
  state that anybody shares;
- contexts and their switch (`cpu_swap_context`): assembly of the host's library;
- the queries of `util.h` on lists, the checking macros, the drawing of the
  philosophers, the programs of the shell that only compute and print, prompts,
  messages and reports: they change nothing;
- `Pipe`, `ShutDown`, `ThreadDetach`, `ThreadExit`, and what threads, pipes and
  sockets should do: this commit has stubs;
- timeouts with the width of `TimerDuration`: 64 bits of microseconds do not wrap
  around;
- the examples and `console.c`, which the kernel does not use.

What could be added: a reference definition of lists without recursion, so that
`ListsBehave` comes into the reach of the provers; and the behaviour of pipes,
sockets and threads, once the repository has more than stubs for them.
