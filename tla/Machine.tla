------------------------------ MODULE Machine ------------------------------
(***************************************************************************)
(* The life of the virtual machine: vm_boot() of bios.c starts a thread    *)
(* for each core and becomes the PIC daemon; the cores boot the kernel     *)
(* (kernel_init.c), run the scheduler, and stop the PIC when it is over.   *)
(* The machine may be booted again, as the unit tests do.                  *)
(*                                                                         *)
(* What the cores do inside run_scheduler() is the subject of other        *)
(* modules; here they set timers, interrupt each other and the PIC, and    *)
(* leave it some day.                                                      *)
(***************************************************************************)
EXTENDS Integers, FiniteSets, Cores

CONSTANTS
  core0,         \* the core with id 0
  MaxBoots,      \* how many times the machine is booted
  MaxUsr1        \* bound of the signals that wait for the PIC

ASSUME MachineAssumption ==
  /\ core0 \in Core /\ IsFiniteSet(Core)
  /\ MaxBoots \in Nat /\ MaxUsr1 \in Nat

VARIABLES
  pic,          \* what the thread that called vm_boot() is doing
  cpu,          \* what each core thread is doing
  PIC_active,
  initialized,  \* have the data structures of the kernel been initialized?
  usr1,         \* SIGUSR1 signals pending for the PIC
  irq,          \* the cores with an interrupt pending
  timer,        \* the cores whose timer is set
  alarm,        \* the cores whose SIGALRM is pending
  boots

mvars == <<pic, cpu, PIC_active, initialized, usr1, irq, timer, alarm, boots>>

(***************************************************************************)
(* Control points of the PIC:                                              *)
(*   off     vm_boot() has not been called, or has returned                *)
(*   create  creates the core threads     open  opens terminals and sets   *)
(*   system1, system2  at system_barrier        its signal mask            *)
(*   loop    tests PIC_active             select  waits and raises         *)
(*   drain   drains sigusr1fd             restore  restores its mask       *)
(*   join    joins the cores              killed  the process is dead      *)
(* and of a core:                                                          *)
(*   none    there is no thread           start  before system_barrier     *)
(*   system1, system2  at system_barrier  core1, core2  at core_barrier    *)
(*   boot    in boot_tinyos_kernel()      run    in run_scheduler()        *)
(*   reset   resets handlers and timer    stop   stops the PIC, if core 0  *)
(*   exited                                                                *)
(***************************************************************************)
MachineTypeOK ==
  /\ pic \in {"off", "create", "open", "system1", "loop", "select", "system2", "drain",
              "restore", "join", "killed"}
  /\ cpu \in [Core -> {"none", "start", "system1", "boot", "core1", "run", "reset", "core2",
                       "stop", "system2", "exited"}]
  /\ PIC_active \in BOOLEAN /\ initialized \in BOOLEAN
  /\ usr1 \in 0 .. MaxUsr1 /\ boots \in 0 .. MaxBoots
  /\ irq \subseteq Core /\ timer \subseteq Core /\ alarm \subseteq Core

MachineInit ==
  /\ pic = "off"
  /\ cpu = [c \in Core |-> "none"]
  /\ PIC_active = FALSE /\ initialized = FALSE
  /\ usr1 = 0 /\ irq = {} /\ timer = {} /\ alarm = {}
  /\ boots = 0

Goto(c, from, to) == cpu[c] = from /\ cpu' = [cpu EXCEPT ![c] = to]

PIC_goto(from, to) == pic = from /\ pic' = to

----------------------------------------------------------------------------
\* vm_boot(), up to the loop.
vm_boot ==
  /\ boots < MaxBoots
  /\ PIC_goto("off", "create")
  /\ boots' = boots + 1
  /\ PIC_active' = TRUE
  /\ cpu' = [c \in Core |-> "none"]
  /\ initialized' = FALSE
  /\ UNCHANGED <<usr1, irq, timer, alarm>>

\* The loop of vm_boot(): a core starts before all have been created.
create(c) ==
  /\ pic = "create"
  /\ Goto(c, "none", "start")
  /\ pic' = IF \A d \in Core \ {c} : cpu[d] # "none" THEN "open" ELSE "create"
  /\ UNCHANGED <<PIC_active, initialized, usr1, irq, timer, alarm, boots>>

PIC_start ==
  /\ PIC_goto("open", "system1")
  /\ UNCHANGED <<cpu, PIC_active, initialized, usr1, irq, timer, alarm, boots>>

\* The beginning of bootfunc_wrapper(); pending interrupts are forgotten.
bootfunc_start(c) ==
  /\ Goto(c, "start", "system1")
  /\ irq' = irq \ {c}
  /\ UNCHANGED <<pic, PIC_active, initialized, usr1, timer, alarm, boots>>

\* pthread_barrier_wait(&system_barrier) lets everybody go when all are there.
system_barrier(from, to, core_to) ==
  /\ PIC_goto(from, to)
  /\ \A c \in Core : cpu[c] = from
  /\ cpu' = [c \in Core |-> core_to]
  /\ UNCHANGED <<PIC_active, initialized, usr1, irq, timer, alarm, boots>>

core_barrier(from, to) ==
  /\ \A c \in Core : cpu[c] = from
  /\ cpu' = [c \in Core |-> to]
  /\ UNCHANGED <<pic, PIC_active, initialized, usr1, irq, timer, alarm, boots>>

\* Mutant: the cores do not wait for core 0.
boot_barrier_skipped == "run"

boot_barrier == "core1"

\* boot_tinyos_kernel(): core 0 initializes the kernel and executes the boot
\* task, all go to cpu_core_barrier_sync().
boot_tinyos_kernel(c) ==
  /\ Goto(c, "boot", boot_barrier)
  /\ initialized' = (initialized \/ c = core0)
  /\ UNCHANGED <<pic, PIC_active, usr1, irq, timer, alarm, boots>>

----------------------------------------------------------------------------
\* Inside run_scheduler().
bios_set_timer(c) ==
  /\ cpu[c] = "run"
  /\ timer' = timer \cup {c}
  /\ UNCHANGED <<pic, cpu, PIC_active, initialized, usr1, irq, alarm, boots>>

\* A timer expires: SIGALRM for the process, which only the PIC reads.
expire(c) ==
  /\ c \in timer
  /\ timer' = timer \ {c}
  /\ alarm' = alarm \cup {c}
  /\ UNCHANGED <<pic, cpu, PIC_active, initialized, usr1, irq, boots>>

\* A transfer fails, and the driver makes the PIC look at its devices.
interrupt_pic_thread(c) ==
  /\ cpu[c] = "run" /\ usr1 < MaxUsr1
  /\ usr1' = usr1 + 1
  /\ UNCHANGED <<pic, cpu, PIC_active, initialized, irq, timer, alarm, boots>>

cpu_ici(c, d) ==
  /\ cpu[c] = "run"
  /\ irq' = irq \cup {d}
  /\ UNCHANGED <<pic, cpu, PIC_active, initialized, usr1, timer, alarm, boots>>

\* sigusr1_handler() of a core, which takes all its interrupts.
dispatch_interrupts(c) ==
  /\ c \in irq /\ cpu[c] \notin {"none", "start", "exited"}
  /\ irq' = irq \ {c}
  /\ UNCHANGED <<pic, cpu, PIC_active, initialized, usr1, timer, alarm, boots>>

\* The idle thread cancels the timer, and leaves the scheduler.
run_scheduler_returns(c) ==
  /\ Goto(c, "run", "reset")
  /\ timer' = timer \ {c}
  /\ UNCHANGED <<pic, PIC_active, initialized, usr1, irq, alarm, boots>>

\* Handlers are reset; timer_delete() says nothing about a pending SIGALRM.
bootfunc_reset(c) ==
  /\ Goto(c, "reset", "core2")
  /\ timer' = timer \ {c}
  /\ alarm' \in {alarm, alarm \ {c}}
  /\ UNCHANGED <<pic, PIC_active, initialized, usr1, irq, boots>>

\* Mutants: core 0 does not stop the PIC; the cores do not wait for the PIC.
stop_PIC_not(c) == UNCHANGED <<PIC_active, usr1>>
last_barrier_skipped == "exited"

\* Core 0 stops the PIC.
stop_PIC(c) ==
  IF c = core0 THEN /\ PIC_active' = FALSE
                    /\ usr1' = IF usr1 < MaxUsr1 THEN usr1 + 1 ELSE usr1
  ELSE UNCHANGED <<PIC_active, usr1>>

last_barrier == "system2"

bootfunc_end(c) ==
  /\ Goto(c, "stop", last_barrier)
  /\ stop_PIC(c)
  /\ UNCHANGED <<pic, initialized, irq, timer, alarm, boots>>

----------------------------------------------------------------------------
\* The condition of the PIC's loop.
PIC_loop ==
  /\ pic = "loop"
  /\ pic' = IF PIC_active THEN "select" ELSE "system2"
  /\ UNCHANGED <<cpu, PIC_active, initialized, usr1, irq, timer, alarm, boots>>

\* The body: raise ALARM for every timer that has expired, discard SIGUSR1,
\* and raise what the devices ask for.
PIC_select ==
  /\ PIC_goto("select", "loop")
  /\ \E serial \in SUBSET Core : irq' = irq \cup alarm \cup serial
  /\ alarm' = {}
  /\ usr1' = 0
  /\ UNCHANGED <<cpu, PIC_active, initialized, timer, boots>>

\* Mutant: the drain comes too early to see every signal.
pic_drain_sigusr1_not == UNCHANGED usr1

pic_drain_sigusr1 == usr1' = 0

\* The rest of PIC_daemon().  With the mask restored, a SIGALRM that nobody
\* has read kills the process.
PIC_end ==
  \/ /\ PIC_goto("drain", "restore")
     /\ pic_drain_sigusr1
     /\ UNCHANGED <<cpu, PIC_active, initialized, irq, timer, alarm, boots>>
  \/ /\ pic = "restore"
     /\ pic' = IF alarm = {} THEN "join" ELSE "killed"
     /\ UNCHANGED <<cpu, PIC_active, initialized, usr1, irq, timer, alarm, boots>>

\* pthread_join(), and vm_boot() returns.
join ==
  /\ PIC_goto("join", "off")
  /\ \A c \in Core : cpu[c] = "exited"
  /\ UNCHANGED <<cpu, PIC_active, initialized, usr1, irq, timer, alarm, boots>>

----------------------------------------------------------------------------
PIC == vm_boot \/ (\E c \in Core : create(c)) \/ PIC_start \/ PIC_loop \/ PIC_select
       \/ PIC_end \/ join

\* The steps that a core takes by itself.
Advance(c) ==
  bootfunc_start(c) \/ boot_tinyos_kernel(c) \/ run_scheduler_returns(c)
  \/ bootfunc_reset(c) \/ bootfunc_end(c)

Barriers ==
  \/ system_barrier("system1", "loop", "boot")
  \/ system_barrier("system2", "drain", "exited")
  \/ core_barrier("core1", "run")
  \/ core_barrier("core2", "stop")

MachineNext ==
  \/ PIC \/ Barriers
  \/ \E c \in Core :
       \/ Advance(c)
       \/ bios_set_timer(c) \/ expire(c) \/ interrupt_pic_thread(c) \/ dispatch_interrupts(c)
       \/ \E d \in Core : cpu_ici(c, d)

MachineSpec == MachineInit /\ [][MachineNext]_mvars

\* The threads run on, and the scheduler comes to its end some day.
MachineFairSpec ==
  MachineSpec /\ WF_mvars(PIC) /\ WF_mvars(Barriers) /\ \A c \in Core : WF_mvars(Advance(c))

----------------------------------------------------------------------------
\* Interrupts are sent to threads that exist: as long as the PIC may raise an
\* interrupt, or a core send one, every core thread has started and none has
\* exited.  pthread_sigqueue() in raise_interrupt() is not defined otherwise.
InterruptsReachThreads ==
  pic \in {"loop", "select"} \/ (\E c \in Core : cpu[c] = "run") =>
    \A c \in Core : cpu[c] \notin {"none", "exited"}

\* A core that runs the scheduler finds the kernel initialized by core 0.
SchedulerAfterBoot == \A c \in Core : cpu[c] = "run" => initialized

\* The barriers of vm_boot() and boot_tinyos_kernel() keep this order.
BootOrder == MachineTypeOK /\ InterruptsReachThreads /\ SchedulerAfterBoot

\* A SIGUSR1 waits for the PIC only while its mask blocks the signal: outside,
\* sigusr1_handler() would take it for an interrupt of core -1.  In particular
\* none is left over for the next boot.
Usr1Blocked ==
  usr1 > 0 => pic \in {"system1", "loop", "select", "system2", "drain"}

(***************************************************************************)
(* What makes these inductive: how far the cores and the PIC can be apart  *)
(* between two barriers, and what core 0 has done by then.                 *)
(***************************************************************************)
CoresIn(S) == \A c \in Core : cpu[c] \in S

BarrierInv ==
  \/ pic = "off" /\ CoresIn({"none", "exited"})
  \/ pic = "create" /\ CoresIn({"none", "start", "system1"})
  \/ pic \in {"open", "system1"} /\ CoresIn({"start", "system1"})
  \/ /\ pic \in {"loop", "select", "system2"}
     /\ \/ CoresIn({"boot", "core1"})
        \/ CoresIn({"run", "reset", "core2"})
        \/ CoresIn({"stop", "system2"})
  \/ pic \in {"drain", "restore", "join", "killed"} /\ CoresIn({"exited"})

\* The inductive invariant of vm_boot() and boot_tinyos_kernel().
MachineInv ==
  /\ MachineTypeOK
  /\ BarrierInv
  /\ cpu[core0] \notin {"none", "start", "system1", "boot"} => initialized
  /\ Usr1Blocked

\* The machine stops when all programs have come to their end: the cores leave
\* the scheduler, the PIC leaves its loop although it may wait for a device,
\* and nobody is left behind at a barrier (bootfunc_wrapper(), PIC_daemon()).
MachineStops == pic = "create" ~> (\A c \in Core : cpu[c] = "exited")

\* vm_boot() returns when all programs have come to their end.
VmBootReturns == pic = "create" ~> pic = "off"
=============================================================================
