---------------------------- MODULE UnitTesting ----------------------------
(***************************************************************************)
(* The test framework of unit_testing.c.  Each test is executed in a       *)
(* process of its own, on a virtual machine for each number of cores and   *)
(* of terminals asked for.  There, two daemons are at the other end of the *)
(* terminal: "con" compares what the test writes with what it has          *)
(* announced by expect(), "kbd" types what it has announced by sendme().   *)
(* The framework waits for the end of the process, or kills it after a     *)
(* timeout.                                                                *)
(*                                                                         *)
(* The virtual machine is reduced to what the test does at the terminal.   *)
(* With --nofork the test is executed by the framework's own process.      *)
(***************************************************************************)
EXTENDS Integers, Sequences, SequencesExt, Fifos

CONSTANTS
  Tests,              \* their name, type, minimum_cores, minimum_terminals
  CoreArg, TermArg,   \* the lists given as --cores and --term
  Message,            \* what a test sends and expects
  Byte,               \* what it may write
  MaxWritten          \* how many of them, a bound of the model

ASSUME UnitTestingAssumption ==
  Message \in Seq(Byte) /\ Message # <<>> /\ MaxWritten \in Nat

VARIABLES
  fork,       \* ARGS.fork
  job,        \* the number of the execution
  at,         \* what the framework is doing
  pending,    \* the signals that wait for it, which it has blocked
  armed,      \* the alarm is set
  signo,      \* what sigwait() has returned
  verdict,    \* of the latest execution
  child,      \* what the test's process, or part, is doing
  status,     \* how it has ended
  FLAG_FAILURE,
  dpc,        \* what each daemon is doing
  pattern,    \* its list of patterns
  left,       \* the rest of the one it works on
  complete,   \* its flag
  oldcomplete,
  written,    \* what the test has written
  asserted,   \* have its own assertions held?
  told        \* the daemons that it has given its message, a bound: once each

framework == <<fork, job, at, pending, armed, signo, verdict>>
daemon == <<dpc, pattern, left, complete, oldcomplete>>
truth == <<written, asserted, told>>
vars == <<framework, child, status, FLAG_FAILURE, con, kbd, daemon, truth>>

Daemon == {"con", "kbd"}

----------------------------------------------------------------------------
\* The numbers in arg, sorted.  What is not stored a second time are the values
\* in the old list, nlist, whose unused elements are 0.
parse_int_list(arg, nlist) ==
  LET old(n) == {IF j \in DOMAIN nlist THEN nlist[j] ELSE 0 : j \in 1 .. n}
      store(args, num) == IF num \in old(Len(args)) THEN args ELSE Append(args, num)
  IN SortSeq(FoldLeft(store, <<>>, arg), <)

core_list == parse_int_list(CoreArg, <<1>>)
term_list == parse_int_list(TermArg, <<0>>)

\* parse_int_list() returns 0 if there is no number or one is out of range, and
\* argp_error() ends the program.
in_range(arg, from, to) == arg # <<>> /\ \A num \in Range(arg) : num \in from .. to
parse_options == in_range(CoreArg, 1, 32) /\ in_range(TermArg, 0, 4)

\* run_test() for each test in turn, and the virtual machines for each.
run_test(test) ==
  IF test.type = "BARE_FUNC" THEN <<test>>
  ELSE FlattenSeq([i \in DOMAIN core_list |->
                     [j \in DOMAIN term_list |->
                        [test EXCEPT !.ncores = core_list[i], !.nterm = term_list[j]]]])

Jobs == FlattenSeq([t \in DOMAIN Tests |-> run_test(Tests[t])])

\* Does the test of this execution use a terminal?
Terminal == Jobs[job].type = "BOOT_FUNC" /\ Jobs[job].nterm > 0

Init ==
  /\ fork \in BOOLEAN
  /\ job = 1 /\ at = IF parse_options THEN "next" ELSE "killed"
  /\ pending = {} /\ armed = FALSE /\ signo = "none"
  /\ verdict = "none"
  /\ child = "none" /\ status = "none" /\ FLAG_FAILURE = FALSE
  /\ con = <<>> /\ kbd = <<>>
  /\ dpc = [d \in Daemon |-> "off"]
  /\ pattern = [d \in Daemon |-> <<>>] /\ left = [d \in Daemon |-> <<>>]
  /\ complete = [d \in Daemon |-> FALSE] /\ oldcomplete = FALSE
  /\ written = <<>> /\ asserted = TRUE /\ told = {}

----------------------------------------------------------------------------
(***************************************************************************)
(* The framework.                                                          *)
(***************************************************************************)
Decide(v) ==
  /\ verdict' = v
  /\ job' = job + 1

\* A test that needs more cores or terminals.
skipped(test) ==
  /\ test.type = "BOOT_FUNC"
  /\ ~(test.ncores >= test.minimum_cores /\ test.nterm >= test.minimum_terminals)

\* run_boot_test() passes over it.
skip ==
  /\ at = "next" /\ job \in DOMAIN Jobs
  /\ skipped(Jobs[job])
  /\ Decide("skipped")
  /\ UNCHANGED <<fork, at, pending, armed, signo, child, status, FLAG_FAILURE, con, kbd,
                 daemon, truth>>

\* execute(): fork() with SIGCHLD blocked, or the call of the test.
execute ==
  /\ at = "next" /\ job \in DOMAIN Jobs
  /\ ~skipped(Jobs[job])
  /\ at' = IF fork THEN "forked" ELSE "nofork"
  /\ child' = "init" /\ status' = "none"
  /\ FLAG_FAILURE' = FALSE
  /\ written' = <<>> /\ asserted' = TRUE /\ told' = {}
  /\ UNCHANGED <<fork, job, pending, armed, signo, verdict, con, kbd, daemon>>

\* SIGALRM is blocked, too, and the alarm is set.
set_alarm ==
  /\ at = "forked"
  /\ at' = "sigwait"
  /\ armed' = TRUE
  /\ UNCHANGED <<fork, job, pending, signo, verdict, child, status, FLAG_FAILURE, con, kbd,
                 daemon, truth>>

expire ==
  /\ armed
  /\ armed' = FALSE
  /\ pending' = pending \cup {"SIGALRM"}
  /\ UNCHANGED <<fork, job, at, signo, verdict, child, status, FLAG_FAILURE, con, kbd,
                 daemon, truth>>

sigwait ==
  /\ at = "sigwait"
  /\ \E s \in pending : signo' = s /\ pending' = pending \ {s}
  /\ at' = "cancel"
  /\ UNCHANGED <<fork, job, armed, verdict, child, status, FLAG_FAILURE, con, kbd, daemon, truth>>

\* Mutant: the alarm stays.
cancel_alarm_not == UNCHANGED armed

\* alarm(0).
cancel_alarm == armed' = FALSE

cancel ==
  /\ at = "cancel"
  /\ cancel_alarm
  /\ at' = IF signo = "SIGALRM" THEN "kill" ELSE "waitpid"
  /\ UNCHANGED <<fork, job, pending, signo, verdict, child, status, FLAG_FAILURE, con, kbd,
                 daemon, truth>>

\* The process ends, with its daemons, and the framework gets SIGCHLD.
Dies(how) ==
  /\ child' = "zombie"
  /\ status' = how
  /\ dpc' = [d \in Daemon |-> "off"]

kill ==
  /\ at = "kill"
  /\ at' = "waitpid"
  /\ IF child = "zombie" THEN UNCHANGED <<child, status, dpc, pending>>
     ELSE Dies("SIGTERM") /\ pending' = pending \cup {"SIGCHLD"}
  /\ UNCHANGED <<fork, job, armed, signo, verdict, FLAG_FAILURE, con, kbd,
                 pattern, left, complete, oldcomplete, truth>>

waitpid ==
  /\ at = "waitpid"
  /\ child = "zombie"
  /\ child' = "none"
  /\ at' = "restore"
  /\ UNCHANGED <<fork, job, pending, armed, signo, verdict, status, FLAG_FAILURE, con, kbd,
                 daemon, truth>>

\* Mutant: the signal mask is not restored.
unblock_not == at' = "next" /\ UNCHANGED pending

\* The signal mask is restored: SIGCHLD is ignored, SIGALRM kills.
unblock ==
  /\ at' = IF "SIGALRM" \in pending THEN "killed" ELSE "next"
  /\ pending' = {}

restore ==
  /\ at = "restore"
  /\ unblock
  /\ Decide(IF status = "129" THEN "ok" ELSE "failed")
  /\ UNCHANGED <<fork, armed, signo, child, status, FLAG_FAILURE, con, kbd, daemon, truth>>

----------------------------------------------------------------------------
(***************************************************************************)
(* The process of the test.                                                *)
(***************************************************************************)

\* Mutant: the FIFOs are not drained.
open_fifo_full == UNCHANGED <<con, kbd>>

open_fifo == con' = <<>> /\ kbd' = <<>>

\* term_proxy_init(): the daemons start.
term_proxy_init ==
  /\ child = "init"
  /\ child' = "boot"
  /\ IF Terminal
     THEN /\ open_fifo
          /\ dpc' = [d \in Daemon |-> "get"]
          /\ pattern' = [d \in Daemon |-> <<>>]
          /\ complete' = [d \in Daemon |-> FALSE]
     ELSE UNCHANGED <<con, kbd, dpc, pattern, complete>>
  /\ UNCHANGED <<framework, status, FLAG_FAILURE, left, oldcomplete, truth>>

\* expect() and sendme().
term_proxy_daemon_add(d) ==
  /\ child = "boot" /\ Terminal /\ d \notin told
  /\ pattern' = [pattern EXCEPT ![d] = Append(@, Message)]
  /\ told' = told \cup {d}
  /\ UNCHANGED <<framework, child, status, FLAG_FAILURE, con, kbd, dpc, left, complete,
                 oldcomplete, written, asserted>>

\* The test writes, reads, asserts.
Write ==
  /\ child = "boot" /\ Terminal
  /\ Len(con) < Capacity /\ Len(written) < MaxWritten
  /\ \E b \in Byte : con' = Append(con, b) /\ written' = Append(written, b)
  /\ UNCHANGED <<framework, child, status, FLAG_FAILURE, kbd, daemon, asserted, told>>

Read ==
  /\ child = "boot" /\ Terminal
  /\ kbd # <<>>
  /\ kbd' = Tail(kbd)
  /\ UNCHANGED <<framework, child, status, FLAG_FAILURE, con, daemon, truth>>

ASSERT ==
  /\ child = "boot"
  /\ asserted' = FALSE /\ FLAG_FAILURE' = TRUE
  /\ UNCHANGED <<framework, child, status, con, kbd, daemon, written, told>>

\* boot() returns, and with it the virtual machine is gone.
boot ==
  /\ child = "boot"
  /\ child' = IF Terminal THEN "close con" ELSE "exit"
  /\ UNCHANGED <<framework, status, FLAG_FAILURE, con, kbd, daemon, truth>>

\* term_proxy_daemon_close(): the flag is set, and the daemon joined.
term_proxy_daemon_close(d) ==
  /\ child = IF d = "con" THEN "close con" ELSE "close kbd"
  /\ child' = IF d = "con" THEN "join con" ELSE "join kbd"
  /\ complete' = [complete EXCEPT ![d] = TRUE]
  /\ UNCHANGED <<framework, status, FLAG_FAILURE, con, kbd, dpc, pattern, left, oldcomplete, truth>>

pthread_join(d) ==
  /\ child = IF d = "con" THEN "join con" ELSE "join kbd"
  /\ dpc[d] = "exited"
  /\ child' = IF d = "con" THEN "close kbd" ELSE "exit"
  /\ UNCHANGED <<framework, status, FLAG_FAILURE, con, kbd, daemon, truth>>

\* The end of the test: a failure is an abort, of the framework if it has not
\* forked.
exit ==
  /\ child = "exit"
  /\ IF fork
     THEN /\ Dies(IF FLAG_FAILURE THEN "SIGABRT" ELSE "129")
          /\ pending' = pending \cup {"SIGCHLD"}
          /\ UNCHANGED <<at, job, verdict>>
     ELSE /\ child' = "none" /\ UNCHANGED <<dpc, pending>>
          /\ status' = IF FLAG_FAILURE THEN "SIGABRT" ELSE "129"
          /\ at' = IF FLAG_FAILURE THEN "killed" ELSE "next"
          /\ Decide(IF FLAG_FAILURE THEN "none" ELSE "ok")
  /\ UNCHANGED <<fork, armed, signo, FLAG_FAILURE, con, kbd, pattern, left, complete,
                 oldcomplete, truth>>

\* A signal kills the test's process at any time.
crash ==
  /\ fork /\ child \notin {"none", "zombie"}
  /\ Dies("SIGSEGV")
  /\ pending' = pending \cup {"SIGCHLD"}
  /\ UNCHANGED <<fork, job, at, armed, signo, verdict, FLAG_FAILURE, con, kbd, pattern, left,
                 complete, oldcomplete, truth>>

----------------------------------------------------------------------------
(***************************************************************************)
(* The daemons.                                                            *)
(***************************************************************************)
Goto(d, l) == dpc' = [dpc EXCEPT ![d] = l]

\* Take the next pattern; without one, wait, or end if complete is set.
term_proxy_daemon_get(d) ==
  /\ dpc[d] = "get"
  /\ IF pattern[d] # <<>>
     THEN /\ left' = [left EXCEPT ![d] = Head(pattern[d])]
          /\ pattern' = [pattern EXCEPT ![d] = Tail(@)]
          /\ Goto(d, "poll")
     ELSE complete[d] /\ Goto(d, "exited") /\ UNCHANGED <<left, pattern>>
  /\ UNCHANGED <<framework, child, status, FLAG_FAILURE, con, kbd, complete, oldcomplete, truth>>

\* The daemon has dealt with its pattern.
Finish(d, ok) ==
  /\ Goto(d, "get")
  /\ FLAG_FAILURE' = (FLAG_FAILURE \/ ~ok)

\* poll() returns, at the latest after 100 ms.
con_poll ==
  /\ dpc["con"] = "poll"
  /\ Goto("con", IF con # <<>> THEN "read" ELSE "test")
  /\ UNCHANGED <<framework, child, status, FLAG_FAILURE, con, kbd, pattern, left, complete,
                 oldcomplete, truth>>

\* There were no data: the test fails if nothing can come any more.
con_complete ==
  /\ dpc["con"] = "test"
  /\ IF complete["con"] THEN Finish("con", FALSE) ELSE Goto("con", "poll") /\ UNCHANGED FLAG_FAILURE
  /\ UNCHANGED <<framework, child, status, con, kbd, pattern, left, complete, oldcomplete, truth>>

\* Read and compare.
con_read ==
  LET n == IF Len(con) < Len(left["con"]) THEN Len(con) ELSE Len(left["con"])
      rest == SubSeq(left["con"], n + 1, Len(left["con"]))
      matched == SubSeq(con, 1, n) = SubSeq(left["con"], 1, n)
  IN
  /\ dpc["con"] = "read"
  /\ con' = SubSeq(con, n + 1, Len(con))
  /\ left' = [left EXCEPT !["con"] = rest]
  /\ IF matched /\ rest # <<>> THEN Goto("con", "poll") /\ UNCHANGED FLAG_FAILURE
     ELSE Finish("con", matched)
  /\ UNCHANGED <<framework, child, status, kbd, pattern, complete, oldcomplete, truth>>

\* Wait until there is room, or complete is set.
kbd_poll ==
  /\ dpc["kbd"] = "poll"
  /\ Len(kbd) < Capacity \/ complete["kbd"]
  /\ Goto("kbd", "save")
  /\ UNCHANGED <<framework, child, status, FLAG_FAILURE, con, kbd, pattern, left, complete,
                 oldcomplete, truth>>

kbd_save ==
  /\ dpc["kbd"] = "save"
  /\ oldcomplete' = complete["kbd"]
  /\ Goto("kbd", "write")
  /\ UNCHANGED <<framework, child, status, FLAG_FAILURE, con, kbd, pattern, left, complete, truth>>

\* Mutant: the daemon tries until everything is written.
give_up_never == FALSE

\* EAGAIN, and complete was set before.
give_up == oldcomplete

\* A call of write(), which writes what there is room for.
kbd_write ==
  LET room == Capacity - Len(kbd)
      n == IF room < Len(left["kbd"]) THEN room ELSE Len(left["kbd"])
      rest == SubSeq(left["kbd"], n + 1, Len(left["kbd"]))
  IN
  /\ dpc["kbd"] = "write"
  /\ kbd' = kbd \o SubSeq(left["kbd"], 1, n)
  /\ left' = [left EXCEPT !["kbd"] = rest]
  /\ IF rest = <<>> \/ (n = 0 /\ give_up) THEN Finish("kbd", rest = <<>>)
     ELSE Goto("kbd", IF n = 0 THEN "poll" ELSE "write") /\ UNCHANGED FLAG_FAILURE
  /\ UNCHANGED <<framework, child, status, con, pattern, complete, oldcomplete, truth>>

----------------------------------------------------------------------------
Framework == skip \/ execute \/ set_alarm \/ sigwait \/ cancel \/ kill \/ waitpid \/ restore

Program ==
  Write \/ Read \/ ASSERT \/ boot \/ crash \/ \E d \in Daemon : term_proxy_daemon_add(d)

\* What the process of the test does before and after the virtual machine.
Around == term_proxy_init \/ exit \/ \E d \in Daemon : term_proxy_daemon_close(d) \/ pthread_join(d)

con_proc == con_poll \/ con_complete \/ con_read
kbd_proc == kbd_poll \/ kbd_save \/ kbd_write

Next ==
  \/ Framework \/ expire
  \/ Program \/ Around
  \/ con_proc \/ kbd_proc \/ \E d \in Daemon : term_proxy_daemon_get(d)

\* The processes and daemons go on and time passes, but a test may hang.
Fairness ==
  /\ WF_vars(Framework) /\ WF_vars(expire) /\ WF_vars(Around)
  /\ WF_vars(con_proc \/ term_proxy_daemon_get("con"))
  /\ WF_vars(kbd_proc \/ term_proxy_daemon_get("kbd"))

FairSpec == Init /\ [][Next]_vars /\ Fairness

----------------------------------------------------------------------------
\* A test is reported as "ok" only if its assertions have held, what it has
\* itself written starts with what it announced, and its input has been typed:
\* the report of run_boot_test() and run_test(), whatever an earlier test, or
\* one that was killed, has left in the FIFOs.  con_proc() does not look at
\* what comes after the announced text.
OkMeansPassed ==
  at = "next" /\ verdict = "ok" =>
    /\ asserted
    /\ "con" \in told => IsPrefix(Message, written)
    /\ "kbd" \in told => left["kbd"] = <<>> /\ pattern["kbd"] = <<>>

\* execute_fork() leaves nothing behind: before the next test is started no
\* alarm is set, no signal waits for it, and the process and its daemons are
\* gone.
CleanBetween ==
  at = "next" => ~armed /\ pending = {} /\ child = "none"
                 /\ \A d \in Daemon : dpc[d] \in {"off", "exited"}

\* execute_fork() returns, even if the test hangs: its process ends or is
\* killed, and the framework has waited for it.
ExecutionsEnd == (fork /\ child # "none") ~> child = "none"

\* Every test gets its verdict: "If SIGCHLD arrives first, all is ok", says
\* execute_fork(), and otherwise the alarm ends the test.
RunsEnd == fork ~> job > Len(Jobs)

\* term_proxy_close() does not wait for ever: a daemon ends, even if nobody
\* reads its FIFO (kbd_proc()) or writes to it (con_proc()).
DaemonsEnd == \A d \in Daemon : (complete[d] /\ dpc[d] # "off") ~> dpc[d] \in {"exited", "off"}
=============================================================================
