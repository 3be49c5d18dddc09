------------------------------ MODULE Validate ------------------------------
(***************************************************************************)
(* The tests of validate_api.c, as programs: the suite basic_tests, the    *)
(* tests of terminals with several processes, and the tests of sockets     *)
(* that ask for errors.  Where a test repeats something, repetitions are   *)
(* bounded: N children, and L levels of them.                              *)
(***************************************************************************)
EXTENDS Programs

CONSTANTS N, L    \* see above

----------------------------------------------------------------------------
\* Tests of processes.
waitchild_error ==
  <<wait(Self, Fails), wait(Num(MAX_PROC), Fails), wait(Operand("self", 1), Fails)>>

test_waitchild_error_on_invalid_pid ==
  [boot |-> waitchild_error \o <<exec("subprocess"), wait(AnyOf, Kid(1))>>,
   subprocess |-> waitchild_error]

test_waitchild_error_on_nonchild ==
  [boot |-> <<exec("void_child"), exec("bad_child"),
              wait(Kid(2), Kid(2)), wait(Kid(1), Kid(1))>>,
   void_child |-> <<>>,
   bad_child |-> <<wait(BootKid(1), Fails)>>]

\* Each level executes N children, one after the other, and each returns its
\* pid.
level_name == <<"level1", "level2", "level3">>

test_exec_getpid_wait ==
  LET level(l) ==
        FlattenSeq([i \in 1 .. N |-> IF l = 0 THEN <<>>
                                     ELSE <<exec(level_name[l]), wait_status(Kid(i), Kid(i))>>])
        \o <<return(Self)>>
  IN [s \in {"boot"} \cup {level_name[l] : l \in 1 .. L} |->
        IF s = "boot" THEN level(L)
        ELSE level((CHOOSE l \in 1 .. L : level_name[l] = s) - 1)]

\* The boot task executes all its children, then waits for them in any order;
\* so does each child with L children, which have none.
test_wait_for_any_child ==
  LET level(n, s) ==
        Times(n, <<exec(s)>>) \o Times(n, <<wait(AnyOf, Mine)>>) \o <<wait(AnyOf, Fails)>>
  IN [boot |-> level(N, "level1"), level1 |-> level(L - 1, "level0"), level0 |-> <<>>]

test_exit_returns_status ==
  LET waited(i) == wait_status(Kid(i), Kid(i)) IN
  [boot |-> Times(N, <<exec("child")>>) \o ForEach(N, waited),
   child |-> <<return(Self)>>]

test_orphans_adopted_by_init ==
  [boot |-> Times(N, <<exec("child")>>)
            \o Times(2 * N, <<[wait(AnyOf, AnyOf) EXCEPT !.add = TRUE]>>)
            \o <<wait(AnyOf, Fails), assert_sum(N * 100 + N)>>,
   child |-> <<exec("grandchild"), return(Num(100))>>,
   grandchild |-> <<return(Num(1))>>]

----------------------------------------------------------------------------
\* Tests of condition variables.  Variable 0 is flag, condition 0 is cv and
\* condition 1 is pcv; a wait of three hours ends with a signal only.
test_cond_timedwait_timeout ==
  [boot |-> Times(N, <<exec("do_timeout")>>) \o <<wait_all>>,
   do_timeout |-> <<timed_wait(own)>>]

test_cond_timedwait_signal ==
  [boot |-> <<exec("long_blocking"), lock, wait_while(0, 0, {0}), signal(0), unlock,
              wait(Kid(1), AnyOf)>>,
   long_blocking |-> <<lock, assign(0, 1), signal(0), timed_wait(0), unlock>>]

test_cond_timedwait_broadcast ==
  [boot |-> Times(N, <<exec("long_blocking")>>)
            \o <<lock, wait_while(1, 0, 0 .. (N - 1)), broadcast(0), unlock, wait_all>>,
   long_blocking |-> <<lock, incr(0), signal(1), timed_wait(0), unlock>>]

----------------------------------------------------------------------------
\* Tests of streams.
fids == MAX_FILEID

test_dup2_error_on_nonfile ==
  LET dup(i) == dup2(Num(i - 1), Num(fids - i), -1) IN
  [boot |-> ForEach(fids, dup)]

test_dup2_error_on_invalid_fid ==
  [boot |-> <<dup2(Num(NOFILE), Num(3), -1), dup2(Num(fids), Num(3), -1), open(null),
              dup2(File(1), Num(NOFILE), -1), dup2(File(1), Num(fids), -1)>>]

test_close_error_on_invalid_fid ==
  [boot |-> <<close(Num(NOFILE), -1), close(Num(fids), -1)>>]

test_close_success_on_valid_nonfile_fid ==
  LET close_it(i) == close(Num(i - 1), 0) IN
  [boot |-> ForEach(fids, close_it)]

test_close_terminals ==
  [boot |-> <<open(term0), open(term1), close(File(1), 0), close(File(2), 0)>>]

test_read_error_on_bad_fid ==
  [boot |-> <<read(Num(0), NOFILE), write(Num(0), NOFILE)>>]

test_null_device ==
  [boot |-> <<open(null), read(File(1), <<0, 0>>), write(File(1), <<0, 0>>), close(File(1), 0)>>]

checked_read(e, message) == read(e, message)
checked_write(e, message) == write(e, message)

test_read_kbd ==
  [boot |-> <<open(term0), sendme(term0, <<"Hello">>), checked_read(File(1), <<"Hello">>)>>]

\* The input comes in N pieces, and each Read() takes what there is.
test_read_kbd_big ==
  [boot |-> <<open(term0)>> \o Times(N, <<sendme(term0, <<"bytes", "bytes">>)>>)
            \o <<[read_until(File(1), "all") EXCEPT !.is = Times(2 * N, <<"bytes">>)]>>]

test_dup2_copies_file ==
  [boot |-> <<open(term0)>> \o at(1, 0) \o <<sendme(term0, <<"zava", "raka", "trane", "mia">>)>>
            \o <<dup2(Num(0), Num(1), 0), dup2(Num(0), Num(2), 0),
                 dup2(Num(0), Num(3), 0), dup2(Num(0), Num(4), 0),
                 checked_read(Num(1), <<"zava">>), checked_read(Num(3), <<"raka">>),
                 checked_read(Num(2), <<"trane">>), checked_read(Num(4), <<"mia">>)>>]

test_read_from_many_terminals ==
  [boot |-> <<open(term0), open(term1),
              sendme(term0, <<"This is terminal 0">>), sendme(term1, <<"This is terminal 1">>),
              checked_read(File(1), <<"This is terminal 0">>),
              checked_read(File(2), <<"This is terminal 1">>)>>]

test_child_inherits_files ==
  [boot |-> <<open(term0), [dup2(File(1), Num(0), 0) EXCEPT !.unless = 0],
              sendme(term0, <<"Hello child">>), exec("greeted_child"),
              close(Num(0), 0), close(File(1), 0),
              sendme(term0, <<"Hello again">>), wait(AnyOf, Kid(1))>>,
   greeted_child |-> <<checked_read(Num(0), <<"Hello child">>),
                       checked_read(Num(0), <<"Hello again">>)>>]

test_write_con ==
  [boot |-> <<open(term0), expect(term0, <<"Hello">>), checked_write(File(1), <<"Hello">>)>>]

test_write_con_big ==
  [boot |-> <<open(term0)>> \o Times(N, <<expect(term0, <<"bytes">>)>>)
            \o <<write(File(1), Times(N, <<"bytes">>))>>]

test_write_to_many_terminals ==
  [boot |-> <<open(term0), open(term1),
              expect(term0, <<"This is terminal 0">>), expect(term1, <<"This is terminal 1">>),
              checked_write(File(1), <<"This is terminal 0">>),
              checked_write(File(2), <<"This is terminal 1">>)>>]

\* The reader of terminal 0 must not keep the one of terminal 1 waiting.
test_input_concurrency ==
  [boot |-> <<open(term0)>> \o at(1, 0) \o <<exec("input_line"), open(term1)>> \o at(2, 0)
            \o <<exec("input_line"), sendme(term0, <<"Hello ">>),
                 sendme(term1, <<"Hello world", "newline">>), wait(Kid(2), Kid(2)),
                 sendme(term0, <<" world", "newline">>), wait(Kid(1), Kid(1))>>,
   input_line |-> <<read_until(Num(0), "newline")>>]

\* N readers wait while other processes compute.
test_term_input_driver_interrupt ==
  [boot |-> <<open(term0)>> \o at(1, 0) \o Times(N, <<exec("input_char")>>)
            \o <<exec("compute_child"), wait(Kid(N + 1), Kid(N + 1)),
                 sendme(term0, Times(N, <<"A">>))>>
            \o Times(N, <<wait(AnyOf, AnyOf)>>),
   input_char |-> <<read(Num(0), <<"A">>)>>,
   compute_child |-> <<>>]

----------------------------------------------------------------------------
\* Tests of calls that are not implemented, which ask for an error.
test_listen_fails ==
  [boot |-> <<stub("Listen", -1), open(null), stub("Listen", -1), stub("Listen", -1),
              stub("Listen", -1), stub("Socket", NOFILE), stub("Listen", -1)>>]

test_accept_fails ==
  [boot |-> <<stub("Accept", -1), open(null), stub("Accept", -1), stub("Accept", -1),
              stub("Accept", -1), stub("Socket", NOFILE), stub("Accept", -1)>>]

\* On an illegal port, and on one that nobody listens to.
test_connect_fails ==
  [boot |-> <<stub("Socket", NOFILE), stub("Connect", -1), stub("Connect", -1),
              stub("Socket", NOFILE), stub("Connect", -1)>>]

----------------------------------------------------------------------------
basic_tests ==
  [test_waitchild_error_on_nonchild |-> test_waitchild_error_on_nonchild,
   test_waitchild_error_on_invalid_pid |-> test_waitchild_error_on_invalid_pid,
   test_exec_getpid_wait |-> test_exec_getpid_wait,
   test_exit_returns_status |-> test_exit_returns_status,
   test_wait_for_any_child |-> test_wait_for_any_child,
   test_orphans_adopted_by_init |-> test_orphans_adopted_by_init,
   test_cond_timedwait_timeout |-> test_cond_timedwait_timeout,
   test_cond_timedwait_signal |-> test_cond_timedwait_signal,
   test_cond_timedwait_broadcast |-> test_cond_timedwait_broadcast,
   test_null_device |-> test_null_device,
   test_dup2_error_on_nonfile |-> test_dup2_error_on_nonfile,
   test_dup2_error_on_invalid_fid |-> test_dup2_error_on_invalid_fid,
   test_dup2_copies_file |-> test_dup2_copies_file,
   test_close_error_on_invalid_fid |-> test_close_error_on_invalid_fid,
   test_close_success_on_valid_nonfile_fid |-> test_close_success_on_valid_nonfile_fid,
   test_close_terminals |-> test_close_terminals,
   test_read_kbd |-> test_read_kbd,
   test_read_kbd_big |-> test_read_kbd_big,
   test_read_error_on_bad_fid |-> test_read_error_on_bad_fid,
   test_read_from_many_terminals |-> test_read_from_many_terminals,
   test_write_con |-> test_write_con,
   test_write_con_big |-> test_write_con_big,
   test_write_to_many_terminals |-> test_write_to_many_terminals,
   test_child_inherits_files |-> test_child_inherits_files]

io_tests ==
  [test_input_concurrency |-> test_input_concurrency,
   test_term_input_driver_interrupt |-> test_term_input_driver_interrupt]

socket_tests ==
  [test_listen_fails |-> test_listen_fails, test_accept_fails |-> test_accept_fails,
   test_connect_fails |-> test_connect_fails]
=============================================================================
