------------------------------ MODULE TestUtil ------------------------------
(***************************************************************************)
(* test_util.c: bare tests of the test framework that work with the lists  *)
(* and the exceptions of util.h, in any way there is.  They do so when the *)
(* framework does not fork: there what a test leaves behind matters.       *)
(***************************************************************************)
EXTENDS UnitTesting, Rings, Exceptions

tvars == <<vars, rlnode, evars>>

TestUtilInit == Init /\ RingInit /\ ExceptionsInit

InTest(name) == child = "boot" /\ ~fork /\ Jobs[job].name = name

rlist_tests == InTest("rlist_tests") /\ RingNext /\ UNCHANGED <<vars, evars>>

exception_tests == InTest("exception_tests") /\ ExceptionsNext /\ UNCHANGED <<vars, rlnode>>

\* The nodes are variables of the test, which returns from its main function.
TestUtilNext ==
  \/ /\ Next
     /\ rlnode' = IF child' = "boot" THEN rlnode ELSE rlnode_new
     /\ UNCHANGED evars
     /\ child = "boot" /\ child' # "boot" => Len(cstack) = 1
  \/ rlist_tests
  \/ exception_tests

TestUtilSpec == TestUtilInit /\ [][TestUtilNext]_tvars /\ Fairness

----------------------------------------------------------------------------
\* Lists behave like sequences (util.h), in any sequence of operations but
\* rlist_pop_back(), of which it only says that the pointers stay consistent.
ListsBehave == [][InTest("rlist_tests") => ListStep]_rlnode

\* A test that returns leaves no exception frame behind: unwind_context is
\* null, as test_exc_unwind() asserts, and the frames are sound all the time.
ExceptionsSound == UnwindSound /\ (child # "boot" => context = <<>>)
=============================================================================
