--------------------------- MODULE MCUnitTesting ---------------------------
EXTENDS TestUtil

MCTest(name, type, mincores, minterm) ==
  [name |-> name, type |-> type, minimum_cores |-> mincores, minimum_terminals |-> minterm,
   ncores |-> 0, nterm |-> 0]

\* The tests of test_util.c, a test that needs a terminal and one that does
\* not, on machines with too few cores or terminals and on others.
MCTests ==
  <<MCTest("rlist_tests", "BARE_FUNC", 0, 0), MCTest("exception_tests", "BARE_FUNC", 0, 0),
    MCTest("terminal", "BOOT_FUNC", 2, 1), MCTest("no_terminal", "BOOT_FUNC", 2, 0)>>

\* Two tests without a virtual machine.
MCBareTests == SubSeq(MCTests, 1, 2)

MCCoreArg == <<1, 2>>
MCTermArg == <<0, 1>>
MCMessage == <<1, 2>>
=============================================================================
