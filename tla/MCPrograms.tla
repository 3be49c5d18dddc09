----------------------------- MODULE MCPrograms -----------------------------
EXTENDS Validate, Symposium, Shell

\* Named, so that TLC evaluates it once.
AllTests == basic_tests @@ io_tests @@ socket_tests @@ symposia @@ shells
MCProgram == AllTests

MCSessions == [one_shell |-> <<<<"repeat", "echo">>>>, two_shells |-> <<<<"runterm">>, <<>>>>]

MCInit == ProgramInit(0 .. 3)
MCNext == ProgramStep \/ SymposiumStep

\* A program that can go on does so: every thread gets a core (module
\* Scheduler), the programs take turns at the mutex, and the terminals are
\* typed at.
MCSpec == MCInit /\ [][MCNext]_pvars /\ WF_pvars(MCNext)
=============================================================================
