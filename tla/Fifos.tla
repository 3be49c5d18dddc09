------------------------------- MODULE Fifos -------------------------------
(***************************************************************************)
(* The two FIFOs of a terminal: the virtual machine has one end of them,   *)
(* the program "terminal" or the test framework has the other.             *)
(***************************************************************************)
EXTENDS Naturals

CONSTANT Capacity   \* of each FIFO

ASSUME FifosAssumption == Capacity \in Nat \ {0}

VARIABLES
  kbd,   \* the keyboard
  con    \* the console
=============================================================================
