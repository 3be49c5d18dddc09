------------------------------- MODULE Cores -------------------------------
(***************************************************************************)
(* The cores of the virtual machine, for the modules that are about what   *)
(* cores do: Machine boots and stops them, Preemption runs threads there.  *)
(***************************************************************************)
CONSTANT Core
=============================================================================
