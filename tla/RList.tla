------------------------------- MODULE RList -------------------------------
(***************************************************************************)
(* The resident lists of util.h as sequences of the objects of their       *)
(* nodes, from the node after the head on.  push_back is Append and        *)
(* pop_front is Head and Tail; taking out a node that the list does not    *)
(* hold changes nothing, since a lone node is a ring of its own.           *)
(***************************************************************************)
EXTENDS Integers, Sequences, Functions, SequencesExt

\* The list without the node of x.
rlist_remove(list, x) ==
  IF x \in Range(list)
  THEN RemoveAt(list, CHOOSE i \in DOMAIN list : list[i] = x)
  ELSE list
=============================================================================
