------------------------------- MODULE RingOps -------------------------------
(***************************************************************************)
(* The resident lists of util.h as what they are: nodes with two pointers, *)
(* linked to rings.  A list is a ring with a node that stands for the      *)
(* list; all operations come down to rl_splice().  Module RList takes them *)
(* for sequences.  The pointers of all nodes are r.next[n] and r.prev[n].  *)
(***************************************************************************)
EXTENDS Integers, Sequences, SequencesExt, FiniteSets

\* Mutant: one of the prev pointers is not adjusted.
rl_splice_half(r, a, b) ==
  [next |-> [r.next EXCEPT ![a] = r.next[b], ![b] = r.next[a]],
   prev |-> [r.prev EXCEPT ![r.next[b]] = r.prev[r.next[a]]]]

\* Exchange the successors of a and b.
rl_splice(r, a, b) ==
  [next |-> [r.next EXCEPT ![a] = r.next[b], ![b] = r.next[a]],
   prev |-> [r.prev EXCEPT ![r.next[a]] = r.prev[r.next[b]], ![r.next[b]] = r.prev[r.next[a]]]]

\* The nodes of list l: those that a loop from l->next on visits.
Nodes(r, l) ==
  LET all == Cardinality(DOMAIN r.next)
      at[i \in 0 .. all] == IF i = 0 THEN l ELSE r.next[at[i - 1]]
      len == (CHOOSE i \in 1 .. all :
                at[i] = l /\ \A j \in 1 .. (i - 1) : at[j] # l) - 1
  IN [i \in 1 .. len |-> at[i]]

\* Is n a node of the ring of l?
InRing(r, n, l) == n = l \/ n \in Range(Nodes(r, l))

is_rlist_empty(r, l) == r.next[l] = l

rlist_remove(r, n) == rl_splice(r, n, r.prev[n])

\* The ring of n enters the list, with n as its last node.
rlist_push_front(r, l, n) == rl_splice(r, l, n)
rlist_push_back(r, l, n) == rl_splice(r, r.prev[l], n)

\* The node that these functions return is next[l] or prev[l].
rlist_pop_front(r, l) == rl_splice(r, l, r.next[l])
rlist_pop_back(r, l) == rl_splice(r, l, r.prev[l])

\* Mutant: the sentinel of the source stays in the list.
rlist_append_whole(r, dest, l) == rlist_push_back(r, dest, l)

rlist_append(r, dest, l) == rlist_remove(rlist_push_back(r, dest, l), l)

rlist_prepend(r, dest, l) == rlist_remove(rlist_push_front(r, dest, l), l)

\* Each node of the ring swaps its pointers.
rlist_reverse(r, l) ==
  [next |-> [n \in DOMAIN r.next |-> IF InRing(r, n, l) THEN r.prev[n] ELSE r.next[n]],
   prev |-> [n \in DOMAIN r.next |-> IF InRing(r, n, l) THEN r.next[n] ELSE r.prev[n]]]

\* The nodes of src for which pred() holds move to the end of dest.
rlist_select(r, src, dest, pred) ==
  LET move(s, n) == IF n \in pred THEN rlist_push_back(rlist_remove(s, n), dest, n) ELSE s
  IN FoldLeft(move, r, Nodes(r, src))

\* The pointers of neighbours agree, so that every node is in exactly one
\* ring, and that a list read backwards is the same list (rl_splice()).
Linked(r, Node) ==
  /\ r \in [next : [Node -> Node], prev : [Node -> Node]]
  /\ \A n \in Node : r.prev[r.next[n]] = n /\ r.next[r.prev[n]] = n
=============================================================================
