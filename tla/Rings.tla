------------------------------- MODULE Rings -------------------------------
(***************************************************************************)
(* A program that works with the nodes and the lists of util.h in any way  *)
(* there is, and what becomes of the lists.                                *)
(***************************************************************************)
EXTENDS RingOps

CONSTANT Node

VARIABLE rlnode   \* the pointers of all nodes

\* rlnode_new(), for every node.
rlnode_new == [next |-> [n \in Node |-> n], prev |-> [n \in Node |-> n]]

----------------------------------------------------------------------------
RingInit == rlnode = rlnode_new

Splice(a, b) == rlnode' = rl_splice(rlnode, a, b)
RemoveNode(n) == rlnode' = rlist_remove(rlnode, n)
PopFront(l) == rlnode' = rlist_pop_front(rlnode, l)
PopBack(l) == rlnode' = rlist_pop_back(rlnode, l)
ReverseRing(l) == rlnode' = rlist_reverse(rlnode, l)

\* The operations on a list and a node, or two lists, require different rings.
PushFront(l, n) == ~InRing(rlnode, n, l) /\ rlnode' = rlist_push_front(rlnode, l, n)
PushBack(l, n) == ~InRing(rlnode, n, l) /\ rlnode' = rlist_push_back(rlnode, l, n)
AppendList(l, n) == ~InRing(rlnode, n, l) /\ rlnode' = rlist_append(rlnode, l, n)
PrependList(l, n) == ~InRing(rlnode, n, l) /\ rlnode' = rlist_prepend(rlnode, l, n)
Select(l, n, pred) == ~InRing(rlnode, n, l) /\ rlnode' = rlist_select(rlnode, l, n, pred)

RingNext ==
  \E l \in Node :
    \/ RemoveNode(l) \/ PopFront(l) \/ PopBack(l) \/ ReverseRing(l)
    \/ \E n \in Node : \/ Splice(l, n) \/ PushFront(l, n) \/ PushBack(l, n)
                       \/ AppendList(l, n) \/ PrependList(l, n)
                       \/ \E pred \in SUBSET Node : Select(l, n, pred)

RingSpec == RingInit /\ [][RingNext]_rlnode

----------------------------------------------------------------------------
\* What the operations do to lists, as sequences, is what the comments of
\* util.h say and RList relies on, whatever was done before; and they leave
\* other rings alone.  (Except rlist_pop_back(), see README.md.)
ListStep ==
  LET old(l) == Nodes(rlnode, l)  new(l) == Nodes(rlnode', l)
      Others(S) == \A k \in Node : (\A l \in S : ~InRing(rlnode, k, l)) => new(k) = old(k)
      others(l, x) == SelectSeq(old(l), LAMBDA y : y \notin x)
  IN
  /\ Linked(rlnode', Node)
  /\ \A l \in Node :
       /\ RemoveNode(l) => /\ new(l) = <<>> /\ Others({l})
                       /\ \A k \in Node \ {l} : new(k) = others(k, {l})
       /\ PopFront(l) /\ ~is_rlist_empty(rlnode, l) =>
            new(l) = Tail(old(l)) /\ new(Head(old(l))) = <<>> /\ Others({l})
       /\ ReverseRing(l) => new(l) = Reverse(old(l)) /\ Others({l})
       /\ \A n \in Node :
            /\ PushFront(l, n) => new(l) = old(n) \o <<n>> \o old(l) /\ Others({l, n})
            /\ PushBack(l, n) => new(l) = old(l) \o old(n) \o <<n>> /\ Others({l, n})
            /\ AppendList(l, n) => new(l) = old(l) \o old(n) /\ new(n) = <<>> /\ Others({l, n})
            /\ PrependList(l, n) => new(l) = old(n) \o old(l) /\ new(n) = <<>> /\ Others({l, n})
            /\ \A pred \in SUBSET (Node \ {l}) : Select(l, n, pred) =>
                 new(l) = others(l, pred) /\ new(n) = old(n) \o others(l, Node \ pred)
=============================================================================
