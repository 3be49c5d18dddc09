----------------------------- MODULE MCProcess -----------------------------
EXTENDS Process

CONSTANT MaxSharing

\* Bound: processes use streams while at most MaxSharing PCBs are in use.
StreamScope ==
  \/ process_count <= MaxSharing
  \/ FIDT = [p \in User |-> Files!NoFiles] /\ FCB_freelist = Files!FT
     /\ refcount = [f \in FCB |-> 0] /\ streamobj = [f \in FCB |-> Nil]

MCNext == Next /\ StreamScope'

MCSpec == Init /\ [][MCNext]_vars /\ Fairness
=============================================================================
