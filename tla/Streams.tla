------------------------------ MODULE Streams ------------------------------
(***************************************************************************)
(* The streams of TinyOS 3 (kernel_streams.c, kernel_dev.c): the file id   *)
(* tables of the processes, and the reference-counted file control blocks  *)
(* that they share after Exec() and Dup2().                                *)
(*                                                                         *)
(* Every step runs with the kernel locked (module KernelCC), so a step is  *)
(* a system call, or the part of one before or after the device driver,    *)
(* which may wait and let other processes in.  A process has one thread.   *)
(* A call that fails before it changes anything is not a step.             *)
(***************************************************************************)
EXTENDS Integers, Sequences, FiniteSets, Functions, FiniteSetsExt

CONSTANTS
  Proc,         \* the processes that may have a thread
  init,         \* the boot process
  FCB,          \* the entries of FT
  MAX_FILEID,   \* size of a file id table
  Device,       \* the device objects that streams can be opened on
  Nil           \* the NULL pointer

Fid == 0..(MAX_FILEID - 1)

\* What the proofs ask of the constants: tables of some size, and a NULL that
\* is nothing else.
StreamsAssumption ==
  /\ IsFiniteSet(Proc) /\ init \in Proc
  /\ IsFiniteSet(FCB)
  /\ MAX_FILEID \in Nat
  /\ Nil \notin FCB \cup Nat

VARIABLES
  live,          \* the processes that exist and have not exited
  FIDT,          \* the file id table of each process
  refcount,      \* fcb->refcount
  streamobj,     \* fcb->streamobj and fcb->streamfunc
  FCB_freelist,  \* the unused FCBs
  used           \* the fcb of sys_Read() or sys_Write() during the driver call

table == <<FIDT, refcount, streamobj, FCB_freelist, used>>
vars == <<live, table>>

NoFiles == [fd \in Fid |-> Nil]

\* The blocks in the order of their addresses.
FT == CHOOSE ft \in [1..Cardinality(FCB) -> FCB] : IsInjective(ft)

\* initialize_files() and initialize_PCB(); the boot task has been executed.
\* The list is built in the order of FT.
Init ==
  /\ live = {init}
  /\ FIDT = [p \in Proc |-> NoFiles]
  /\ refcount = [f \in FCB |-> 0]
  /\ streamobj = [f \in FCB |-> Nil]
  /\ FCB_freelist = FT
  /\ used = [p \in Proc |-> Nil]

\* The thread of p is not inside another system call.
Ready(p) == p \in live /\ used[p] = Nil

\* Mutant: the stale counter of a block that FCB_unreserve() put back.
acquire_refcount_stale(f) == refcount[f]

\* acquire_FCB() clears the counter.
acquire_refcount(f) == 0

\* Mutant: a block that somebody still refers to is released.
Unreferenced_early(n) == n <= 1

\* FCB_decref() closes the stream and releases the block when this holds.
Unreferenced(n) == n = 0

\* FCB_decref(): one reference less; release_FCB() appends to the free list.
FCB_decref(f) ==
  /\ refcount' = [refcount EXCEPT ![f] = @ - 1]
  /\ FCB_freelist' = IF Unreferenced(refcount[f] - 1) THEN Append(FCB_freelist, f)
                                                      ELSE FCB_freelist

FCB_incref(f) == refcount' = [refcount EXCEPT ![f] = @ + 1]

\* get_fcb(): the block of a legal file id, or NULL.
get_fcb(p, fd) == FIDT[p][fd]

\* FCB_reserve() for one stream: the first free file id of p, a free block.
FCB_reserve(p, fd, f) ==
  /\ fd = Min({i \in Fid : FIDT[p][i] = Nil})
  /\ f = Head(FCB_freelist)

CanReserve(p) == FCB_freelist # <<>> /\ \E fd \in Fid : FIDT[p][fd] = Nil

\* open_stream(): reserve a file id and a block and open device d.
open_stream(p, d) ==
  /\ Ready(p)
  /\ CanReserve(p)
  /\ \E fd \in Fid, f \in FCB :
       /\ FCB_reserve(p, fd, f)
       /\ FIDT' = [FIDT EXCEPT ![p][fd] = f]
       /\ refcount' = [refcount EXCEPT ![f] = acquire_refcount(f) + 1]
       /\ streamobj' = [streamobj EXCEPT ![f] = d]
  /\ FCB_freelist' = Tail(FCB_freelist)
  /\ UNCHANGED <<live, used>>

\* device_open() fails: FCB_unreserve() undoes the reservation, but leaves
\* the counter at 1, and the block goes to the end of the free list.
FCB_unreserve(p) ==
  /\ Ready(p)
  /\ CanReserve(p)
  /\ \E fd \in Fid, f \in FCB :
       /\ FCB_reserve(p, fd, f)
       /\ refcount' = [refcount EXCEPT ![f] = acquire_refcount(f) + 1]
       /\ FCB_freelist' = Append(Tail(FCB_freelist), f)
  /\ UNCHANGED <<live, FIDT, streamobj, used>>

\* sys_Read() and sys_Write(): hold the stream while the driver works.
sys_Read(p, fd) ==
  /\ Ready(p)
  /\ get_fcb(p, fd) # Nil
  /\ FCB_incref(get_fcb(p, fd))
  /\ used' = [used EXCEPT ![p] = get_fcb(p, fd)]
  /\ UNCHANGED <<live, FIDT, streamobj, FCB_freelist>>

\* The driver has returned.
sys_Read_return(p) ==
  /\ used[p] # Nil
  /\ FCB_decref(used[p])
  /\ used' = [used EXCEPT ![p] = Nil]
  /\ UNCHANGED <<live, FIDT, streamobj>>

sys_Close(p, fd) ==
  /\ Ready(p)
  /\ get_fcb(p, fd) # Nil
  /\ FIDT' = [FIDT EXCEPT ![p][fd] = Nil]
  /\ FCB_decref(get_fcb(p, fd))
  /\ UNCHANGED <<live, streamobj, used>>

\* Mutant: the stream that newfd named is forgotten, not closed.
Dup2_replace_leaked(old, new) ==
  FCB_incref(old) /\ UNCHANGED FCB_freelist

\* FCB_decref(new), if there is one, and FCB_incref(old).
Dup2_replace(old, new) ==
  IF new = Nil
  THEN FCB_incref(old) /\ UNCHANGED FCB_freelist
  ELSE /\ refcount' = [refcount EXCEPT ![new] = @ - 1, ![old] = @ + 1]
       /\ FCB_freelist' = IF Unreferenced(refcount[new] - 1)
                          THEN Append(FCB_freelist, new) ELSE FCB_freelist

sys_Dup2(p, oldfd, newfd) ==
  /\ Ready(p)
  /\ get_fcb(p, oldfd) # Nil
  /\ get_fcb(p, oldfd) # get_fcb(p, newfd)
  /\ Dup2_replace(get_fcb(p, oldfd), get_fcb(p, newfd))
  /\ FIDT' = [FIDT EXCEPT ![p][newfd] = get_fcb(p, oldfd)]
  /\ UNCHANGED <<live, streamobj, used>>

\* The file ids under which p knows f.
FidsOf(p, f) == {fd \in Fid : FIDT[p][fd] = f}

\* sys_Exec(): the new process c inherits the file ids of p.
Exec_inherit(p, c) ==
  /\ Ready(p)
  /\ c \in Proc \ live
  /\ live' = live \cup {c}
  /\ FIDT' = [FIDT EXCEPT ![c] = FIDT[p]]
  /\ refcount' = [f \in FCB |-> refcount[f] + Cardinality(FidsOf(p, f))]
  /\ UNCHANGED <<streamobj, FCB_freelist, used>>

\* Mutant: the table of the process is left as it is.
Exit_FIDT_kept(p) == FIDT

\* The file id table after the loop of sys_Exit().
Exit_FIDT(p) == [FIDT EXCEPT ![p] = NoFiles]

\* sys_Exit() drops the references of p one by one, in the order of the file
\* ids: a block is released at the last file id that names it.
Exit_cleanup(p) ==
  LET left(f) == refcount[f] - Cardinality(FidsOf(p, f))
      closed == {f \in FCB : FidsOf(p, f) # {} /\ Unreferenced(left(f))}
  IN
  /\ Ready(p)
  /\ live' = live \ {p}
  /\ refcount' = [f \in FCB |-> left(f)]
  /\ \E s \in [1..Cardinality(closed) -> closed] :
       /\ \A m, n \in DOMAIN s :
            m < n => Max(FidsOf(p, s[m])) < Max(FidsOf(p, s[n]))
       /\ FCB_freelist' = FCB_freelist \o s
  /\ FIDT' = Exit_FIDT(p)
  /\ UNCHANGED <<streamobj, used>>

\* The system calls on streams.
StreamCall(p) ==
  \/ \E d \in Device : open_stream(p, d)
  \/ FCB_unreserve(p)
  \/ sys_Read_return(p)
  \/ \E fd \in Fid : sys_Read(p, fd) \/ sys_Close(p, fd)
  \/ \E oldfd, newfd \in Fid : sys_Dup2(p, oldfd, newfd)

Next ==
  \E p \in Proc :
    \/ StreamCall(p)
    \/ Exit_cleanup(p)
    \/ \E c \in Proc : Exec_inherit(p, c)

Spec == Init /\ [][Next]_vars

----------------------------------------------------------------------------
TypeOK ==
  /\ live \subseteq Proc
  /\ FIDT \in [Proc -> [Fid -> FCB \cup {Nil}]]
  /\ refcount \in [FCB -> Nat]
  /\ streamobj \in [FCB -> Device \cup {Nil}]
  /\ FCB_freelist \in Seq(FCB)
  /\ used \in [Proc -> FCB \cup {Nil}]

\* The places that may hold a reference: the file ids of the processes, and
\* their calls in progress.
Place == Proc \X (Fid \cup {Nil})

Holds(r) == IF r[2] = Nil THEN used[r[1]] ELSE FIDT[r[1]][r[2]]

\* The references to f.
References(f) == {r \in Place : Holds(r) = f}

\* The counter of a block in use is the number of references to it, although
\* several processes copy, close and use it (FCB_incref(), FCB_decref(), and
\* the counter that FCB_unreserve() leaves behind).
RefcountExact ==
  \A f \in FCB : f \notin Range(FCB_freelist) => refcount[f] = Cardinality(References(f))

\* A block is in the free list, once, exactly when nobody refers to it: no
\* stream is closed under a process that uses it, and none is leaked.
FreelistExact ==
  /\ IsInjective(FCB_freelist)
  /\ \A f \in FCB : f \in Range(FCB_freelist) <=> References(f) = {}

\* A process that does not exist holds no stream: sys_Exec() of the boot task
\* relies on finding the table of its PCB empty, and no exited process keeps
\* a stream open (sys_Exit()).
DeadHoldNothing ==
  \A p \in Proc \ live : FIDT[p] = NoFiles /\ used[p] = Nil

\* The streams are sound, whatever the processes that share them do.
StreamsInv == TypeOK /\ RefcountExact /\ FreelistExact /\ DeadHoldNothing

\* A file id goes on naming the same device as long as nobody closes or
\* replaces it, whatever other processes do with the stream.
StreamStable ==
  [][\A p \in Proc, fd \in Fid :
       FIDT[p][fd] # Nil /\ FIDT'[p][fd] = FIDT[p][fd] =>
         streamobj'[FIDT[p][fd]] = streamobj[FIDT[p][fd]]]_vars
=============================================================================
