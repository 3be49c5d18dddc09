--------------------------- MODULE StreamsProofs ---------------------------
(***************************************************************************)
(* StreamsInv is an inductive invariant of the streams, for any number of  *)
(* processes, file ids and blocks, and no open stream changes its device.  *)
(***************************************************************************)
EXTENDS Streams, ListLemmas, FiniteSetTheorems

\* Every set of numbers up to n that is not empty has a smallest element.
LEMMA MinLemma ==
  ASSUME NEW n \in Nat, NEW S \in SUBSET (0..n), S # {}
  PROVE  Min(S) \in S
<1> DEFINE Below(x) == {y \in S : y < x}
           T == {Below(x) : x \in S}
<1>0. \A z \in S : z \in Int
  OBVIOUS
<1>1. IsFiniteSet(0..n)
  BY FS_Interval
<1>2. IsWellFoundedOn(StrictSubsetOrdering(0..n), SUBSET (0..n))
  BY <1>1, FS_StrictSubsetOrderingWellFounded, FS_FiniteSubsetsOfFinite
<1>3. T \subseteq SUBSET (0..n) /\ T # {}
  OBVIOUS
<1>4. \E X \in T : \A Y \in T : ~(<<Y, X>> \in StrictSubsetOrdering(0..n))
  <2> HIDE DEF T
  <2> QED BY <1>2, <1>3, WFMin
<1>5. PICK x \in S : \A y \in S : ~(<<Below(y), Below(x)>> \in StrictSubsetOrdering(0..n))
  BY <1>4
<1>6. ASSUME NEW y \in S, y < x PROVE FALSE
  <2>0. y < x /\ ~(y < y) /\ \A z \in S : z < y => z < x
    BY <1>0, <1>6
  <2>1. Below(y) \subseteq Below(x) /\ y \in Below(x) /\ y \notin Below(y)
    BY <2>0, Zenon
  <2>2. Below(y) \in SUBSET (0..n) /\ Below(x) \in SUBSET (0..n)
    OBVIOUS
  <2> HIDE DEF Below
  <2> QED BY <1>5, <2>1, <2>2 DEF StrictSubsetOrdering
<1>7. \A y \in S : x <= y
  BY <1>0, <1>6
<1> QED BY <1>7 DEF Min

\* And it has a largest one.
LEMMA MaxLemma ==
  ASSUME NEW n \in Nat, NEW S \in SUBSET (0..n), S # {}
  PROVE  Max(S) \in S
<1> DEFINE Above(x) == {y \in S : y > x}
           T == {Above(x) : x \in S}
<1>0. \A z \in S : z \in Int
  OBVIOUS
<1>1. IsFiniteSet(0..n)
  BY FS_Interval
<1>2. IsWellFoundedOn(StrictSubsetOrdering(0..n), SUBSET (0..n))
  BY <1>1, FS_StrictSubsetOrderingWellFounded, FS_FiniteSubsetsOfFinite
<1>3. T \subseteq SUBSET (0..n) /\ T # {}
  OBVIOUS
<1>4. \E X \in T : \A Y \in T : ~(<<Y, X>> \in StrictSubsetOrdering(0..n))
  <2> HIDE DEF T
  <2> QED BY <1>2, <1>3, WFMin
<1>5. PICK x \in S : \A y \in S : ~(<<Above(y), Above(x)>> \in StrictSubsetOrdering(0..n))
  BY <1>4
<1>6. ASSUME NEW y \in S, y > x PROVE FALSE
  <2>0. y > x /\ ~(y > y) /\ \A z \in S : z > y => z > x
    BY <1>0, <1>6
  <2>1. Above(y) \subseteq Above(x) /\ y \in Above(x) /\ y \notin Above(y)
    BY <2>0, Zenon
  <2>2. Above(y) \in SUBSET (0..n) /\ Above(x) \in SUBSET (0..n)
    OBVIOUS
  <2> HIDE DEF Above
  <2> QED BY <1>5, <2>1, <2>2 DEF StrictSubsetOrdering
<1>7. \A y \in S : x >= y
  BY <1>0, <1>6
<1> QED BY <1>7 DEF Max

----------------------------------------------------------------------------
\* There are finitely many references to a block.
LEMMA ReferencesFinite ==
  ASSUME StreamsAssumption
  PROVE  /\ IsFiniteSet(Place)
         /\ \A f : IsFiniteSet(References(f)) /\ IsFiniteSet(References(f)')
<1>1. IsFiniteSet(Fid \cup {Nil})
  <2>1. IsFiniteSet(Fid)
    BY FS_Interval DEF StreamsAssumption, Fid
  <2> QED BY <2>1, FS_AddElement
<1>2. IsFiniteSet(Place)
  BY <1>1, FS_Product DEF StreamsAssumption, Place
<1>3. \A f : References(f) \in SUBSET Place /\ References(f)' \in SUBSET Place
  BY DEF References
<1> QED BY <1>2, <1>3, FS_Subset

\* What the places hold.
LEMMA PlaceLemma ==
  ASSUME StreamsAssumption, NEW p \in Proc
  PROVE  /\ <<p, Nil>> \in Place /\ Holds(<<p, Nil>>) = used[p]
         /\ Holds(<<p, Nil>>)' = used'[p]
         /\ \A fd \in Fid : /\ <<p, fd>> \in Place /\ fd # Nil
                             /\ Holds(<<p, fd>>) = FIDT[p][fd]
                             /\ Holds(<<p, fd>>)' = FIDT'[p][fd]
BY DEF StreamsAssumption, Place, Holds, Fid

\* A place is a file id of a process, or its call.
LEMMA PlaceCases ==
  ASSUME StreamsAssumption, NEW r \in Place
  PROVE  \E p \in Proc : r = <<p, Nil>> \/ \E fd \in Fid : r = <<p, fd>>
BY DEF Place

\* One place lets go of block o, or takes hold of block g.
LEMMA OnePlace ==
  ASSUME StreamsAssumption, NEW r \in Place, NEW g,
         Holds(r)' = g, \A s \in Place \ {r} : Holds(s)' = Holds(s), NEW f
  PROVE  /\ Cardinality(References(f)) \in Nat
         /\ f # g /\ f # Holds(r) => References(f)' = References(f)
         /\ f = g /\ f = Holds(r) => References(f)' = References(f)
         /\ f = g /\ f # Holds(r) =>
              /\ References(f)' # {}
              /\ Cardinality(References(f)') = Cardinality(References(f)) + 1
         /\ f # g /\ f = Holds(r) =>
              Cardinality(References(f)') = Cardinality(References(f)) - 1
<1>1. IsFiniteSet(References(f))
  BY ReferencesFinite
<1>2. CASE f = g
  <2>1. References(f)' = References(f) \cup {r}
    BY <1>2 DEF References, Place
  <2>2. r \in References(f) <=> f = Holds(r)
    BY DEF References
  <2>3. f = Holds(r) => References(f)' = References(f)
    BY <2>1, <2>2
  <2>4. References(f)' # {}
    BY <2>1
  <2>5. Cardinality(References(f)) \in Nat
    BY <1>1, FS_CardinalityType
  <2>6. f # Holds(r) => Cardinality(References(f)') = Cardinality(References(f)) + 1
    BY <1>1, <2>1, <2>2, FS_AddElement
  <2> QED BY <1>2, <2>3, <2>4, <2>5, <2>6
<1>3. CASE f # g
  <2>1. References(f)' = References(f) \ {r}
    BY <1>3 DEF References, Place
  <2>2. r \in References(f) <=> f = Holds(r)
    BY DEF References
  <2> QED BY <1>1, <1>3, <2>1, <2>2, FS_RemoveElement, FS_CardinalityType
<1> QED BY <1>2, <1>3
\* The counters and the free list stay exact when one place changes, if the
\* counters of what it held and of what it holds follow, and a block enters
\* the free list when its counter reaches 0 and leaves it when it is taken.
LEMMA OnePlaceExact ==
  ASSUME StreamsAssumption, StreamsInv, NEW r \in Place, NEW o, NEW g,
         o = Holds(r), g = Holds(r)', o # g,
         \A s \in Place \ {r} : Holds(s)' = Holds(s),
         \A f \in FCB \ {o, g} : refcount'[f] = refcount[f],
         o \in FCB => refcount'[o] = refcount[o] - 1,
         g \in FCB => refcount'[g] = IF g \in Range(FCB_freelist) THEN 1 ELSE refcount[g] + 1,
         IsInjective(FCB_freelist'),
         Range(FCB_freelist') =
           (Range(FCB_freelist) \ {g}) \cup {f \in FCB : f = o /\ refcount'[f] = 0}
  PROVE  RefcountExact' /\ FreelistExact'
<1>1. SUFFICES ASSUME NEW f \in FCB
      PROVE  /\ f \notin Range(FCB_freelist') => refcount'[f] = Cardinality(References(f)')
             /\ f \in Range(FCB_freelist') <=> References(f)' = {}
  BY DEF RefcountExact, FreelistExact
<1>2. /\ f \notin Range(FCB_freelist) => refcount[f] = Cardinality(References(f))
      /\ f \in Range(FCB_freelist) <=> References(f) = {}
      /\ refcount[f] \in Nat
  BY DEF StreamsInv, TypeOK, RefcountExact, FreelistExact
<1>3. /\ IsFiniteSet(References(f)) /\ IsFiniteSet(References(f)')
      /\ Cardinality({}) = 0
      /\ Cardinality(References(f)') = 0 <=> References(f)' = {}
  BY ReferencesFinite, FS_EmptySet
<1>4. CASE f # o /\ f # g
  <2>1. References(f)' = References(f)
    BY <1>4, OnePlace
  <2> QED BY <1>2, <1>4, <2>1
<1>5. CASE f = g
  <2>1. References(f)' # {} /\ Cardinality(References(f)') = Cardinality(References(f)) + 1
    BY <1>5, OnePlace
  <2>2. f \notin Range(FCB_freelist')
    BY <1>5
  <2>3. CASE f \in Range(FCB_freelist)
    <3>1. Cardinality(References(f)) = 0
      BY <1>2, <1>3, <2>3
    <3>2. refcount'[f] = 1
      BY <1>5, <2>3
    <3> QED BY <2>1, <2>2, <3>1, <3>2
  <2>4. CASE f \notin Range(FCB_freelist)
    BY <1>2, <1>5, <2>1, <2>2, <2>4
  <2> QED BY <2>3, <2>4
<1>6. CASE f = o
  <2>1. r \in References(f)
    BY <1>6 DEF References
  <2>2. Cardinality(References(f)') = Cardinality(References(f)) - 1
    BY <1>6, OnePlace
  <2>3. f \notin Range(FCB_freelist) /\ refcount'[f] = Cardinality(References(f)')
    BY <1>2, <1>6, <2>1, <2>2
  <2>4. f \in Range(FCB_freelist') <=> refcount'[f] = 0
    BY <1>6, <2>3
  <2> QED BY <1>3, <2>3, <2>4
<1> QED BY <1>4, <1>5, <1>6

----------------------------------------------------------------------------
\* initialize_files() makes a list of all blocks.
LEMMA InitStreams == ASSUME StreamsAssumption, Init PROVE StreamsInv
<1>1. FT \in [1..Cardinality(FCB) -> FCB] /\ IsInjective(FT)
  <2>1. ExistsBijection(1..Cardinality(FCB), FCB)
    BY FS_CardinalityType DEF StreamsAssumption
  <2>2. \E ft \in [1..Cardinality(FCB) -> FCB] : IsInjective(ft)
    BY <2>1 DEF ExistsBijection, Bijection, Injection
  <2> QED BY <2>2 DEF FT
<1>2. Cardinality(FCB) \in Nat
  BY FS_CardinalityType DEF StreamsAssumption
<1>3. FT \in Seq(FCB)
  BY <1>1, <1>2
<1>4. Range(FT) = FCB
  <2>1. FT \in Injection(1..Cardinality(FCB), FCB)
    BY <1>1 DEF Injection
  <2>2. Cardinality(1..Cardinality(FCB)) = Cardinality(FCB)
    BY <1>2, FS_Interval
  <2>3. FT \in Surjection(1..Cardinality(FCB), FCB)
    BY <2>1, <2>2, FS_Injection DEF StreamsAssumption
  <2> QED BY <1>1, <2>3 DEF Range, Surjection
<1>5. TypeOK
  BY <1>3 DEF Init, TypeOK, StreamsAssumption, NoFiles
<1>6. \A f \in FCB : References(f) = {}
  <2>1. \A r \in Place : Holds(r) = Nil
    <3>1. \A p \in Proc : used[p] = Nil /\ \A fd \in Fid : FIDT[p][fd] = Nil
      BY DEF Init, NoFiles
    <3>2. SUFFICES ASSUME NEW r \in Place PROVE Holds(r) = Nil
      OBVIOUS
    <3>3. PICK p \in Proc : r = <<p, Nil>> \/ \E fd \in Fid : r = <<p, fd>>
      BY PlaceCases
    <3>4. ASSUME NEW fd \in Fid PROVE fd # Nil
      BY DEF StreamsAssumption, Fid
    <3> QED BY <3>1, <3>3, <3>4 DEF Holds
  <2> QED BY <2>1 DEF References, StreamsAssumption
<1>7. FCB_freelist = FT
  BY DEF Init
<1>8. RefcountExact /\ FreelistExact
  BY <1>1, <1>4, <1>6, <1>7 DEF RefcountExact, FreelistExact
<1>9. DeadHoldNothing
  BY DEF DeadHoldNothing, Init
<1> QED BY <1>5, <1>8, <1>9 DEF StreamsInv
----------------------------------------------------------------------------
\* Taking the block at the head of the free list.
LEMMA ReserveLemma ==
  ASSUME StreamsAssumption, StreamsInv, NEW p \in Proc, CanReserve(p),
         NEW fd \in Fid, NEW f \in FCB, FCB_reserve(p, fd, f)
  PROVE  /\ FIDT[p][fd] = Nil
         /\ f \in Range(FCB_freelist) /\ f \notin Range(Tail(FCB_freelist))
         /\ Tail(FCB_freelist) \in Seq(FCB) /\ IsInjective(Tail(FCB_freelist))
         /\ Range(Tail(FCB_freelist)) = Range(FCB_freelist) \ {f}
<1>1. FIDT[p][fd] = Nil
  <2> DEFINE S == {i \in Fid : FIDT[p][i] = Nil}
  <2>1. S # {} /\ S \in SUBSET (0..MAX_FILEID) /\ MAX_FILEID \in Nat
    BY DEF CanReserve, StreamsAssumption, Fid
  <2>2. Min(S) \in S
    <3> HIDE DEF S
    <3> QED BY <2>1, MinLemma
  <2> QED BY <2>2 DEF FCB_reserve
<1>2. FCB_freelist \in Seq(FCB) /\ FCB_freelist # <<>> /\ IsInjective(FCB_freelist)
      /\ f = Head(FCB_freelist)
  BY DEF CanReserve, StreamsInv, TypeOK, FreelistExact, FCB_reserve
<1>3. /\ Tail(FCB_freelist) \in Seq(FCB) /\ IsInjective(Tail(FCB_freelist))
      /\ f \in Range(FCB_freelist) /\ f \notin Range(Tail(FCB_freelist))
      /\ Range(Tail(FCB_freelist)) \subseteq Range(FCB_freelist)
      /\ Range(FCB_freelist) \subseteq Range(Tail(FCB_freelist)) \cup {f}
  BY <1>2, TailLemma
<1> QED BY <1>1, <1>3

\* What a place holds that is not one of the places of p.
LEMMA OtherPlaces ==
  ASSUME StreamsAssumption, TypeOK, NEW p \in Proc, NEW x \in Fid \cup {Nil},
         \A q \in Proc : <<q, Nil>> # <<p, x>> => used'[q] = used[q],
         \A q \in Proc, fd \in Fid : <<q, fd>> # <<p, x>> => FIDT'[q][fd] = FIDT[q][fd]
  PROVE  <<p, x>> \in Place /\ \A s \in Place \ {<<p, x>>} : Holds(s)' = Holds(s)
<1>1. SUFFICES ASSUME NEW s \in Place \ {<<p, x>>} PROVE Holds(s)' = Holds(s)
  BY DEF Place
<1>2. PICK q \in Proc : s = <<q, Nil>> \/ \E fd \in Fid : s = <<q, fd>>
  BY PlaceCases
<1>3. CASE s = <<q, Nil>>
  BY <1>1, <1>3 DEF Holds
<1>4. ASSUME NEW fd \in Fid, s = <<q, fd>> PROVE Holds(s)' = Holds(s)
  <2>1. fd # Nil
    BY DEF StreamsAssumption, Fid
  <2> QED BY <1>1, <1>4, <2>1 DEF Holds
<1> QED BY <1>2, <1>3, <1>4

\* open_stream(): the block gets its first reference.
LEMMA OpenInv ==
  ASSUME StreamsAssumption, StreamsInv, NEW p \in Proc, NEW d \in Device, open_stream(p, d)
  PROVE  StreamsInv'
<1>1. PICK fd \in Fid, f \in FCB :
        /\ FCB_reserve(p, fd, f)
        /\ FIDT' = [FIDT EXCEPT ![p][fd] = f]
        /\ refcount' = [refcount EXCEPT ![f] = acquire_refcount(f) + 1]
        /\ streamobj' = [streamobj EXCEPT ![f] = d]
  BY DEF open_stream
<1>2. /\ CanReserve(p) /\ p \in live /\ TypeOK /\ DeadHoldNothing
      /\ FCB_freelist' = Tail(FCB_freelist) /\ UNCHANGED <<live, used>>
  BY DEF open_stream, Ready, StreamsInv
<1>3. /\ FIDT[p][fd] = Nil
      /\ f \in Range(FCB_freelist)
      /\ FCB_freelist' \in Seq(FCB) /\ IsInjective(FCB_freelist')
      /\ Range(FCB_freelist') = Range(FCB_freelist) \ {f}
  BY <1>1, <1>2, ReserveLemma
<1>4. TypeOK'
  BY <1>1, <1>2, <1>3 DEF TypeOK, acquire_refcount
<1>5. /\ Holds(<<p, fd>>) = Nil /\ Holds(<<p, fd>>)' = f
      /\ <<p, fd>> \in Place
      /\ \A s \in Place \ {<<p, fd>>} : Holds(s)' = Holds(s)
  <2>1. \A q \in Proc, x \in Fid : <<q, x>> # <<p, fd>> => FIDT'[q][x] = FIDT[q][x]
    BY <1>1, <1>2 DEF TypeOK
  <2>2. FIDT'[p][fd] = f
    BY <1>1, <1>2 DEF TypeOK
  <2> QED BY <1>2, <1>3, <2>1, <2>2, OtherPlaces, PlaceLemma
<1>6. Nil \notin FCB
  BY DEF StreamsAssumption
<1>7. /\ \A h \in FCB \ {Nil, f} : refcount'[h] = refcount[h]
      /\ refcount'[f] = 1
  BY <1>1, <1>2 DEF TypeOK, acquire_refcount
<1>8. RefcountExact' /\ FreelistExact'
  BY <1>3, <1>5, <1>6, <1>7, OnePlaceExact
<1>9. DeadHoldNothing'
  BY <1>1, <1>2 DEF DeadHoldNothing, TypeOK
<1> QED BY <1>4, <1>8, <1>9 DEF StreamsInv
\* A step that changes no place keeps the references.
LEMMA SameReferences ==
  ASSUME UNCHANGED <<FIDT, used>>
  PROVE  \A f : References(f)' = References(f)
BY DEF References, Holds, Place

\* FCB_unreserve(): the block goes back, with a stale counter.
LEMMA UnreserveInv ==
  ASSUME StreamsAssumption, StreamsInv, NEW p \in Proc, FCB_unreserve(p)
  PROVE  StreamsInv'
<1>1. PICK fd \in Fid, f \in FCB :
        /\ FCB_reserve(p, fd, f)
        /\ refcount' = [refcount EXCEPT ![f] = acquire_refcount(f) + 1]
        /\ FCB_freelist' = Append(Tail(FCB_freelist), f)
  BY DEF FCB_unreserve
<1>2. CanReserve(p) /\ TypeOK /\ UNCHANGED <<live, FIDT, streamobj, used>>
  BY DEF FCB_unreserve, StreamsInv
<1>3. /\ f \in Range(FCB_freelist) /\ f \notin Range(Tail(FCB_freelist))
      /\ Tail(FCB_freelist) \in Seq(FCB) /\ IsInjective(Tail(FCB_freelist))
      /\ Range(Tail(FCB_freelist)) = Range(FCB_freelist) \ {f}
  BY <1>1, <1>2, ReserveLemma
<1>4. /\ FCB_freelist' \in Seq(FCB) /\ IsInjective(FCB_freelist')
      /\ Range(FCB_freelist') = Range(FCB_freelist)
  <2>1. /\ FCB_freelist' \in Seq(FCB) /\ IsInjective(FCB_freelist')
        /\ Range(FCB_freelist') = Range(Tail(FCB_freelist)) \cup {f}
    <3> DEFINE t == Tail(FCB_freelist)
    <3>1. t \in Seq(FCB) /\ IsInjective(t) /\ f \notin Range(t) /\ FCB_freelist' = Append(t, f)
      BY <1>1, <1>3
    <3> HIDE DEF t
    <3>2. /\ FCB_freelist' \in Seq(FCB) /\ IsInjective(FCB_freelist')
          /\ Range(FCB_freelist') = Range(t) \cup {f}
      BY <3>1, AppendLemma
    <3> QED BY <3>2 DEF t
  <2> QED BY <1>3, <2>1
<1>5. TypeOK'
  BY <1>1, <1>2, <1>4 DEF TypeOK, acquire_refcount
<1>6. \A h : References(h)' = References(h)
  BY <1>2, SameReferences
<1>7. \A h \in FCB : h \notin Range(FCB_freelist) => refcount'[h] = refcount[h]
  BY <1>1, <1>2, <1>3 DEF TypeOK
<1>8. RefcountExact' /\ FreelistExact'
  BY <1>4, <1>6, <1>7 DEF RefcountExact, FreelistExact, StreamsInv
<1>9. DeadHoldNothing'
  BY <1>2 DEF DeadHoldNothing, StreamsInv
<1> QED BY <1>5, <1>8, <1>9 DEF StreamsInv

\* A place of p holds a block: the block is not free, and its counter is at
\* least 1.
LEMMA HeldBlock ==
  ASSUME StreamsAssumption, StreamsInv, NEW r \in Place, NEW f \in FCB, Holds(r) = f
  PROVE  f \notin Range(FCB_freelist) /\ refcount[f] \in Nat /\ refcount[f] - 1 \in Nat
<1>1. r \in References(f)
  BY DEF References
<1>2. f \notin Range(FCB_freelist) /\ refcount[f] = Cardinality(References(f))
  BY <1>1 DEF StreamsInv, RefcountExact, FreelistExact
<1>3. IsFiniteSet(References(f))
  BY ReferencesFinite
<1>4. Cardinality(References(f)) \in Nat /\ Cardinality(References(f)) # 0
  BY <1>1, <1>3, FS_CardinalityType, FS_EmptySet
<1> QED BY <1>2, <1>4

\* The free list after FCB_decref().
LEMMA DecrefList ==
  ASSUME StreamsInv, NEW f \in FCB, f \notin Range(FCB_freelist), NEW n,
         FCB_freelist' = IF Unreferenced(n) THEN Append(FCB_freelist, f) ELSE FCB_freelist
  PROVE  /\ FCB_freelist' \in Seq(FCB) /\ IsInjective(FCB_freelist')
         /\ Range(FCB_freelist') = Range(FCB_freelist) \cup {h \in FCB : h = f /\ n = 0}
<1>1. FCB_freelist \in Seq(FCB) /\ IsInjective(FCB_freelist)
  BY DEF StreamsInv, TypeOK, FreelistExact
<1>2. CASE n = 0
  <2>1. FCB_freelist' = Append(FCB_freelist, f)
    BY <1>2 DEF Unreferenced
  <2>2. /\ FCB_freelist' \in Seq(FCB) /\ IsInjective(FCB_freelist')
        /\ Range(FCB_freelist') = Range(FCB_freelist) \cup {f}
    BY <1>1, <2>1, AppendLemma
  <2> QED BY <1>2, <2>2
<1>3. CASE n # 0
  <2>1. FCB_freelist' = FCB_freelist
    BY <1>3 DEF Unreferenced
  <2> QED BY <1>1, <1>3, <2>1
<1> QED BY <1>2, <1>3

\* sys_Read(), sys_Write(): one reference more.
LEMMA ReadInv ==
  ASSUME StreamsAssumption, StreamsInv, NEW p \in Proc, NEW fd \in Fid, sys_Read(p, fd)
  PROVE  StreamsInv'
<1> DEFINE f == FIDT[p][fd]
<1>1. /\ TypeOK /\ p \in live /\ used[p] = Nil /\ f # Nil
      /\ refcount' = [refcount EXCEPT ![f] = @ + 1]
      /\ used' = [used EXCEPT ![p] = f]
      /\ UNCHANGED <<live, FIDT, streamobj, FCB_freelist>>
  BY DEF sys_Read, Ready, get_fcb, FCB_incref, StreamsInv
<1>2. f \in FCB
  BY <1>1 DEF TypeOK
<1>3. /\ Holds(<<p, Nil>>) = Nil /\ Holds(<<p, Nil>>)' = f
      /\ <<p, Nil>> \in Place
      /\ \A s \in Place \ {<<p, Nil>>} : Holds(s)' = Holds(s)
  <2>1. \A q \in Proc : <<q, Nil>> # <<p, Nil>> => used'[q] = used[q]
    BY <1>1 DEF TypeOK
  <2>2. used'[p] = f
    BY <1>1 DEF TypeOK
  <2> QED BY <1>1, <2>1, <2>2, OtherPlaces, PlaceLemma
<1>4. f \notin Range(FCB_freelist)
  BY <1>2, HeldBlock, PlaceLemma
<1> HIDE DEF f
<1>5. TypeOK'
  BY <1>1, <1>2 DEF TypeOK
<1>6. /\ \A h \in FCB \ {Nil, f} : refcount'[h] = refcount[h]
      /\ refcount'[f] = refcount[f] + 1
  BY <1>1, <1>2 DEF TypeOK
<1>7. /\ IsInjective(FCB_freelist')
      /\ Range(FCB_freelist') = Range(FCB_freelist) \ {f}
  BY <1>1, <1>4 DEF StreamsInv, FreelistExact
<1>8. Nil \notin FCB
  BY DEF StreamsAssumption
<1>9. RefcountExact' /\ FreelistExact'
  BY <1>1, <1>2, <1>3, <1>4, <1>6, <1>7, <1>8, OnePlaceExact
<1>10. DeadHoldNothing'
  BY <1>1 DEF DeadHoldNothing, TypeOK, StreamsInv
<1> QED BY <1>5, <1>9, <1>10 DEF StreamsInv

\* The driver returns, or Close(): one reference less.  x is the place.
LEMMA DropInv ==
  ASSUME StreamsAssumption, StreamsInv, NEW p \in Proc, NEW x \in Fid \cup {Nil},
         NEW f \in FCB, Holds(<<p, x>>) = f, Holds(<<p, x>>)' = Nil,
         \A s \in Place \ {<<p, x>>} : Holds(s)' = Holds(s),
         FCB_decref(f)
  PROVE  /\ RefcountExact' /\ FreelistExact'
         /\ refcount' \in [FCB -> Nat] /\ FCB_freelist' \in Seq(FCB)
<1>1. <<p, x>> \in Place /\ Nil \notin FCB
  BY DEF Place, StreamsAssumption
<1>2. f \notin Range(FCB_freelist) /\ refcount[f] - 1 \in Nat /\ refcount[f] \in Nat
  BY <1>1, HeldBlock
<1>3. /\ refcount \in [FCB -> Nat]
      /\ refcount' = [refcount EXCEPT ![f] = @ - 1]
  BY DEF FCB_decref, StreamsInv, TypeOK
<1>4. /\ FCB_freelist' \in Seq(FCB) /\ IsInjective(FCB_freelist')
      /\ Range(FCB_freelist') =
           Range(FCB_freelist) \cup {h \in FCB : h = f /\ refcount[f] - 1 = 0}
  BY <1>2, DecrefList DEF FCB_decref
<1>5. /\ \A h \in FCB \ {f, Nil} : refcount'[h] = refcount[h]
      /\ refcount'[f] = refcount[f] - 1
      /\ refcount' \in [FCB -> Nat]
  BY <1>2, <1>3
<1>6. Range(FCB_freelist') =
        (Range(FCB_freelist) \ {Nil}) \cup {h \in FCB : h = f /\ refcount'[h] = 0}
  <2>1. Range(FCB_freelist) \subseteq FCB
    BY RangeType DEF StreamsInv, TypeOK
  <2> QED BY <1>1, <1>4, <1>5, <2>1
<1>7. RefcountExact' /\ FreelistExact'
  BY <1>1, <1>4, <1>5, <1>6, OnePlaceExact
<1> QED BY <1>4, <1>5, <1>7

\* The driver has returned.
LEMMA ReadReturnInv ==
  ASSUME StreamsAssumption, StreamsInv, NEW p \in Proc, sys_Read_return(p)
  PROVE  StreamsInv'
<1>1. /\ TypeOK /\ used[p] # Nil /\ FCB_decref(used[p])
      /\ used' = [used EXCEPT ![p] = Nil]
      /\ UNCHANGED <<live, FIDT, streamobj>>
  BY DEF sys_Read_return, StreamsInv
<1>2. used[p] \in FCB
  BY <1>1 DEF TypeOK
<1>3. /\ Holds(<<p, Nil>>) = used[p] /\ Holds(<<p, Nil>>)' = Nil
      /\ \A s \in Place \ {<<p, Nil>>} : Holds(s)' = Holds(s)
  <2>1. \A q \in Proc : <<q, Nil>> # <<p, Nil>> => used'[q] = used[q]
    BY <1>1 DEF TypeOK
  <2>2. used'[p] = Nil
    BY <1>1 DEF TypeOK
  <2> QED BY <1>1, <2>1, <2>2, OtherPlaces, PlaceLemma
<1>4. /\ RefcountExact' /\ FreelistExact'
      /\ refcount' \in [FCB -> Nat] /\ FCB_freelist' \in Seq(FCB)
  BY <1>1, <1>2, <1>3, DropInv
<1>5. TypeOK'
  BY <1>1, <1>4 DEF TypeOK
<1>6. DeadHoldNothing'
  BY <1>1 DEF DeadHoldNothing, TypeOK, StreamsInv
<1> QED BY <1>4, <1>5, <1>6 DEF StreamsInv

\* Close().
LEMMA CloseInv ==
  ASSUME StreamsAssumption, StreamsInv, NEW p \in Proc, NEW fd \in Fid, sys_Close(p, fd)
  PROVE  StreamsInv'
<1>1. /\ TypeOK /\ p \in live /\ FIDT[p][fd] # Nil /\ FCB_decref(FIDT[p][fd])
      /\ FIDT' = [FIDT EXCEPT ![p][fd] = Nil]
      /\ UNCHANGED <<live, streamobj, used>>
  BY DEF sys_Close, Ready, get_fcb, StreamsInv
<1>2. FIDT[p][fd] \in FCB
  BY <1>1 DEF TypeOK
<1>3. /\ Holds(<<p, fd>>) = FIDT[p][fd] /\ Holds(<<p, fd>>)' = Nil
      /\ \A s \in Place \ {<<p, fd>>} : Holds(s)' = Holds(s)
  <2>1. \A q \in Proc, x \in Fid : <<q, x>> # <<p, fd>> => FIDT'[q][x] = FIDT[q][x]
    BY <1>1 DEF TypeOK
  <2>2. FIDT'[p][fd] = Nil
    BY <1>1 DEF TypeOK
  <2> QED BY <1>1, <2>1, <2>2, OtherPlaces, PlaceLemma
<1>4. /\ RefcountExact' /\ FreelistExact'
      /\ refcount' \in [FCB -> Nat] /\ FCB_freelist' \in Seq(FCB)
  BY <1>1, <1>2, <1>3, DropInv
<1>5. TypeOK'
  BY <1>1, <1>4 DEF TypeOK
<1>6. DeadHoldNothing'
  BY <1>1 DEF DeadHoldNothing, TypeOK, StreamsInv
<1> QED BY <1>4, <1>5, <1>6 DEF StreamsInv
\* Dup2(): a file id gets another block.
LEMMA Dup2Inv ==
  ASSUME StreamsAssumption, StreamsInv, NEW p \in Proc,
         NEW oldfd \in Fid, NEW newfd \in Fid, sys_Dup2(p, oldfd, newfd)
  PROVE  StreamsInv'
<1> DEFINE old == FIDT[p][oldfd]
           new == FIDT[p][newfd]
<1>1. /\ TypeOK /\ p \in live /\ old # Nil /\ old # new
      /\ Dup2_replace(old, new)
      /\ FIDT' = [FIDT EXCEPT ![p][newfd] = old]
      /\ UNCHANGED <<live, streamobj, used>>
  BY DEF sys_Dup2, Ready, get_fcb, StreamsInv
<1>2. old \in FCB /\ new \in FCB \cup {Nil} /\ Nil \notin FCB
  BY <1>1 DEF TypeOK, StreamsAssumption
<1>3. /\ Holds(<<p, newfd>>) = new /\ Holds(<<p, newfd>>)' = old
      /\ <<p, newfd>> \in Place
      /\ \A s \in Place \ {<<p, newfd>>} : Holds(s)' = Holds(s)
  <2>1. \A q \in Proc, x \in Fid : <<q, x>> # <<p, newfd>> => FIDT'[q][x] = FIDT[q][x]
    BY <1>1 DEF TypeOK
  <2>2. FIDT'[p][newfd] = old
    BY <1>1 DEF TypeOK
  <2> QED BY <1>1, <2>1, <2>2, OtherPlaces, PlaceLemma
<1>4. old \notin Range(FCB_freelist)
  BY <1>2, HeldBlock, PlaceLemma
<1>5. \A fd \in Fid : fd # newfd => FIDT'[p][fd] = FIDT[p][fd]
  BY <1>1 DEF TypeOK
<1>6. FIDT' \in [Proc -> [Fid -> FCB \cup {Nil}]]
  BY <1>1, <1>2 DEF TypeOK
<1>7. DeadHoldNothing'
  BY <1>1 DEF DeadHoldNothing, TypeOK, StreamsInv
<1>8. /\ \A h \in FCB \ {new, old} : refcount'[h] = refcount[h]
      /\ new \in FCB => refcount'[new] = refcount[new] - 1
      /\ refcount'[old] = refcount[old] + 1
      /\ refcount' \in [FCB -> Nat] /\ FCB_freelist' \in Seq(FCB)
      /\ IsInjective(FCB_freelist')
      /\ Range(FCB_freelist') =
           (Range(FCB_freelist) \ {old}) \cup {h \in FCB : h = new /\ refcount'[h] = 0}
  <2>1. /\ refcount \in [FCB -> Nat] /\ FCB_freelist \in Seq(FCB)
        /\ IsInjective(FCB_freelist)
    BY DEF StreamsInv, TypeOK, FreelistExact
  <2>2. CASE new = Nil
    <3> HIDE DEF old, new
    <3>1. refcount' = [refcount EXCEPT ![old] = @ + 1] /\ FCB_freelist' = FCB_freelist
      BY <1>1, <2>2 DEF Dup2_replace, FCB_incref
    <3>2. {h \in FCB : h = new /\ refcount'[h] = 0} = {}
      BY <1>2, <2>2
    <3> QED BY <1>2, <1>4, <2>1, <2>2, <3>1, <3>2
  <2>3. CASE new # Nil
    <3>1. new \in FCB /\ <<p, newfd>> \in Place
      BY <1>2, <1>3, <2>3
    <3>2. new \notin Range(FCB_freelist) /\ refcount[new] \in Nat /\ refcount[new] - 1 \in Nat
      BY <1>3, <3>1, HeldBlock
    <3> HIDE DEF old, new
    <3>3. /\ refcount' = [refcount EXCEPT ![new] = @ - 1, ![old] = @ + 1]
          /\ FCB_freelist' = IF Unreferenced(refcount[new] - 1)
                             THEN Append(FCB_freelist, new) ELSE FCB_freelist
      BY <1>1, <2>3 DEF Dup2_replace
    <3>4. /\ FCB_freelist' \in Seq(FCB) /\ IsInjective(FCB_freelist')
          /\ Range(FCB_freelist') =
               Range(FCB_freelist) \cup {h \in FCB : h = new /\ refcount[new] - 1 = 0}
      BY <3>1, <3>2, <3>3, DecrefList
    <3>5. /\ \A h \in FCB \ {new, old} : refcount'[h] = refcount[h]
          /\ refcount'[new] = refcount[new] - 1
          /\ refcount'[old] = refcount[old] + 1
          /\ refcount' \in [FCB -> Nat]
      <4>1. old # new /\ old \in FCB /\ refcount[old] + 1 \in Nat
        BY <1>1, <1>2, <2>1
      <4>2. \A h \in FCB : refcount'[h] = IF h = old THEN refcount[old] + 1
                                        ELSE IF h = new THEN refcount[new] - 1 ELSE refcount[h]
        BY <2>1, <3>1, <3>3, <4>1
      <4>3. refcount' \in [FCB -> Int]
        BY <2>1, <3>1, <3>3, <4>1
      <4> QED BY <2>1, <3>1, <3>2, <4>1, <4>2, <4>3
    <3>6. Range(FCB_freelist') =
            (Range(FCB_freelist) \ {old}) \cup {h \in FCB : h = new /\ refcount'[h] = 0}
      BY <1>4, <3>4, <3>5
    <3> QED BY <3>4, <3>5, <3>6
  <2> QED BY <2>2, <2>3
<1> HIDE DEF old, new
<1>9. RefcountExact' /\ FreelistExact'
  BY <1>1, <1>2, <1>3, <1>4, <1>8, OnePlaceExact
<1>10. TypeOK'
  BY <1>1, <1>6, <1>8 DEF TypeOK
<1> QED BY <1>7, <1>9, <1>10 DEF StreamsInv

----------------------------------------------------------------------------
\* The places of p that name f are as many as its file ids that do.
LEMMA RowLemma ==
  ASSUME StreamsAssumption, NEW p, NEW F \in SUBSET Fid
  PROVE  /\ IsFiniteSet(F) /\ Cardinality(F) \in Nat
         /\ IsFiniteSet({p} \X F)
         /\ Cardinality({p} \X F) = Cardinality(F)
<1>1. IsFiniteSet(F) /\ Cardinality(F) \in Nat
  <2>1. IsFiniteSet(Fid)
    BY FS_Interval DEF StreamsAssumption, Fid
  <2> QED BY <2>1, FS_Subset, FS_CardinalityType
<1>2. IsFiniteSet({p}) /\ Cardinality({p}) = 1
  BY FS_Singleton
<1>3. IsFiniteSet({p} \X F) /\ Cardinality({p} \X F) = Cardinality({p}) * Cardinality(F)
  BY <1>1, <1>2, FS_Product
<1> QED BY <1>1, <1>2, <1>3

\* sys_Exec(): the child gets a reference for each one of its parent.
LEMMA ExecInv ==
  ASSUME StreamsAssumption, StreamsInv, NEW p \in Proc, NEW c \in Proc, Exec_inherit(p, c)
  PROVE  StreamsInv'
<1>1. /\ TypeOK /\ p \in live /\ c \in Proc \ live /\ live' = live \cup {c}
      /\ FIDT' = [FIDT EXCEPT ![c] = FIDT[p]]
      /\ refcount' = [f \in FCB |-> refcount[f] + Cardinality(FidsOf(p, f))]
      /\ UNCHANGED <<streamobj, FCB_freelist, used>>
  BY DEF Exec_inherit, Ready, StreamsInv
<1>2. FIDT[c] = NoFiles /\ used[c] = Nil
  BY <1>1 DEF StreamsInv, DeadHoldNothing
<1>3. \A f \in FCB : FidsOf(p, f) \in SUBSET Fid
  BY DEF FidsOf
<1>4. \A f \in FCB : refcount'[f] = refcount[f] + Cardinality(FidsOf(p, f))
                     /\ Cardinality(FidsOf(p, f)) \in Nat
  BY <1>1, <1>3, RowLemma
<1>5. TypeOK'
  BY <1>1, <1>4 DEF TypeOK
<1>6. DeadHoldNothing'
  BY <1>1 DEF DeadHoldNothing, TypeOK, StreamsInv
<1>7. ASSUME NEW f \in FCB
      PROVE  /\ References(f)' = References(f) \cup ({c} \X FidsOf(p, f))
             /\ References(f) \cap ({c} \X FidsOf(p, f)) = {}
             /\ References(f) = {} => FidsOf(p, f) = {}
  <2>1. f # Nil
    BY DEF StreamsAssumption
  <2>2. \A fd \in Fid : fd # Nil
    BY DEF StreamsAssumption, Fid
  <2>3. \A fd \in Fid : Holds(<<c, fd>>) = Nil
    BY <1>2, <2>2 DEF Holds, NoFiles
  <2>4. ASSUME NEW r \in Place
        PROVE  r \in References(f)' <=> r \in References(f) \/ r \in {c} \X FidsOf(p, f)
    <3>1. PICK q \in Proc : r = <<q, Nil>> \/ \E fd \in Fid : r = <<q, fd>>
      BY PlaceCases
    <3>2. CASE r = <<q, Nil>>
      <4>1. r \notin {c} \X FidsOf(p, f)
        BY <2>2, <3>2 DEF FidsOf
      <4>2. Holds(r)' = Holds(r)
        BY <1>1, <3>2 DEF Holds
      <4> QED BY <4>1, <4>2 DEF References
    <3>3. ASSUME NEW fd \in Fid, r = <<q, fd>>
          PROVE  r \in References(f)' <=> r \in References(f) \/ r \in {c} \X FidsOf(p, f)
      <4>1. Holds(r) = FIDT[q][fd] /\ Holds(r)' = FIDT'[q][fd]
        BY <2>2, <3>3 DEF Holds
      <4>2. r \in {c} \X FidsOf(p, f) <=> q = c /\ FIDT[p][fd] = f
        BY <3>3 DEF FidsOf
      <4>3. FIDT'[q][fd] = IF q = c THEN FIDT[p][fd] ELSE FIDT[q][fd]
        BY <1>1 DEF TypeOK
      <4>4. q = c => Holds(r) = Nil
        BY <2>3, <3>3
      <4> QED BY <2>1, <4>1, <4>2, <4>3, <4>4 DEF References
    <3> QED BY <3>1, <3>2, <3>3
  <2>5. References(f) \subseteq Place /\ References(f)' \subseteq Place
    BY DEF References, Place
  <2>6. {c} \X FidsOf(p, f) \subseteq Place
    BY DEF FidsOf, Place
  <2>7. References(f)' = References(f) \cup ({c} \X FidsOf(p, f))
    BY <2>4, <2>5, <2>6
  <2>8. References(f) \cap ({c} \X FidsOf(p, f)) = {}
    BY <2>1, <2>3 DEF References, FidsOf
  <2>9. \A fd \in FidsOf(p, f) : <<p, fd>> \in References(f)
    BY <2>2 DEF FidsOf, References, Holds, Place
  <2> QED BY <2>7, <2>8, <2>9
<1>8. ASSUME NEW f \in FCB
      PROVE  /\ f \notin Range(FCB_freelist') => refcount'[f] = Cardinality(References(f)')
             /\ f \in Range(FCB_freelist') <=> References(f)' = {}
  <2>1. /\ f \notin Range(FCB_freelist) => refcount[f] = Cardinality(References(f))
        /\ f \in Range(FCB_freelist) <=> References(f) = {}
    BY DEF StreamsInv, RefcountExact, FreelistExact
  <2> DEFINE R == References(f)
             N == {c} \X FidsOf(p, f)
  <2>2. IsFiniteSet(R) /\ IsFiniteSet(N) /\ Cardinality(N) = Cardinality(FidsOf(p, f))
    BY <1>3, ReferencesFinite, RowLemma
  <2>3. Cardinality(R \cup N) = Cardinality(R) + Cardinality(N)
    <3>1. R \cap N = {} /\ Cardinality({}) = 0
      BY <1>7, FS_EmptySet
    <3> HIDE DEF R, N
    <3>2. Cardinality(R \cup N) = Cardinality(R) + Cardinality(N) - Cardinality(R \cap N)
      BY <2>2, FS_Union
    <3>3. Cardinality(R) \in Nat /\ Cardinality(N) \in Nat
      BY <2>2, FS_CardinalityType
    <3>4. Cardinality(R \cap N) = 0
      BY <3>1
    <3> QED BY <3>2, <3>3, <3>4
  <2>4. References(f)' = R \cup N
    BY <1>7
  <2>5. References(f)' = {} <=> References(f) = {}
    BY <1>7
  <2> QED BY <1>1, <1>4, <2>1, <2>2, <2>3, <2>4, <2>5
<1>9. RefcountExact' /\ FreelistExact'
  BY <1>1, <1>8 DEF RefcountExact, FreelistExact, StreamsInv
<1> QED BY <1>5, <1>6, <1>9 DEF StreamsInv
\* The blocks that sys_Exit() closes form a list without duplicates.
LEMMA ClosedList ==
  ASSUME StreamsAssumption, NEW p \in Proc, NEW closed \in SUBSET FCB,
         \A f \in closed : FidsOf(p, f) # {},
         NEW s \in [1..Cardinality(closed) -> closed],
         \A m, n \in DOMAIN s : m < n => Max(FidsOf(p, s[m])) < Max(FidsOf(p, s[n]))
  PROVE  s \in Seq(FCB) /\ IsInjective(s) /\ Range(s) = closed
<1>1. IsFiniteSet(closed) /\ Cardinality(closed) \in Nat
  BY FS_Subset, FS_CardinalityType DEF StreamsAssumption
<1>2. s \in Seq(FCB)
  BY <1>1
<1>3. \A f \in closed : Max(FidsOf(p, f)) \in Int
  <2>1. SUFFICES ASSUME NEW f \in closed PROVE Max(FidsOf(p, f)) \in Int
    OBVIOUS
  <2>2. FidsOf(p, f) \in SUBSET (0..MAX_FILEID) /\ MAX_FILEID \in Nat
    BY DEF FidsOf, Fid, StreamsAssumption
  <2>3. Max(FidsOf(p, f)) \in FidsOf(p, f)
    BY <2>2, MaxLemma
  <2> QED BY <2>2, <2>3
<1>4. \A m, n \in DOMAIN s : m < n => s[m] # s[n]
  <2>1. \A m \in DOMAIN s : s[m] \in closed
    OBVIOUS
  <2> QED BY <1>3, <2>1
<1>5. IsInjective(s)
  <2>1. \A m, n \in DOMAIN s : m < n \/ n < m \/ m = n
    BY <1>1
  <2> QED BY <1>4, <2>1 DEF IsInjective
<1>6. s \in Surjection(1..Cardinality(closed), closed)
  <2>1. s \in Injection(1..Cardinality(closed), closed)
    BY <1>5 DEF Injection
  <2>2. Cardinality(1..Cardinality(closed)) = Cardinality(closed)
    BY <1>1, FS_Interval
  <2> QED BY <1>1, <2>1, <2>2, FS_Injection
<1>7. Range(s) = closed
  BY <1>6 DEF Range, Surjection
<1> QED BY <1>2, <1>5, <1>7

\* sys_Exit(): the process gives up all its references.
LEMMA ExitInv ==
  ASSUME StreamsAssumption, StreamsInv, NEW p \in Proc, Exit_cleanup(p)
  PROVE  StreamsInv'
<1> DEFINE left(f) == refcount[f] - Cardinality(FidsOf(p, f))
           closed == {f \in FCB : FidsOf(p, f) # {} /\ Unreferenced(left(f))}
<1>1. /\ TypeOK /\ p \in live /\ used[p] = Nil /\ live' = live \ {p}
      /\ refcount' = [f \in FCB |-> left(f)]
      /\ FIDT' = [FIDT EXCEPT ![p] = NoFiles]
      /\ UNCHANGED <<streamobj, used>>
  BY DEF Exit_cleanup, Exit_FIDT, Ready, StreamsInv
<1>2. PICK s \in [1..Cardinality(closed) -> closed] :
        /\ \A m, n \in DOMAIN s : m < n => Max(FidsOf(p, s[m])) < Max(FidsOf(p, s[n]))
        /\ FCB_freelist' = FCB_freelist \o s
  BY DEF Exit_cleanup
<1>3. \A f \in FCB : FidsOf(p, f) \in SUBSET Fid
  BY DEF FidsOf
<1>4. \A f \in FCB : Cardinality(FidsOf(p, f)) \in Nat
  BY <1>3, RowLemma
<1>5. ASSUME NEW f \in FCB
      PROVE  /\ References(f)' = References(f) \ ({p} \X FidsOf(p, f))
             /\ {p} \X FidsOf(p, f) \subseteq References(f)
  <2>1. f # Nil
    BY DEF StreamsAssumption
  <2>2. \A fd \in Fid : fd # Nil
    BY DEF StreamsAssumption, Fid
  <2>3. ASSUME NEW r \in Place
        PROVE  r \in References(f)' <=> r \in References(f) /\ r \notin {p} \X FidsOf(p, f)
    <3>1. PICK q \in Proc : r = <<q, Nil>> \/ \E fd \in Fid : r = <<q, fd>>
      BY PlaceCases
    <3>2. CASE r = <<q, Nil>>
      <4>1. r \notin {p} \X FidsOf(p, f)
        BY <2>2, <3>2 DEF FidsOf
      <4>2. Holds(r)' = Holds(r)
        BY <1>1, <3>2 DEF Holds
      <4> QED BY <4>1, <4>2 DEF References
    <3>3. ASSUME NEW fd \in Fid, r = <<q, fd>>
          PROVE  r \in References(f)' <=> r \in References(f) /\ r \notin {p} \X FidsOf(p, f)
      <4>1. Holds(r) = FIDT[q][fd] /\ Holds(r)' = FIDT'[q][fd]
        BY <2>2, <3>3 DEF Holds
      <4>2. r \in {p} \X FidsOf(p, f) <=> q = p /\ FIDT[p][fd] = f
        BY <3>3 DEF FidsOf
      <4>3. FIDT'[q][fd] = IF q = p THEN Nil ELSE FIDT[q][fd]
        BY <1>1 DEF TypeOK, NoFiles
      <4> QED BY <2>1, <4>1, <4>2, <4>3 DEF References
    <3> QED BY <3>1, <3>2, <3>3
  <2>4. References(f) \subseteq Place /\ References(f)' \subseteq Place
    BY DEF References, Place
  <2>5. {p} \X FidsOf(p, f) \subseteq References(f)
    BY <2>2 DEF FidsOf, References, Holds, Place
  <2> QED BY <2>3, <2>4, <2>5
<1>6. ASSUME NEW f \in FCB, f \notin Range(FCB_freelist)
      PROVE  left(f) = Cardinality(References(f)') /\ left(f) \in Nat
  <2>1. refcount[f] = Cardinality(References(f)) /\ refcount[f] \in Nat
    BY <1>6 DEF StreamsInv, RefcountExact, TypeOK
  <2> DEFINE R == References(f)
             N == {p} \X FidsOf(p, f)
  <2>2. IsFiniteSet(R) /\ Cardinality(N) = Cardinality(FidsOf(p, f)) /\ N \subseteq R
    BY <1>3, <1>5, ReferencesFinite, RowLemma
  <2>3. References(f)' = R \ N /\ IsFiniteSet(References(f)')
    BY <1>5, ReferencesFinite
  <2>4. Cardinality(R \ N) = Cardinality(R) - Cardinality(N)
    <3> HIDE DEF R, N
    <3>1. Cardinality(R \ N) = Cardinality(R) - Cardinality(R \cap N)
      BY <2>2, FS_Difference
    <3>2. R \cap N = N
      BY <2>2
    <3> QED BY <3>1, <3>2
  <2>5. Cardinality(References(f)') \in Nat
    BY <2>3, FS_CardinalityType
  <2> QED BY <2>1, <2>2, <2>3, <2>4, <2>5
<1>7. ASSUME NEW f \in Range(FCB_freelist)
      PROVE  f \in FCB /\ FidsOf(p, f) = {} /\ References(f)' = {} /\ left(f) = refcount[f]
             /\ left(f) \in Nat
  <2>1. f \in FCB /\ refcount[f] \in Nat
    BY RangeType DEF StreamsInv, TypeOK
  <2>2. References(f) = {}
    BY <2>1 DEF StreamsInv, FreelistExact
  <2>3. FidsOf(p, f) = {} /\ References(f)' = {}
    <3>1. {p} \X FidsOf(p, f) \subseteq {} /\ References(f)' = {}
      BY <1>5, <2>1, <2>2
    <3>2. \A fd \in FidsOf(p, f) : <<p, fd>> \in {p} \X FidsOf(p, f)
      OBVIOUS
    <3> QED BY <3>1, <3>2
  <2>4. Cardinality(FidsOf(p, f)) = 0
    BY <2>3, FS_EmptySet
  <2> QED BY <2>1, <2>3, <2>4
<1>8. closed \in SUBSET FCB /\ \A f \in closed : FidsOf(p, f) # {}
  OBVIOUS
<1>9. s \in Seq(FCB) /\ IsInjective(s) /\ Range(s) = closed
  <2> HIDE DEF closed
  <2> QED BY <1>2, <1>8, ClosedList
<1>10. /\ FCB_freelist' \in Seq(FCB) /\ IsInjective(FCB_freelist')
       /\ Range(FCB_freelist') = Range(FCB_freelist) \cup closed
  <2>1. Range(FCB_freelist) \cap closed = {}
    BY <1>7
  <2>2. FCB_freelist \in Seq(FCB) /\ IsInjective(FCB_freelist)
    BY DEF StreamsInv, TypeOK, FreelistExact
  <2> HIDE DEF closed
  <2> QED BY <1>2, <1>9, <2>1, <2>2, ConcatLemma
<1>11. \A f \in FCB : refcount'[f] = left(f) /\ left(f) \in Nat
  BY <1>1, <1>6, <1>7
<1>12. TypeOK'
  <2>1. refcount' \in [FCB -> Nat]
    <3> HIDE DEF left
    <3> QED BY <1>1, <1>11
  <2>2. FIDT' \in [Proc -> [Fid -> FCB \cup {Nil}]]
    BY <1>1 DEF TypeOK, NoFiles
  <2> QED BY <1>1, <1>10, <2>1, <2>2 DEF TypeOK
<1>13. DeadHoldNothing'
  BY <1>1 DEF DeadHoldNothing, TypeOK, StreamsInv
<1>14. ASSUME NEW f \in FCB
       PROVE  /\ f \notin Range(FCB_freelist') => refcount'[f] = Cardinality(References(f)')
              /\ f \in Range(FCB_freelist') <=> References(f)' = {}
  <2>1. CASE f \in Range(FCB_freelist)
    BY <1>7, <1>10, <2>1
  <2>2. CASE f \notin Range(FCB_freelist)
    <3>1. refcount'[f] = Cardinality(References(f)')
      BY <1>6, <1>11, <2>2
    <3>2. IsFiniteSet(References(f)')
      BY ReferencesFinite
    <3>3. Cardinality(References(f)') = 0 <=> References(f)' = {}
      BY <3>2, FS_EmptySet
    <3>4. FidsOf(p, f) = {} => References(f)' # {}
      <4>1. References(f) # {}
        BY <2>2 DEF StreamsInv, FreelistExact
      <4> QED BY <1>5, <4>1
    <3>5. f \in closed <=> References(f)' = {}
      BY <1>11, <3>1, <3>3, <3>4 DEF Unreferenced
    <3> QED BY <1>10, <2>2, <3>1, <3>5
  <2> QED BY <2>1, <2>2
<1>15. RefcountExact' /\ FreelistExact'
  BY <1>10, <1>14 DEF RefcountExact, FreelistExact
<1> QED BY <1>12, <1>13, <1>15 DEF StreamsInv

----------------------------------------------------------------------------
\* Every step keeps the invariant.
LEMMA StreamsStep ==
  ASSUME StreamsAssumption, StreamsInv, [Next]_vars
  PROVE  StreamsInv'
<1>1. ASSUME NEW p \in Proc, StreamCall(p) PROVE StreamsInv'
  <2>1. CASE \E d \in Device : open_stream(p, d)
    BY <2>1, OpenInv
  <2>2. CASE FCB_unreserve(p)
    BY <2>2, UnreserveInv
  <2>3. CASE sys_Read_return(p)
    BY <2>3, ReadReturnInv
  <2>4. CASE \E fd \in Fid : sys_Read(p, fd) \/ sys_Close(p, fd)
    BY <2>4, ReadInv, CloseInv
  <2>5. CASE \E oldfd, newfd \in Fid : sys_Dup2(p, oldfd, newfd)
    BY <2>5, Dup2Inv
  <2> QED BY <1>1, <2>1, <2>2, <2>3, <2>4, <2>5 DEF StreamCall
<1>2. ASSUME NEW p \in Proc, Exit_cleanup(p) PROVE StreamsInv'
  BY <1>2, ExitInv
<1>3. ASSUME NEW p \in Proc, NEW c \in Proc, Exec_inherit(p, c) PROVE StreamsInv'
  BY <1>3, ExecInv
<1>4. CASE UNCHANGED vars
  <2>1. \A f : References(f)' = References(f)
    BY <1>4, SameReferences DEF vars, table
  <2> QED BY <1>4, <2>1 DEF vars, table, StreamsInv, TypeOK, RefcountExact, FreelistExact,
                          DeadHoldNothing
<1> QED BY <1>1, <1>2, <1>3, <1>4 DEF Next

\* The counters and the free list of the FCBs agree with the file ids and the
\* calls of all processes, and processes that do not exist hold nothing,
\* whatever processes open, close, copy, inherit and use (kernel_streams.c).
THEOREM StreamsCorrect == ASSUME StreamsAssumption PROVE Spec => []StreamsInv
<1>1. Init => StreamsInv
  BY InitStreams
<1>2. StreamsInv /\ [Next]_vars => StreamsInv'
  BY StreamsStep
<1> QED BY <1>1, <1>2, PTL DEF Spec

\* A file id goes on naming the same device as long as nobody closes or
\* replaces it (FCB_decref(), open_stream()).
THEOREM DevicesStay == ASSUME StreamsAssumption PROVE Spec => StreamStable
<1>1. ASSUME StreamsInv, [Next]_vars
      PROVE  [\A p \in Proc, fd \in Fid :
                FIDT[p][fd] # Nil /\ FIDT'[p][fd] = FIDT[p][fd] =>
                  streamobj'[FIDT[p][fd]] = streamobj[FIDT[p][fd]]]_vars
  <2>1. CASE UNCHANGED streamobj
    BY <2>1
  <2>2. ASSUME NEW q \in Proc, NEW d \in Device, open_stream(q, d),
               NEW p \in Proc, NEW fd \in Fid, FIDT[p][fd] # Nil
        PROVE  streamobj'[FIDT[p][fd]] = streamobj[FIDT[p][fd]]
    <3>1. PICK x \in Fid, f \in FCB :
            FCB_reserve(q, x, f) /\ streamobj' = [streamobj EXCEPT ![f] = d]
      BY <2>2 DEF open_stream
    <3>2. f \in Range(FCB_freelist)
      BY <1>1, <2>2, <3>1, ReserveLemma DEF open_stream
    <3>3. FIDT[p][fd] \in FCB
      BY <1>1, <2>2 DEF StreamsInv, TypeOK
    <3>4. FIDT[p][fd] \notin Range(FCB_freelist)
      BY <1>1, <3>3, HeldBlock, PlaceLemma
    <3> QED BY <1>1, <3>1, <3>2, <3>3, <3>4 DEF StreamsInv, TypeOK
  <2>3. (\E q \in Proc, d \in Device : open_stream(q, d)) \/ UNCHANGED streamobj
    BY <1>1 DEF Next, StreamCall, FCB_unreserve, sys_Read, sys_Read_return, sys_Close,
                sys_Dup2, Exit_cleanup, Exec_inherit, vars, table
  <2> QED BY <2>1, <2>2, <2>3
<1> QED BY <1>1, StreamsCorrect, PTL DEF Spec, StreamStable
=============================================================================
