----------------------------- MODULE ListLemmas -----------------------------
(***************************************************************************)
(* What the list operations of util.h do to a list without duplicates,     *)
(* seen as a sequence: its elements, and that it has no duplicates still;  *)
(* and what they do to the pointers of the rings that lists are.           *)
(***************************************************************************)
EXTENDS RList, SequenceTheorems, TLAPS

Ring == INSTANCE RingOps

\* The elements of a list.
LEMMA RangeType ==
  ASSUME NEW S, NEW s \in Seq(S)
  PROVE  Range(s) \subseteq S
BY DEF Range

\* Pushing x at the end (rlist_push_back()) adds x to the elements.
LEMMA AppendLemma ==
  ASSUME NEW S, NEW s \in Seq(S), NEW x \in S
  PROVE  /\ Append(s, x) \in Seq(S)
         /\ Range(Append(s, x)) = Range(s) \cup {x}
         /\ IsInjective(s) /\ x \notin Range(s) => IsInjective(Append(s, x))
<1> DEFINE r == Append(s, x)
<1>1. /\ r \in Seq(S)
      /\ Len(r) = Len(s) + 1
      /\ DOMAIN r = 1..(Len(s) + 1)
      /\ DOMAIN s = 1..Len(s)
      /\ \A i \in 1..Len(s) : r[i] = s[i]
      /\ r[Len(s) + 1] = x
      /\ Len(s) \in Nat
  BY AppendProperties, LenProperties
<1> HIDE DEF r
<1>2. Range(r) = Range(s) \cup {x}
  <2>1. ASSUME NEW y \in Range(r) PROVE y \in Range(s) \cup {x}
    BY <1>1, <2>1 DEF Range
  <2>2. ASSUME NEW y \in Range(s) PROVE y \in Range(r)
    <3>1. PICK i \in 1..Len(s) : s[i] = y
      BY <1>1, <2>2 DEF Range
    <3>2. i \in DOMAIN r /\ r[i] = y
      BY <1>1, <3>1
    <3> QED BY <3>2 DEF Range
  <2>3. x \in Range(r)
    <3>1. Len(s) + 1 \in DOMAIN r
      BY <1>1
    <3> QED BY <1>1, <3>1 DEF Range
  <2> QED BY <2>1, <2>2, <2>3
<1>3. ASSUME IsInjective(s), x \notin Range(s) PROVE IsInjective(r)
  <2>1. \A i \in 1..Len(s) : s[i] # x
    BY <1>1, <1>3 DEF Range
  <2> QED BY <1>1, <1>3, <2>1 DEF IsInjective
<1> QED BY <1>1, <1>2, <1>3 DEF r

\* Popping the head (rlist_pop_front()) removes just that element.
LEMMA TailLemma ==
  ASSUME NEW S, NEW s \in Seq(S), s # << >>
  PROVE  /\ Tail(s) \in Seq(S)
         /\ Head(s) \in S /\ Head(s) \in Range(s)
         /\ Range(Tail(s)) \subseteq Range(s)
         /\ Range(s) \subseteq Range(Tail(s)) \cup {Head(s)}
         /\ IsInjective(s) => IsInjective(Tail(s)) /\ Head(s) \notin Range(Tail(s))
<1> DEFINE r == Tail(s)
<1>1. /\ r \in Seq(S)
      /\ Len(s) \in Nat \ {0}
      /\ Len(r) = Len(s) - 1
      /\ DOMAIN s = 1..Len(s)
      /\ DOMAIN r = 1..(Len(s) - 1)
      /\ \A i \in 1..(Len(s) - 1) : r[i] = s[i + 1]
      /\ Head(s) = s[1] /\ 1 \in DOMAIN s /\ s[1] \in S
  BY HeadTailProperties, LenProperties, EmptySeq, ElementOfSeq, SMT
<1> HIDE DEF r
<1>2. Range(r) \subseteq Range(s)
  <2>1. ASSUME NEW i \in DOMAIN r PROVE r[i] \in Range(s)
    <3>1. r[i] = s[i + 1] /\ i + 1 \in DOMAIN s
      BY <1>1, <2>1
    <3> QED BY <3>1 DEF Range
  <2> QED BY <2>1 DEF Range
<1>3. Range(s) \subseteq Range(r) \cup {Head(s)}
  <2>1. ASSUME NEW i \in DOMAIN s PROVE s[i] \in Range(r) \cup {Head(s)}
    <3>1. CASE i = 1
      BY <1>1, <3>1
    <3>2. CASE i # 1
      <4>1. i - 1 \in DOMAIN r /\ r[i - 1] = s[i]
        <5>1. i - 1 \in 1..(Len(s) - 1) /\ (i - 1) + 1 = i
          BY <1>1, <2>1, <3>2
        <5>2. r[i - 1] = s[(i - 1) + 1]
          BY <1>1, <5>1
        <5> QED BY <1>1, <5>1, <5>2
      <4> QED BY <4>1 DEF Range
    <3> QED BY <3>1, <3>2
  <2> QED BY <2>1 DEF Range
<1>4. ASSUME IsInjective(s) PROVE IsInjective(r) /\ Head(s) \notin Range(r)
  <2>1. \A i \in DOMAIN r : r[i] = s[i + 1] /\ i + 1 \in DOMAIN s /\ i \in Nat \ {0}
    BY <1>1
  <2>2. IsInjective(r)
    BY <1>4, <2>1 DEF IsInjective
  <2>3. \A i \in DOMAIN r : r[i] # s[1]
    BY <1>1, <1>4, <2>1 DEF IsInjective
  <2> QED BY <1>1, <2>2, <2>3 DEF Range
<1> QED BY <1>1, <1>2, <1>3, <1>4 DEF r, Range

\* The elements of a concatenation.
LEMMA ConcatLemma ==
  ASSUME NEW S, NEW a \in Seq(S), NEW b \in Seq(S)
  PROVE  /\ a \o b \in Seq(S)
         /\ Range(a \o b) = Range(a) \cup Range(b)
         /\ IsInjective(a) /\ IsInjective(b) /\ Range(a) \cap Range(b) = {}
              => IsInjective(a \o b)
<1> DEFINE r == a \o b
<1>1. /\ r \in Seq(S)
      /\ Len(a) \in Nat /\ Len(b) \in Nat
      /\ DOMAIN a = 1..Len(a) /\ DOMAIN b = 1..Len(b)
      /\ DOMAIN r = 1..(Len(a) + Len(b))
      /\ \A i \in 1..(Len(a) + Len(b)) :
           r[i] = IF i <= Len(a) THEN a[i] ELSE b[i - Len(a)]
  BY ConcatProperties, LenProperties
<1> HIDE DEF r
<1>2. \A i \in DOMAIN r :
        \/ i \in DOMAIN a /\ r[i] = a[i]
        \/ i - Len(a) \in DOMAIN b /\ i \notin DOMAIN a /\ r[i] = b[i - Len(a)]
  BY <1>1
<1>3. Range(r) \subseteq Range(a) \cup Range(b)
  BY <1>2 DEF Range
<1>4. Range(a) \subseteq Range(r)
  <2>1. \A i \in DOMAIN a : i \in DOMAIN r /\ r[i] = a[i]
    BY <1>1
  <2> QED BY <2>1 DEF Range
<1>5. Range(b) \subseteq Range(r)
  <2>1. ASSUME NEW i \in DOMAIN b PROVE b[i] \in Range(r)
    <3>1. i + Len(a) \in DOMAIN r /\ ~(i + Len(a) <= Len(a)) /\ (i + Len(a)) - Len(a) = i
      BY <1>1, <2>1
    <3>2. r[i + Len(a)] = b[i]
      BY <1>1, <3>1
    <3> QED BY <3>1, <3>2 DEF Range
  <2> QED BY <2>1 DEF Range
<1>6. ASSUME IsInjective(a), IsInjective(b), Range(a) \cap Range(b) = {}
      PROVE IsInjective(r)
  <2>1. \A i \in DOMAIN a, j \in DOMAIN b : a[i] # b[j]
    BY <1>6 DEF Range
  <2>2. \A i, j \in DOMAIN r : i - Len(a) = j - Len(a) => i = j
    BY <1>1
  <2> QED BY <1>2, <1>6, <2>1, <2>2 DEF IsInjective
<1> QED BY <1>1, <1>3, <1>4, <1>5, <1>6 DEF r

\* The part of a list between two positions.
LEMMA SubSeqLemma ==
  ASSUME NEW S, NEW s \in Seq(S), NEW m \in 1..(Len(s) + 1), NEW n \in (m - 1)..Len(s)
  PROVE  /\ SubSeq(s, m, n) \in Seq(S)
         /\ Range(SubSeq(s, m, n)) = {s[i] : i \in m..n}
         /\ IsInjective(s) => IsInjective(SubSeq(s, m, n))
<1> DEFINE r == SubSeq(s, m, n)
<1>0. Len(s) \in Nat /\ DOMAIN s = 1..Len(s)
  BY LenProperties
<1>1. /\ r \in Seq(S)
      /\ DOMAIN r = 1..(n - m + 1)
      /\ \A i \in 1..(n - m + 1) : r[i] = s[m + i - 1]
  <2>1. Len(r) = IF m <= n THEN n - m + 1 ELSE 0
    BY <1>0, SubSeqProperties
  <2>2. Len(r) = n - m + 1
    BY <1>0, <2>1
  <2>3. r \in Seq(S) /\ \A i \in 1..(n - m + 1) : r[i] = s[m + i - 1]
    BY <1>0, SubSeqProperties
  <2> QED BY <2>2, <2>3, LenProperties
<1> HIDE DEF r
<1>2. \A i \in 1..(n - m + 1) : m + i - 1 \in m..n /\ m + i - 1 \in DOMAIN s
  BY <1>0
<1>3. Range(r) = {s[i] : i \in m..n}
  <2>1. Range(r) \subseteq {s[i] : i \in m..n}
    BY <1>1, <1>2 DEF Range
  <2>2. ASSUME NEW i \in m..n PROVE s[i] \in Range(r)
    <3>1. i - m + 1 \in 1..(n - m + 1) /\ m + (i - m + 1) - 1 = i
      BY <1>0, <2>2
    <3>2. r[i - m + 1] = s[i]
      BY <1>1, <3>1
    <3> QED BY <1>1, <3>1, <3>2 DEF Range
  <2> QED BY <2>1, <2>2
<1>4. ASSUME IsInjective(s) PROVE IsInjective(r)
  <2>1. \A i, j \in 1..(n - m + 1) : m + i - 1 = m + j - 1 => i = j
    BY <1>0
  <2> QED BY <1>1, <1>2, <1>4, <2>1 DEF IsInjective
<1> QED BY <1>1, <1>3, <1>4 DEF r

\* Taking out the element at a position (rlist_remove()).
LEMMA RemoveAtLemma ==
  ASSUME NEW S, NEW s \in Seq(S), NEW n \in DOMAIN s
  PROVE  /\ RemoveAt(s, n) \in Seq(S)
         /\ IsInjective(s) => /\ Range(RemoveAt(s, n)) = Range(s) \ {s[n]}
                              /\ IsInjective(RemoveAt(s, n))
<1> DEFINE a == SubSeq(s, 1, n - 1)
           b == SubSeq(s, n + 1, Len(s))
           r == RemoveAt(s, n)
<1>0. Len(s) \in Nat /\ DOMAIN s = 1..Len(s) /\ n \in 1..Len(s)
  BY LenProperties
<1>1. /\ a \in Seq(S)
      /\ IsInjective(s) => IsInjective(a)
      /\ Range(a) = {s[i] : i \in 1..(n - 1)}
  <2>1. 1 \in 1..(Len(s) + 1) /\ n - 1 \in (1 - 1)..Len(s)
    BY <1>0
  <2> QED BY <2>1, SubSeqLemma
<1>2. /\ b \in Seq(S)
      /\ IsInjective(s) => IsInjective(b)
      /\ Range(b) = {s[i] : i \in (n + 1)..Len(s)}
  <2>1. n + 1 \in 1..(Len(s) + 1) /\ Len(s) \in ((n + 1) - 1)..Len(s)
    BY <1>0
  <2> QED BY <2>1, SubSeqLemma
<1>3. r = a \o b
  BY DEF RemoveAt
<1> HIDE DEF a, b, r
<1>4. r \in Seq(S)
  BY <1>1, <1>2, <1>3, ConcatLemma
<1>5. ASSUME IsInjective(s)
      PROVE  Range(r) = Range(s) \ {s[n]} /\ IsInjective(r)
  <2>1. Range(a) \cap Range(b) = {}
    BY <1>0, <1>1, <1>2, <1>5 DEF IsInjective
  <2>2. \A i \in DOMAIN s : i \in 1..(n - 1) \/ i \in (n + 1)..Len(s) \/ i = n
    BY <1>0
  <2>3. \A i \in 1..(n - 1) : i \in DOMAIN s /\ i # n
    BY <1>0
  <2>4. \A i \in (n + 1)..Len(s) : i \in DOMAIN s /\ i # n
    BY <1>0
  <2>5. Range(a) \cup Range(b) \subseteq Range(s) \ {s[n]}
    BY <1>1, <1>2, <1>5, <2>3, <2>4 DEF Range, IsInjective
  <2>6. Range(s) \ {s[n]} \subseteq Range(a) \cup Range(b)
    BY <1>1, <1>2, <2>2 DEF Range
  <2>7. Range(r) = Range(a) \cup Range(b) /\ IsInjective(r)
    BY <1>1, <1>2, <1>3, <1>5, <2>1, ConcatLemma
  <2> QED BY <2>5, <2>6, <2>7
<1> QED BY <1>4, <1>5 DEF r

\* Inserting x before a position (rl_splice()).
LEMMA InsertAtLemma ==
  ASSUME NEW S, NEW s \in Seq(S), IsInjective(s), NEW x \in S, x \notin Range(s),
         NEW n \in 1..(Len(s) + 1)
  PROVE  /\ InsertAt(s, n, x) \in Seq(S)
         /\ Range(InsertAt(s, n, x)) = Range(s) \cup {x}
         /\ IsInjective(InsertAt(s, n, x))
<1> DEFINE a == SubSeq(s, 1, n - 1)
           b == SubSeq(s, n, Len(s))
           m == <<x>>
<1>0. Len(s) \in Nat /\ DOMAIN s = 1..Len(s)
  BY LenProperties
<1>1. /\ a \in Seq(S) /\ IsInjective(a)
      /\ Range(a) = {s[i] : i \in 1..(n - 1)}
  <2>1. 1 \in 1..(Len(s) + 1) /\ n - 1 \in (1 - 1)..Len(s)
    BY <1>0
  <2> QED BY <2>1, SubSeqLemma
<1>2. /\ b \in Seq(S) /\ IsInjective(b)
      /\ Range(b) = {s[i] : i \in n..Len(s)}
  <2>1. Len(s) \in (n - 1)..Len(s)
    BY <1>0
  <2> QED BY <2>1, SubSeqLemma
<1>3. m \in Seq(S) /\ Range(m) = {x} /\ IsInjective(m)
  BY DEF Range, IsInjective
<1>4. InsertAt(s, n, x) = (a \o m) \o b
  BY DEF InsertAt
<1> HIDE DEF a, b, m
<1>5. Range(a) \cap Range(b) = {}
  BY <1>0, <1>1, <1>2 DEF IsInjective
<1>6. Range(a) \cup Range(b) = Range(s)
  <2>1. \A i \in DOMAIN s : i \in 1..(n - 1) \/ i \in n..Len(s)
    BY <1>0
  <2>2. \A i \in 1..(n - 1) : i \in DOMAIN s
    BY <1>0
  <2>3. \A i \in n..Len(s) : i \in DOMAIN s
    BY <1>0
  <2> QED BY <1>1, <1>2, <2>1, <2>2, <2>3 DEF Range
<1>7. a \o m \in Seq(S) /\ Range(a \o m) = Range(a) \cup {x} /\ IsInjective(a \o m)
  <2>1. Range(a) \cap Range(m) = {}
    BY <1>3, <1>6
  <2> QED BY <1>1, <1>3, <2>1, ConcatLemma
<1>8. Range(a \o m) \cap Range(b) = {}
  BY <1>5, <1>6, <1>7
<1> DEFINE k == a \o m
<1>9. k \o b \in Seq(S) /\ Range(k \o b) = Range(k) \cup Range(b) /\ IsInjective(k \o b)
  <2> HIDE DEF k
  <2>1. k \in Seq(S) /\ IsInjective(k) /\ Range(k) \cap Range(b) = {}
    BY <1>7, <1>8 DEF k
  <2> QED BY <1>2, <2>1, ConcatLemma
<1>10. Range(k) \cup Range(b) = Range(s) \cup {x}
  BY <1>6, <1>7
<1> DEFINE r == InsertAt(s, n, x)
<1>11. r \in Seq(S) /\ Range(r) = Range(s) \cup {x} /\ IsInjective(r)
  BY <1>4, <1>9, <1>10, Zenon
<1> QED BY <1>11

\* Where the elements are after one has been taken out ...
LEMMA RemoveAtElements ==
  ASSUME NEW S, NEW s \in Seq(S), NEW n \in DOMAIN s
  PROVE  /\ Len(RemoveAt(s, n)) = Len(s) - 1
         /\ DOMAIN RemoveAt(s, n) = 1..(Len(s) - 1)
         /\ \A i \in DOMAIN RemoveAt(s, n) :
              RemoveAt(s, n)[i] = IF i < n THEN s[i] ELSE s[i + 1]
<1> DEFINE a == SubSeq(s, 1, n - 1)
           b == SubSeq(s, n + 1, Len(s))
           r == RemoveAt(s, n)
<1>0. Len(s) \in Nat /\ DOMAIN s = 1..Len(s) /\ n \in 1..Len(s)
  BY LenProperties
<1>1. /\ a \in Seq(S) /\ Len(a) = n - 1
      /\ \A i \in 1..(n - 1) : a[i] = s[i]
  BY <1>0
<1>2. /\ b \in Seq(S) /\ Len(b) = Len(s) - n
      /\ \A i \in 1..(Len(s) - n) : b[i] = s[n + i]
  BY <1>0
<1>3. r = a \o b
  BY DEF RemoveAt
<1> HIDE DEF a, b
<1>4. /\ Len(r) = Len(s) - 1 /\ DOMAIN r = 1..(Len(s) - 1)
      /\ \A i \in 1..(Len(s) - 1) : r[i] = IF i <= n - 1 THEN a[i] ELSE b[i - (n - 1)]
  <2> HIDE DEF r
  <2>1. /\ r \in Seq(S) /\ Len(r) = Len(a) + Len(b)
        /\ \A i \in 1..(Len(a) + Len(b)) : r[i] = IF i <= Len(a) THEN a[i] ELSE b[i - Len(a)]
    BY <1>1, <1>2, <1>3, ConcatProperties
  <2>2. Len(a) + Len(b) = Len(s) - 1
    BY <1>0, <1>1, <1>2
  <2>3. DOMAIN r = 1..Len(r)
    BY <2>1, LenProperties
  <2> QED BY <1>1, <2>1, <2>2, <2>3
<1>5. \A i \in 1..(Len(s) - 1) : r[i] = IF i < n THEN s[i] ELSE s[i + 1]
  <2> SUFFICES ASSUME NEW i \in 1..(Len(s) - 1) PROVE r[i] = IF i < n THEN s[i] ELSE s[i + 1]
    OBVIOUS
  <2> HIDE DEF r
  <2>1. CASE i < n
    BY <1>0, <1>1, <1>4, <2>1
  <2>2. CASE ~(i < n)
    <3>1. i - (n - 1) \in 1..(Len(s) - n) /\ n + (i - (n - 1)) = i + 1
      BY <1>0, <2>2
    <3>2. b[i - (n - 1)] = s[i + 1]
      BY <1>2, <3>1
    <3> QED BY <1>0, <1>4, <2>2, <3>2
  <2> QED BY <2>1, <2>2
<1> QED BY <1>4, <1>5

\* ... and after one has been inserted.
LEMMA InsertAtElements ==
  ASSUME NEW S, NEW s \in Seq(S), NEW x \in S, NEW n \in 1..(Len(s) + 1)
  PROVE  /\ Len(InsertAt(s, n, x)) = Len(s) + 1
         /\ DOMAIN InsertAt(s, n, x) = 1..(Len(s) + 1)
         /\ \A i \in DOMAIN InsertAt(s, n, x) :
              InsertAt(s, n, x)[i] = IF i < n THEN s[i] ELSE IF i = n THEN x ELSE s[i - 1]
<1> DEFINE a == SubSeq(s, 1, n - 1)
           m == <<x>>
           k == a \o m
           b == SubSeq(s, n, Len(s))
           r == InsertAt(s, n, x)
<1>0. Len(s) \in Nat /\ DOMAIN s = 1..Len(s)
  BY LenProperties
<1>1. /\ a \in Seq(S) /\ Len(a) = n - 1
      /\ \A i \in 1..(n - 1) : a[i] = s[i]
  BY <1>0
<1>2. /\ b \in Seq(S) /\ Len(b) = Len(s) + 1 - n
      /\ \A i \in 1..(Len(s) + 1 - n) : b[i] = s[n + i - 1]
  BY <1>0
<1>3. r = k \o b
  BY DEF InsertAt
<1>4. m \in Seq(S) /\ Len(m) = 1 /\ m[1] = x
  OBVIOUS
<1> HIDE DEF a, b, m
<1>5. /\ k \in Seq(S) /\ Len(k) = n
      /\ \A i \in 1..n : k[i] = IF i < n THEN s[i] ELSE x
  <2>1. /\ k \in Seq(S) /\ Len(k) = Len(a) + Len(m)
        /\ \A i \in 1..(Len(a) + Len(m)) : k[i] = IF i <= Len(a) THEN a[i] ELSE m[i - Len(a)]
    BY <1>1, <1>4, ConcatProperties
  <2> HIDE DEF k
  <2>2. Len(a) + Len(m) = n
    BY <1>0, <1>1, <1>4
  <2>3. \A i \in 1..n : k[i] = IF i <= n - 1 THEN a[i] ELSE m[i - (n - 1)]
    BY <1>1, <2>1, <2>2
  <2>4. \A i \in 1..n : i <= n - 1 => k[i] = s[i]
    BY <1>1, <2>3
  <2>5. k[n] = x
    <3>1. n - (n - 1) = 1 /\ n \in 1..n /\ ~(n <= n - 1)
      BY <1>0
    <3> QED BY <1>4, <2>3, <3>1
  <2> QED BY <1>0, <2>1, <2>2, <2>4, <2>5
<1> HIDE DEF k
<1>6. /\ Len(r) = Len(s) + 1 /\ DOMAIN r = 1..(Len(s) + 1)
      /\ \A i \in 1..(Len(s) + 1) : r[i] = IF i <= n THEN k[i] ELSE b[i - n]
  <2> HIDE DEF r
  <2>1. /\ r \in Seq(S) /\ Len(r) = Len(k) + Len(b)
        /\ \A i \in 1..(Len(k) + Len(b)) : r[i] = IF i <= Len(k) THEN k[i] ELSE b[i - Len(k)]
    BY <1>2, <1>3, <1>5, ConcatProperties
  <2>2. Len(k) + Len(b) = Len(s) + 1
    BY <1>0, <1>2, <1>5
  <2>3. DOMAIN r = 1..Len(r)
    BY <2>1, LenProperties
  <2> QED BY <1>5, <2>1, <2>2, <2>3
<1>7. \A i \in 1..(Len(s) + 1) : r[i] = IF i < n THEN s[i] ELSE IF i = n THEN x ELSE s[i - 1]
  <2> SUFFICES ASSUME NEW i \in 1..(Len(s) + 1)
               PROVE  r[i] = IF i < n THEN s[i] ELSE IF i = n THEN x ELSE s[i - 1]
    OBVIOUS
  <2> HIDE DEF r
  <2>1. CASE i <= n
    BY <1>0, <1>5, <1>6, <2>1
  <2>2. CASE ~(i <= n)
    <3>1. i - n \in 1..(Len(s) + 1 - n) /\ n + (i - n) - 1 = i - 1
      BY <1>0, <2>2
    <3>2. b[i - n] = s[i - 1]
      BY <1>2, <3>1
    <3> QED BY <1>0, <1>6, <2>2, <3>2
  <2> QED BY <2>1, <2>2
<1> QED BY <1>6, <1>7

\* What remains of a list keeps its order (rlist_remove()).
LEMMA RListRemoveOrder ==
  ASSUME NEW S, NEW s \in Seq(S), NEW x,
         NEW i \in DOMAIN rlist_remove(s, x), NEW j \in DOMAIN rlist_remove(s, x), i < j
  PROVE  \E k, l \in DOMAIN s : k < l /\ s[k] = rlist_remove(s, x)[i] /\ s[l] = rlist_remove(s, x)[j]
<1> DEFINE r == rlist_remove(s, x)
<1>0. Len(s) \in Nat /\ DOMAIN s = 1..Len(s)
  BY LenProperties
<1>1. CASE x \notin Range(s)
  <2>1. r = s
    BY <1>1 DEF rlist_remove
  <2> HIDE DEF r
  <2> QED BY <2>1 DEF r
<1>2. CASE x \in Range(s)
  <2> DEFINE n == CHOOSE m \in DOMAIN s : s[m] = x
  <2>1. n \in DOMAIN s
    BY <1>2 DEF Range
  <2>2. r = RemoveAt(s, n)
    BY <1>2 DEF rlist_remove
  <2> HIDE DEF n
  <2>3. /\ Len(r) = Len(s) - 1 /\ DOMAIN r = 1..(Len(s) - 1)
        /\ \A m \in DOMAIN r : r[m] = IF m < n THEN s[m] ELSE s[m + 1]
    <3> HIDE DEF r
    <3> QED BY <2>1, <2>2, RemoveAtElements, Zenon
  <2> HIDE DEF r
  <2>4. i \in 1..(Len(s) - 1) /\ j \in 1..(Len(s) - 1)
    BY <2>3 DEF r
  <2> DEFINE k == IF i < n THEN i ELSE i + 1
             l == IF j < n THEN j ELSE j + 1
  <2>5. k \in DOMAIN s /\ l \in DOMAIN s /\ k < l
    BY <1>0, <2>1, <2>4
  <2>6. s[k] = r[i] /\ s[l] = r[j]
    BY <2>3, <2>4
  <2> HIDE DEF k, l
  <2> QED BY <2>5, <2>6 DEF r
<1> QED BY <1>1, <1>2

\* Taking out an element, wherever it is (rlist_remove()).
LEMMA RListRemove ==
  ASSUME NEW S, NEW s \in Seq(S), NEW x
  PROVE  /\ rlist_remove(s, x) \in Seq(S)
         /\ IsInjective(s) => /\ Range(rlist_remove(s, x)) = Range(s) \ {x}
                              /\ IsInjective(rlist_remove(s, x))
<1>1. CASE x \notin Range(s)
  BY <1>1 DEF rlist_remove
<1>2. CASE x \in Range(s)
  <2> DEFINE n == CHOOSE i \in DOMAIN s : s[i] = x
  <2>1. n \in DOMAIN s /\ s[n] = x
    <3>1. \E i \in DOMAIN s : s[i] = x
      BY <1>2 DEF Range
    <3> QED BY <3>1
  <2>2. rlist_remove(s, x) = RemoveAt(s, n)
    BY <1>2 DEF rlist_remove
  <2> HIDE DEF n
  <2> QED BY <2>1, <2>2, RemoveAtLemma
<1> QED BY <1>1, <1>2
\* Pushing x at the front (rlist_push_front()).
LEMMA PushFrontLemma ==
  ASSUME NEW S, NEW s \in Seq(S), NEW x \in S
  PROVE  /\ <<x>> \o s \in Seq(S)
         /\ Range(<<x>> \o s) = Range(s) \cup {x}
         /\ IsInjective(s) /\ x \notin Range(s) => IsInjective(<<x>> \o s)
         /\ Len(<<x>> \o s) = Len(s) + 1
<1> DEFINE m == <<x>>
<1>1. m \in Seq(S) /\ Range(m) = {x} /\ IsInjective(m) /\ Len(m) = 1
  BY DEF Range, IsInjective
<1> HIDE DEF m
<1>2. /\ m \o s \in Seq(S)
      /\ Range(m \o s) = Range(m) \cup Range(s)
      /\ IsInjective(s) /\ x \notin Range(s) => IsInjective(m \o s)
  BY <1>1, ConcatLemma
<1>3. Len(m \o s) = Len(m) + Len(s) /\ Len(s) \in Nat
  BY <1>1, ConcatProperties, LenProperties
<1>4. Range(m \o s) = Range(s) \cup {x} /\ Len(m \o s) = Len(s) + 1
  BY <1>1, <1>2, <1>3
<1> QED BY <1>2, <1>4 DEF m

\* A list is empty when it has no elements.
LEMMA EmptyRange ==
  ASSUME NEW S, NEW s \in Seq(S)
  PROVE  s = <<>> <=> Range(s) = {}
<1>1. Len(s) \in Nat /\ DOMAIN s = 1..Len(s) /\ (s = <<>> <=> Len(s) = 0)
  BY LenProperties, EmptySeq
<1>2. CASE Len(s) = 0
  BY <1>1, <1>2 DEF Range
<1>3. CASE Len(s) # 0
  <2>1. 1 \in DOMAIN s
    BY <1>1, <1>3
  <2>2. s[1] \in Range(s)
    BY <2>1 DEF Range
  <2> QED BY <1>1, <1>3, <2>2
<1> QED BY <1>2, <1>3

\* Turning a list around.
LEMMA ReverseLemma ==
  ASSUME NEW S, NEW s \in Seq(S)
  PROVE  /\ Reverse(s) \in Seq(S)
         /\ Range(Reverse(s)) = Range(s)
         /\ IsInjective(s) => IsInjective(Reverse(s))
         /\ Len(Reverse(s)) = Len(s)
<1> DEFINE r == Reverse(s)
<1>1. Len(s) \in Nat /\ DOMAIN s = 1..Len(s) /\ \A i \in 1..Len(s) : s[i] \in S
  BY LenProperties, ElementOfSeq
<1>2. /\ r = [i \in 1..Len(s) |-> s[(Len(s) - i) + 1]]
      /\ \A i \in 1..Len(s) : (Len(s) - i) + 1 \in 1..Len(s)
  BY <1>1 DEF Reverse
<1>3. r \in [1..Len(s) -> S]
  BY <1>1, <1>2
<1>4. r \in Seq(S) /\ Len(r) = Len(s) /\ DOMAIN r = 1..Len(s)
  BY <1>1, <1>3
<1>5. \A i \in 1..Len(s) : r[i] = s[(Len(s) - i) + 1]
  BY <1>2
<1> HIDE DEF r
<1>6. Range(r) \subseteq Range(s)
  BY <1>1, <1>2, <1>4, <1>5 DEF Range
<1>7. ASSUME NEW i \in 1..Len(s) PROVE s[i] \in Range(r)
  <2>1. (Len(s) - i) + 1 \in 1..Len(s) /\ (Len(s) - ((Len(s) - i) + 1)) + 1 = i
    BY <1>1
  <2>2. r[(Len(s) - i) + 1] = s[i]
    BY <1>5, <2>1
  <2> QED BY <1>4, <2>1, <2>2 DEF Range
<1>8. Range(s) \subseteq Range(r)
  BY <1>1, <1>7 DEF Range
<1>9. ASSUME IsInjective(s) PROVE IsInjective(r)
  <2>1. \A i, j \in 1..Len(s) : (Len(s) - i) + 1 = (Len(s) - j) + 1 => i = j
    BY <1>1
  <2> QED BY <1>1, <1>2, <1>4, <1>5, <1>9, <2>1 DEF IsInjective
<1> QED BY <1>4, <1>6, <1>8, <1>9 DEF r

----------------------------------------------------------------------------
(***************************************************************************)
(* Rings of nodes, for every set of nodes and every way they are linked.   *)
(* What holds of rl_splice() follows for what is made of it.               *)
(***************************************************************************)

\* rl_splice() keeps neighbours linked: also if a and b are the same node,
\* neighbours, in one ring or in two.
LEMMA SpliceLinked ==
  ASSUME NEW Node, NEW r, Ring!Linked(r, Node), NEW a \in Node, NEW b \in Node
  PROVE  Ring!Linked(Ring!rl_splice(r, a, b), Node)
<1> DEFINE s == Ring!rl_splice(r, a, b)
<1>1. /\ r.next \in [Node -> Node] /\ r.prev \in [Node -> Node]
      /\ \A n \in Node : r.prev[r.next[n]] = n /\ r.next[r.prev[n]] = n
  BY DEF Ring!Linked
<1>2. /\ s.next = [r.next EXCEPT ![a] = r.next[b], ![b] = r.next[a]]
      /\ s.prev = [r.prev EXCEPT ![r.next[a]] = b, ![r.next[b]] = a]
  BY <1>1 DEF Ring!rl_splice
<1>3. s \in [next : [Node -> Node], prev : [Node -> Node]]
  BY <1>1 DEF Ring!rl_splice
<1>4. \A n \in Node : s.prev[s.next[n]] = n
  BY <1>1, <1>2
<1>5. \A n \in Node : s.next[s.prev[n]] = n
  BY <1>1, <1>2
<1> QED BY <1>3, <1>4, <1>5 DEF Ring!Linked

\* The nodes that the other operations splice are nodes.
LEMMA Neighbours ==
  ASSUME NEW Node, NEW r, Ring!Linked(r, Node), NEW n \in Node
  PROVE  r.next[n] \in Node /\ r.prev[n] \in Node
BY DEF Ring!Linked

\* Every operation on lists that the kernel uses keeps the pointers of all
\* nodes consistent, whatever lists it is applied to (util.h).
THEOREM ListsStayLinked ==
  ASSUME NEW Node, NEW r, Ring!Linked(r, Node), NEW l \in Node, NEW n \in Node
  PROVE  /\ Ring!Linked(Ring!rlist_remove(r, n), Node)
         /\ Ring!Linked(Ring!rlist_push_front(r, l, n), Node) /\ Ring!Linked(Ring!rlist_push_back(r, l, n), Node)
         /\ Ring!Linked(Ring!rlist_pop_front(r, l), Node) /\ Ring!Linked(Ring!rlist_pop_back(r, l), Node)
         /\ Ring!Linked(Ring!rlist_append(r, l, n), Node) /\ Ring!Linked(Ring!rlist_prepend(r, l, n), Node)
<1>1. \A s, a : Ring!Linked(s, Node) /\ a \in Node => Ring!Linked(Ring!rlist_remove(s, a), Node)
  BY SpliceLinked, Neighbours DEF Ring!rlist_remove
<1>2. Ring!Linked(Ring!rlist_push_front(r, l, n), Node)
  BY SpliceLinked DEF Ring!rlist_push_front
<1>3. Ring!Linked(Ring!rlist_push_back(r, l, n), Node)
  BY SpliceLinked, Neighbours DEF Ring!rlist_push_back
<1>4. Ring!Linked(Ring!rlist_pop_front(r, l), Node) /\ Ring!Linked(Ring!rlist_pop_back(r, l), Node)
  BY SpliceLinked, Neighbours DEF Ring!rlist_pop_front, Ring!rlist_pop_back
<1>5. Ring!Linked(Ring!rlist_append(r, l, n), Node) /\ Ring!Linked(Ring!rlist_prepend(r, l, n), Node)
  BY <1>1, <1>2, <1>3 DEF Ring!rlist_append, Ring!rlist_prepend
<1> QED BY <1>1, <1>2, <1>3, <1>4, <1>5

\* Removing a node leaves it alone in its ring, which the next insertion of
\* it relies on (an exited_node, a sched_node or a freelist_node is never
\* initialised again).
THEOREM RemovedIsAlone ==
  ASSUME NEW Node, NEW r, Ring!Linked(r, Node), NEW n \in Node
  PROVE  LET s == Ring!rlist_remove(r, n) IN s.next[n] = n /\ s.prev[n] = n
<1> DEFINE s == Ring!rlist_remove(r, n)
<1>1. /\ r.next \in [Node -> Node] /\ r.prev \in [Node -> Node]
      /\ r.next[r.prev[n]] = n /\ r.prev[n] \in Node
  BY DEF Ring!Linked
<1>2. s.next[n] = n
  BY <1>1 DEF Ring!rlist_remove, Ring!rl_splice
<1>3. Ring!Linked(s, Node)
  BY <1>1, SpliceLinked DEF Ring!rlist_remove
<1>4. s.prev[n] = n
  BY <1>2, <1>3 DEF Ring!Linked
<1> QED BY <1>2, <1>4

=============================================================================
