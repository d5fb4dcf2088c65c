----------------------------- MODULE ListProofs -----------------------------
(***************************************************************************)
(* The circular lists of the scheduler stay intact, for any number of      *)
(* tasks and threads, and the loops over their pointers, the search of     *)
(* scheduler_schedule and the scan of the reaper, compute what RoundRobin  *)
(* says of the sequences of their nodes.                                   *)
(***************************************************************************)
EXTENDS RunLists, FiniteSetTheorems, NaturalsInduction, TLAPS

-----------------------------------------------------------------------------
(* Induction. *)

\* A set of numbers has a least one.
LEMMA Least ==
    ASSUME NEW T \in SUBSET Nat, T # {}
    PROVE  \E n \in T : \A m \in T : n <= m
<1> DEFINE R == OpToRel(<, Nat)
<1>1. IsWellFoundedOn(R, Nat)
  BY NatLessThanWellFounded, Zenon
<1>2. \A x, y \in Nat : x < y => <<x, y>> \in R
  BY DEF OpToRel
<1> HIDE DEF R
<1>3. PICK x \in T : \A y \in T : ~ (<<y, x>> \in R)
  BY <1>1, WFMin, Zenon
<1>4. ASSUME NEW y \in T PROVE x <= y
  <2>1. x \in Nat /\ y \in Nat /\ ~ (y < x)
    BY <1>2, <1>3, Zenon
  <2> QED
    BY <2>1
<1> QED
  BY <1>4

\* A set of numbers that holds a number and the successors of its elements holds
\* all that follow.
LEMMA Induct ==
    ASSUME NEW T, NEW s \in Nat, s \in T, \A n \in Nat : n >= s /\ n \in T => n + 1 \in T
    PROVE  \A n \in Nat : n >= s => n \in T
<1> DEFINE Missed == {n \in Nat : n >= s /\ n \notin T}
<1> SUFFICES Missed = {}
  OBVIOUS
<1> SUFFICES ASSUME Missed # {} PROVE FALSE
  OBVIOUS
<1>1. PICK n \in Missed : \A m \in Missed : n <= m
  BY Least, Zenon
<1>2. n # s
  OBVIOUS
<1>3. n - 1 \in Nat /\ n - 1 >= s /\ ~ (n <= n - 1)
  BY <1>2
<1>4. n - 1 \in T
  BY <1>1, <1>3
<1> QED
  BY <1>3, <1>4

-----------------------------------------------------------------------------
(* A sequence of sequences, one after the other. *)

\* The elements of a concatenation.
LEMMA Joined ==
    ASSUME NEW S, NEW a \in Seq(S), NEW b \in Seq(S)
    PROVE  /\ a \o b \in Seq(S)
           /\ Len(a) \in Nat /\ Len(b) \in Nat
           /\ Len(a \o b) = Len(a) + Len(b)
           /\ \A j \in 1..(Len(a) + Len(b)) : (a \o b)[j] = IF j <= Len(a) THEN a[j] ELSE b[j - Len(a)]
OBVIOUS

\* The concatenations of the first sequences of ss, up to the n-th.
Prefixes(S, ss, n, g) ==
    /\ g \in [1..n -> Seq(S)]
    /\ \A i \in 1..n : g[i] = IF i = 1 THEN ss[i] ELSE g[i - 1] \o ss[i]

\* They exist, up to any of the sequences.
LEMMA PrefixesExist ==
    ASSUME NEW S, NEW ss \in Seq(Seq(S))
    PROVE  \E g : Prefixes(S, ss, Len(ss), g)
<1> DEFINE T == {n \in Nat : n <= Len(ss) => \E g : Prefixes(S, ss, n, g)}
<1>1. 0 \in T
  <2>1. Prefixes(S, ss, 0, [i \in 1..0 |-> <<>>])
    BY DEF Prefixes
  <2> QED
    BY <2>1
<1>2. ASSUME NEW n \in Nat, n \in T PROVE n + 1 \in T
  <2> SUFFICES ASSUME n + 1 <= Len(ss) PROVE \E g : Prefixes(S, ss, n + 1, g)
    OBVIOUS
  <2>1. PICK g : Prefixes(S, ss, n, g)
    BY <1>2
  <2> DEFINE new == IF n = 0 THEN ss[1] ELSE g[n] \o ss[n + 1]
             h == [i \in 1..(n + 1) |-> IF i = n + 1 THEN new ELSE g[i]]
  <2>2. ss[n + 1] \in Seq(S) /\ (n # 0 => g[n] \in Seq(S))
    BY <2>1 DEF Prefixes
  <2>3. new \in Seq(S)
    BY <2>2, Joined
  <2>4. h \in [1..(n + 1) -> Seq(S)]
    <3> HIDE DEF new
    <3> QED
      BY <2>1, <2>3 DEF Prefixes
  <2>5. ASSUME NEW i \in 1..(n + 1) PROVE h[i] = IF i = 1 THEN ss[i] ELSE h[i - 1] \o ss[i]
    <3>1. CASE i = n + 1
      <4>1. h[i] = new /\ (i # 1 => i - 1 \in 1..(n + 1) /\ i - 1 # n + 1 /\ i - 1 = n)
        BY <3>1
      <4>2. i # 1 => h[i - 1] = g[n]
        BY <4>1
      <4> HIDE DEF h
      <4> QED
        BY <3>1, <4>1, <4>2
    <3>2. CASE i # n + 1
      <4>1. i \in 1..n /\ h[i] = g[i] /\ (i # 1 => i - 1 \in 1..(n + 1) /\ i - 1 # n + 1)
        BY <3>2
      <4>2. i # 1 => h[i - 1] = g[i - 1]
        BY <4>1
      <4> HIDE DEF h
      <4> QED
        BY <2>1, <4>1, <4>2, Zenon DEF Prefixes
    <3> QED
      BY <3>1, <3>2
  <2> HIDE DEF h
  <2> QED
    BY <2>4, <2>5, Zenon DEF Prefixes
<1> HIDE DEF T
<1>3. \A n \in Nat : n >= 0 => n \in T
  BY <1>1, <1>2, Induct
<1> QED
  BY <1>3 DEF T

\* The places at which the sequences of ss start in O: off[k] elements precede
\* the k-th, and each element of O is in one of them.
Flattened(O, ss, off) ==
    /\ off \in [1..(Len(ss) + 1) -> Nat]
    /\ off[1] = 0
    /\ \A k \in 1..Len(ss) : off[k + 1] = off[k] + Len(ss[k])
    /\ Len(O) = off[Len(ss) + 1]
    /\ \A k \in 1..Len(ss) : \A i \in 1..Len(ss[k]) : O[off[k] + i] = ss[k][i]
    /\ \A p \in 1..Len(O) : \E k \in 1..Len(ss) : \E i \in 1..Len(ss[k]) : p = off[k] + i

\* Concat is the concatenation of all the sequences.
LEMMA FlattenIs ==
    ASSUME NEW S, NEW ss \in Seq(Seq(S)), Len(ss) >= 1
    PROVE  \E g : Prefixes(S, ss, Len(ss), g) /\ Concat(ss) = g[Len(ss)]
<1> DEFINE Eq(g) == g = [i \in 1..Len(ss) |-> IF i = 1 THEN ss[1] ELSE g[i - 1] \o ss[i]]
           f == CHOOSE g : Eq(g)
<1>1. PICK h : Prefixes(S, ss, Len(ss), h)
  BY PrefixesExist
<1>2. Eq(h)
  <2>1. h = [i \in 1..Len(ss) |-> h[i]]
    BY <1>1 DEF Prefixes
  <2> QED
    BY <1>1, <2>1, Zenon DEF Prefixes
<1>3. Eq(f)
  BY <1>2, Zenon
<1>4. Concat(ss) = f[Len(ss)]
  <2>1. ss # <<>>
    OBVIOUS
  <2> QED
    BY <2>1 DEF Concat
<1> HIDE DEF f
<1>5. \A i \in 1..Len(ss) : f[i] = IF i = 1 THEN ss[i] ELSE f[i - 1] \o ss[i]
  BY <1>3, Zenon
<1> DEFINE T == {n \in Nat : n <= Len(ss) => f[n] \in Seq(S)}
<1>6. 1 \in T
  BY <1>5
<1>7. ASSUME NEW n \in Nat, n >= 1, n \in T PROVE n + 1 \in T
  <2> SUFFICES ASSUME n + 1 <= Len(ss) PROVE f[n + 1] \in Seq(S)
    OBVIOUS
  <2>1. n + 1 \in 1..Len(ss) /\ n + 1 # 1 /\ (n + 1) - 1 = n /\ ss[n + 1] \in Seq(S)
    BY <1>7
  <2>2. f[n + 1] = f[n] \o ss[n + 1]
    BY <1>5, <2>1, Zenon
  <2>3. f[n] \in Seq(S)
    BY <1>7
  <2> QED
    BY <2>1, <2>2, <2>3, Joined
<1> HIDE DEF T
<1>8. \A n \in Nat : n >= 1 => n \in T
  BY <1>6, <1>7, Induct, Zenon
<1>9. f \in [1..Len(ss) -> Seq(S)]
  <2>1. \A i \in 1..Len(ss) : f[i] \in Seq(S)
    BY <1>8 DEF T
  <2>2. f = [i \in 1..Len(ss) |-> f[i]]
    BY <1>3
  <2> QED
    BY <2>1, <2>2
<1> QED
  BY <1>4, <1>5, <1>9, Zenon DEF Prefixes

\* What the concatenation of the first n sequences holds.
Upto(g, ss, off, n) ==
    /\ Len(g[n]) = off[n + 1]
    /\ off[n + 1] = off[n] + Len(ss[n])
    /\ \A k \in 1..n : \A i \in 1..Len(ss[k]) : off[k] + i <= Len(g[n]) /\ g[n][off[k] + i] = ss[k][i]
    /\ \A p \in 1..Len(g[n]) : \E k \in 1..n : \E i \in 1..Len(ss[k]) : p = off[k] + i

\* One more sequence.
LEMMA UptoNext ==
    ASSUME NEW S, NEW ss, NEW g, NEW off, NEW n \in Nat, n >= 1, Upto(g, ss, off, n),
           g[n] \in Seq(S), ss[n + 1] \in Seq(S), g[n + 1] = g[n] \o ss[n + 1],
           \A k \in 1..n : off[k] \in Nat,
           off[n + 1] = Len(g[n]), off[(n + 1) + 1] = Len(g[n + 1])
    PROVE  Upto(g, ss, off, n + 1)
<1> DEFINE a == g[n]
           b == ss[n + 1]
<1>1. a \in Seq(S) /\ b \in Seq(S) /\ g[n + 1] = a \o b
  OBVIOUS
<1> HIDE DEF a, b
<1>2. /\ Len(a) \in Nat /\ Len(b) \in Nat /\ Len(g[n + 1]) = Len(a) + Len(b)
      /\ \A j \in 1..(Len(a) + Len(b)) : g[n + 1][j] = IF j <= Len(a) THEN a[j] ELSE b[j - Len(a)]
  BY <1>1, Joined
<1>3. off[n + 1] = Len(a) /\ off[(n + 1) + 1] = Len(a) + Len(b)
  BY <1>2 DEF a
<1>4. ASSUME NEW k \in 1..(n + 1), NEW i \in 1..Len(ss[k])
      PROVE  off[k] + i <= Len(g[n + 1]) /\ g[n + 1][off[k] + i] = ss[k][i]
  <2>1. CASE k = n + 1
    <3>1. i \in 1..Len(b) /\ off[k] = Len(a) /\ ss[k] = b
      BY <1>3, <2>1 DEF b
    <3>2. off[k] + i \in 1..(Len(a) + Len(b)) /\ ~ (off[k] + i <= Len(a)) /\ (off[k] + i) - Len(a) = i
      BY <1>2, <3>1
    <3>3. g[n + 1][off[k] + i] = b[(off[k] + i) - Len(a)]
      BY <1>2, <3>2, Zenon
    <3> QED
      BY <1>2, <3>1, <3>2, <3>3
  <2>2. CASE k # n + 1
    <3>1. k \in 1..n
      BY <2>2
    <3>2. i \in Nat /\ i >= 1 /\ off[k] + i <= Len(a) /\ a[off[k] + i] = ss[k][i] /\ off[k] \in Nat
      BY <3>1 DEF a, Upto
    <3>3. off[k] + i \in 1..(Len(a) + Len(b))
      BY <1>2, <3>2
    <3>4. g[n + 1][off[k] + i] = a[off[k] + i]
      BY <1>2, <3>2, <3>3, Zenon
    <3> QED
      BY <1>2, <3>2, <3>3, <3>4
  <2> QED
    BY <2>1, <2>2, Zenon
<1>5. ASSUME NEW p \in 1..Len(g[n + 1])
      PROVE  \E k \in 1..(n + 1) : \E i \in 1..Len(ss[k]) : p = off[k] + i
  <2>1. CASE p <= Len(a)
    <3>1. p \in 1..Len(a)
      BY <1>2, <2>1
    <3>2. PICK k \in 1..n : \E i \in 1..Len(ss[k]) : p = off[k] + i
      BY <3>1 DEF a, Upto
    <3>3. k \in 1..(n + 1)
      OBVIOUS
    <3> QED
      BY <3>2, <3>3
  <2>2. CASE p > Len(a)
    <3>1. p - Len(a) \in 1..Len(b) /\ p = off[n + 1] + (p - Len(a)) /\ n + 1 \in 1..(n + 1)
      BY <1>2, <1>3, <2>2
    <3> QED
      BY <3>1, Zenon DEF b
  <2> QED
    BY <1>2, <2>1, <2>2
<1>6. Len(g[n + 1]) = off[(n + 1) + 1] /\ off[(n + 1) + 1] = off[n + 1] + Len(ss[n + 1])
  BY <1>2, <1>3 DEF b
<1> QED
  BY <1>4, <1>5, <1>6, Zenon DEF Upto

\* Where the elements of Concat come from.
LEMMA FlattenAt ==
    ASSUME NEW S, NEW ss \in Seq(Seq(S)), Len(ss) >= 1
    PROVE  Concat(ss) \in Seq(S) /\ \E off : Flattened(Concat(ss), ss, off)
<1>1. PICK g : Prefixes(S, ss, Len(ss), g) /\ Concat(ss) = g[Len(ss)]
  BY FlattenIs
<1> DEFINE off == [k \in 1..(Len(ss) + 1) |-> IF k = 1 THEN 0 ELSE Len(g[k - 1])]
           N == Len(ss)
<1>2. N \in Nat /\ N >= 1 /\ \A n \in 1..N : ss[n] \in Seq(S) /\ Len(ss[n]) \in Nat
  OBVIOUS
<1>3. \A n \in 1..N : /\ g[n] \in Seq(S) /\ Len(g[n]) \in Nat
                      /\ g[n] = IF n = 1 THEN ss[n] ELSE g[n - 1] \o ss[n]
  <2>1. \A n \in 1..N : g[n] \in Seq(S)
    BY <1>1, Zenon DEF Prefixes
  <2>2. \A n \in 1..N : g[n] = IF n = 1 THEN ss[n] ELSE g[n - 1] \o ss[n]
    BY <1>1, Zenon DEF Prefixes
  <2> QED
    BY <2>1, <2>2
<1> HIDE DEF N
<1>4. /\ off \in [1..(N + 1) -> Nat] /\ off[1] = 0
      /\ \A n \in 1..N : off[n + 1] = Len(g[n])
  <2>1. \A k \in 1..(N + 1) : k # 1 => k - 1 \in 1..N
    BY <1>2
  <2>2. \A n \in 1..N : n + 1 \in 1..(N + 1) /\ n + 1 # 1 /\ (n + 1) - 1 = n
    BY <1>2
  <2>3. \A n \in 1..N : off[n + 1] = Len(g[n])
    BY <2>2 DEF N
  <2>4. off = [k \in 1..(N + 1) |-> IF k = 1 THEN 0 ELSE Len(g[k - 1])]
    BY DEF N
  <2> HIDE DEF off
  <2> QED
    BY <1>2, <1>3, <2>1, <2>3, <2>4
<1> HIDE DEF off
<1> DEFINE T == {n \in Nat : n <= N => Upto(g, ss, off, n)}
<1>5. 1 \in T
  <2>1. 1 \in 1..N /\ off[1 + 1] = Len(g[1]) /\ off[1] = 0 /\ g[1] = ss[1] /\ Len(g[1]) \in Nat
    BY <1>2, <1>3, <1>4
  <2>2. \A p \in 1..Len(g[1]) : p = off[1] + p
    BY <2>1
  <2> QED
    BY <2>1, <2>2 DEF Upto
<1>6. ASSUME NEW n \in Nat, n >= 1, n \in T PROVE n + 1 \in T
  <2> SUFFICES ASSUME n + 1 <= N PROVE Upto(g, ss, off, n + 1)
    OBVIOUS
  <2>1. /\ n \in 1..N /\ n + 1 \in 1..N /\ n + 1 # 1 /\ (n + 1) - 1 = n
        /\ Upto(g, ss, off, n)
    BY <1>2, <1>6
  <2>2. g[n] \in Seq(S) /\ ss[n + 1] \in Seq(S) /\ g[n + 1] = g[n] \o ss[n + 1]
    BY <1>2, <1>3, <2>1, Zenon
  <2>3. (\A k \in 1..n : off[k] \in Nat) /\ off[n + 1] = Len(g[n]) /\ off[(n + 1) + 1] = Len(g[n + 1])
    BY <1>2, <1>4, <2>1
  <2> QED
    BY <1>6, <2>1, <2>2, <2>3, UptoNext, Zenon
<1> HIDE DEF T
<1>7. \A n \in Nat : n >= 1 => n \in T
  BY <1>5, <1>6, Induct, Zenon
<1>8. \A n \in 1..N : Upto(g, ss, off, n)
  BY <1>2, <1>7 DEF T
<1>9. N \in 1..N /\ Concat(ss) = g[N]
  BY <1>1, <1>2 DEF N
<1>10. Flattened(g[N], ss, off)
  <2>1. \A k \in 1..N : off[k + 1] = off[k] + Len(ss[k])
    BY <1>8 DEF Upto
  <2>2. /\ Len(g[N]) = off[N + 1]
        /\ \A k \in 1..N : \A i \in 1..Len(ss[k]) : g[N][off[k] + i] = ss[k][i]
        /\ \A p \in 1..Len(g[N]) : \E k \in 1..N : \E i \in 1..Len(ss[k]) : p = off[k] + i
    BY <1>8, <1>9, Zenon DEF Upto
  <2> QED
    BY <1>4, <2>1, <2>2 DEF Flattened, N
<1> QED
  BY <1>3, <1>9, <1>10

-----------------------------------------------------------------------------
(* Circular lists. *)

Distinct(q) == \A i, j \in 1..Len(q) : q[i] = q[j] => i = j

\* Two ways round from the head visit the same nodes: at the first place where
\* they differed, the pointer before it would differ.
LEMMA SameWay ==
    ASSUME NEW S, NULL \notin S, NEW head, NEW next, NEW p \in Seq(S), NEW q \in Seq(S),
           IsRing(p, head, next), IsRing(q, head, next)
    PROVE  \A n \in 1..Len(p) : n <= Len(q) /\ p[n] = q[n]
<1> DEFINE T == {n \in Nat : n \in 1..Len(p) /\ ~ (n <= Len(q) /\ p[n] = q[n])}
<1> SUFFICES ASSUME T # {} PROVE FALSE
  OBVIOUS
<1>1. PICK n \in T : \A m \in T : n <= m
  BY Least, Zenon
<1>2. n \in Nat /\ n \in 1..Len(p) /\ ~ (n <= Len(q) /\ p[n] = q[n]) /\ Len(p) \in Nat /\ Len(q) \in Nat
  BY <1>1
<1>3. p # <<>> /\ head # NULL
  BY <1>2 DEF IsRing
<1>4. q # <<>> /\ p[1] = head /\ q[1] = head
  BY <1>3 DEF IsRing
<1>5. CASE n = 1
  <2>1. Len(q) >= 1
    BY <1>2, <1>4
  <2> QED
    BY <1>2, <1>4, <1>5, <2>1
<1>6. CASE n # 1
  <2>1. n - 1 \in Nat /\ n - 1 \in 1..Len(p) /\ n - 1 < Len(p) /\ (n - 1) + 1 = n /\ n - 1 < n /\ n \in 2..Len(p)
    BY <1>2, <1>6
  <2>2. n - 1 <= Len(q) /\ p[n - 1] = q[n - 1]
    BY <1>1, <1>2, <2>1
  <2>3. next[p[n - 1]] = p[n] /\ p[n] # head
    BY <1>3, <2>1 DEF IsRing
  <2>4. n - 1 \in 1..Len(q)
    BY <1>2, <2>1, <2>2
  <2>5. next[q[n - 1]] = IF n - 1 < Len(q) THEN q[n] ELSE head
    BY <1>4, <2>1, <2>4 DEF IsRing
  <2>6. n - 1 < Len(q) /\ q[n] = p[n]
    BY <2>2, <2>3, <2>5
  <2>7. n <= Len(q)
    BY <1>2, <2>6
  <2> QED
    BY <1>2, <2>6, <2>7
<1> QED
  BY <1>5, <1>6

\* A ring without repetition is what the pointers lead along.
LEMMA RingIs ==
    ASSUME NEW S, IsFiniteSet(S), NULL \notin S, NEW head, NEW next, DOMAIN next = S,
           NEW q \in Seq(S), Distinct(q), IsRing(q, head, next)
    PROVE  Ring(head, next) = q
<1> DEFINE r == CHOOSE w \in Walks(S) : IsRing(w, head, next)
<1>1. q \in Walks(S)
  <2>1. q \in [1..Len(q) -> S] /\ Len(q) \in Nat
    OBVIOUS
  <2>2. q \in Injection(1..Len(q), S)
    BY <2>1 DEF Injection, IsInjective, Distinct
  <2>3. Cardinality(1..Len(q)) <= Cardinality(S) /\ Cardinality(S) \in Nat
    BY <2>2, FS_Injection, FS_CardinalityType
  <2>4. Cardinality(1..Len(q)) = IF 1 > Len(q) THEN 0 ELSE Len(q) - 1 + 1
    BY <2>1, 1 \in Int, Len(q) \in Int, FS_Interval
  <2>5. Len(q) \in 0..Cardinality(S)
    BY <2>1, <2>3, <2>4
  <2> QED
    BY <2>1, <2>5 DEF Walks
<1>2. r \in Walks(S) /\ IsRing(r, head, next)
  BY <1>1
<1>3. Ring(head, next) = r
  BY DEF Ring
<1>4. r \in Seq(S)
  BY <1>2, FS_CardinalityType DEF Walks
<1> HIDE DEF r
<1>5. /\ \A n \in 1..Len(q) : n <= Len(r) /\ q[n] = r[n]
      /\ \A n \in 1..Len(r) : n <= Len(q) /\ r[n] = q[n]
  BY <1>2, <1>4, SameWay
<1>6. Len(q) \in Nat /\ Len(r) \in Nat
  BY <1>4
<1>7. Len(q) = Len(r)
  BY <1>5, <1>6
<1>8. r = q
  BY <1>4, <1>5, <1>7
<1> QED
  BY <1>3, <1>8

\* A ring whose pointers do not change.
LEMMA RingKept ==
    ASSUME NEW head, NEW next, NEW new, NEW q, IsRing(q, head, next),
           \A i \in 1..Len(q) : new[q[i]] = next[q[i]]
    PROVE  IsRing(q, head, new)
BY DEF IsRing

\* Appending a node: the last node leads to it, and it leads to the head.
LEMMA RingAppended ==
    ASSUME NEW S, NULL \notin S, NEW head, NEW next, NEW new, NEW q \in Seq(S), NEW x \in S,
           IsRing(q, head, next), Distinct(q), q # <<>>,
           \A i \in 1..Len(q) : q[i] # x,
           new[x] = head, new[LastOf(q)] = x,
           \A y \in S : y # x /\ y # LastOf(q) => new[y] = next[y]
    PROVE  IsRing(Append(q, x), head, new) /\ Distinct(Append(q, x)) /\ Append(q, x) \in Seq(S)
<1> DEFINE r == Append(q, x)
<1>1. /\ Len(q) \in Nat /\ Len(q) >= 1 /\ r \in Seq(S) /\ Len(r) = Len(q) + 1
      /\ r[Len(q) + 1] = x /\ \A i \in 1..Len(q) : r[i] = q[i] /\ q[i] \in S
  OBVIOUS
<1> HIDE DEF r
<1>2. head # NULL /\ q[1] = head /\ r[1] = head /\ r # <<>> /\ x # head
  BY <1>1 DEF IsRing
<1>3. ASSUME NEW i \in 1..Len(r) PROVE new[r[i]] = IF i < Len(r) THEN r[i + 1] ELSE head
  <2>1. CASE i = Len(r)
    BY <1>1, <2>1
  <2>2. CASE i = Len(q)
    BY <1>1, <2>2 DEF LastOf
  <2>3. CASE i < Len(q)
    <3>1. i \in 1..Len(q) /\ i + 1 \in 1..Len(q) /\ Len(q) \in 1..Len(q) /\ i < Len(r) /\ i # Len(q)
      BY <1>1, <2>3
    <3>2. q[i] # q[Len(q)] /\ q[i] # x /\ q[i] \in S
      BY <1>1, <3>1 DEF Distinct
    <3>3. next[q[i]] = q[i + 1]
      BY <1>1, <1>2, <2>3, <3>1 DEF IsRing
    <3>4. new[q[i]] = next[q[i]]
      BY <3>2 DEF LastOf
    <3> QED
      BY <1>1, <3>1, <3>3, <3>4
  <2> QED
    BY <1>1, <2>1, <2>2, <2>3
<1>4. \A i \in 2..Len(r) : r[i] # head
  BY <1>1, <1>2 DEF IsRing
<1>5. Distinct(r)
  BY <1>1 DEF Distinct
<1>6. IsRing(r, head, new)
  BY <1>2, <1>3, <1>4 DEF IsRing
<1> QED
  BY <1>1, <1>5, <1>6 DEF r

\* What Unlink returns.
LEMMA UnlinkSeq ==
    ASSUME NEW S, NEW s \in Seq(S), NEW p \in 1..Len(s)
    PROVE  /\ Unlink(s, p) \in Seq(S) /\ Len(s) \in Nat /\ Len(Unlink(s, p)) = Len(s) - 1
           /\ \A i \in 1..(Len(s) - 1) : Unlink(s, p)[i] = IF i < p THEN s[i] ELSE s[i + 1]
<1> DEFINE a == SubSeq(s, 1, p - 1)
           b == SubSeq(s, p + 1, Len(s))
<1>1. a \in Seq(S) /\ b \in Seq(S)
  OBVIOUS
<1>2. Len(a) = p - 1 /\ Len(b) = Len(s) - p
  OBVIOUS
<1>3. /\ \A j \in 1..(p - 1) : a[j] = s[j]
      /\ \A j \in 1..(Len(s) - p) : b[j] = s[p + j]
  OBVIOUS
<1>4. Unlink(s, p) = a \o b
  BY DEF Unlink
<1> HIDE DEF a, b
<1>5. /\ a \o b \in Seq(S) /\ Len(a) \in Nat /\ Len(b) \in Nat /\ Len(a \o b) = Len(a) + Len(b)
      /\ \A j \in 1..(Len(a) + Len(b)) : (a \o b)[j] = IF j <= Len(a) THEN a[j] ELSE b[j - Len(a)]
  BY <1>1, Joined
<1>6. ASSUME NEW j \in 1..(Len(s) - 1) PROVE (a \o b)[j] = IF j < p THEN s[j] ELSE s[j + 1]
  <2>1. CASE j < p
    <3>1. j \in 1..(p - 1) /\ j \in 1..(Len(a) + Len(b)) /\ j <= Len(a)
      BY <1>2, <2>1
    <3> QED
      BY <1>3, <1>5, <2>1, <3>1
  <2>2. CASE ~ j < p
    <3>1. j - Len(a) \in 1..(Len(s) - p) /\ j \in 1..(Len(a) + Len(b)) /\ ~ (j <= Len(a)) /\ p + (j - Len(a)) = j + 1
      BY <1>2, <2>2
    <3> QED
      BY <1>3, <1>5, <2>2, <3>1
  <2> QED
    BY <2>1, <2>2
<1> QED
  BY <1>2, <1>4, <1>5, <1>6

\* The indexes of the nodes that stay.
Before(p, i) == IF i < p THEN i ELSE i + 1

\* Unlinking a node that is not the head: the one before it leads to the one after.
LEMMA RingUnlinked ==
    ASSUME NEW S, NULL \notin S, NEW head, NEW next, NEW new, NEW q \in Seq(S),
           NEW p \in 2..Len(q),
           IsRing(q, head, next), Distinct(q),
           new[q[p - 1]] = next[q[p]],
           \A y \in S : y # q[p] /\ y # q[p - 1] => new[y] = next[y]
    PROVE  IsRing(Unlink(q, p), head, new) /\ Distinct(Unlink(q, p)) /\ Unlink(q, p) \in Seq(S)
<1> DEFINE r == Unlink(q, p)
<1>1. /\ p \in 1..Len(q) /\ p - 1 \in 1..Len(q) /\ Len(q) \in Nat
      /\ \A i \in 1..Len(q) : q[i] \in S
  OBVIOUS
<1>2. /\ r \in Seq(S) /\ Len(r) = Len(q) - 1
      /\ \A i \in 1..(Len(q) - 1) : r[i] = IF i < p THEN q[i] ELSE q[i + 1]
  BY <1>1, UnlinkSeq
<1> HIDE DEF r
<1>3. \A i \in 1..Len(r) : Before(p, i) \in 1..Len(q) /\ r[i] = q[Before(p, i)] /\ Before(p, i) # p
  BY <1>1, <1>2 DEF Before
<1>4. head # NULL /\ q[1] = head /\ r # <<>> /\ r[1] = head
  BY <1>1, <1>2 DEF IsRing
<1>5. ASSUME NEW i \in 1..Len(r) PROVE new[r[i]] = IF i < Len(r) THEN r[i + 1] ELSE head
  <2>1. \A j \in 1..Len(q) : next[q[j]] = IF j < Len(q) THEN q[j + 1] ELSE head
    BY <1>4 DEF IsRing
  <2>2. \A j \in 1..Len(q) : j # p /\ j # p - 1 => new[q[j]] = next[q[j]]
    BY <1>1 DEF Distinct
  <2>3. CASE i = p - 1
    <3>1. r[i] = q[p - 1]
      BY <1>2, <2>3
    <3>2. new[r[i]] = IF p < Len(q) THEN q[p + 1] ELSE head
      BY <1>1, <2>1, <3>1
    <3>3. p < Len(q) => i < Len(r) /\ r[i + 1] = q[p + 1]
      <4>1. p < Len(q) => p \in 1..(Len(q) - 1) /\ ~ (p < p) /\ i + 1 = p
        BY <1>1, <2>3
      <4> QED
        BY <1>2, <2>3, <4>1
    <3>4. ~ (p < Len(q)) => ~ (i < Len(r))
      BY <1>1, <1>2, <2>3
    <3> QED
      BY <3>2, <3>3, <3>4
  <2>4. CASE i < p - 1
    <3>1. r[i] = q[i] /\ i < Len(r) /\ r[i + 1] = q[i + 1] /\ i \in 1..Len(q) /\ i < Len(q) /\ i # p /\ i # p - 1
      BY <1>1, <1>2, <2>4
    <3> QED
      BY <2>1, <2>2, <3>1
  <2>5. CASE i > p - 1
    <3>1. r[i] = q[i + 1] /\ i + 1 \in 1..Len(q) /\ i + 1 # p /\ i + 1 # p - 1
      BY <1>1, <1>2, <2>5
    <3>2. new[r[i]] = IF i + 1 < Len(q) THEN q[(i + 1) + 1] ELSE head
      BY <2>1, <2>2, <3>1
    <3>3. i < Len(r) => i + 1 < Len(q) /\ r[i + 1] = q[(i + 1) + 1]
      <4>1. i < Len(r) => i + 1 \in 1..(Len(q) - 1) /\ ~ (i + 1 < p)
        BY <1>1, <1>2, <2>5
      <4>2. i < Len(r) => i + 1 < Len(q)
        BY <1>1, <1>2
      <4> QED
        BY <1>2, <4>1, <4>2
    <3>4. ~ (i < Len(r)) => ~ (i + 1 < Len(q))
      BY <1>1, <1>2
    <3> QED
      BY <3>2, <3>3, <3>4
  <2> QED
    BY <1>1, <1>2, <2>3, <2>4, <2>5
<1>6. \A i \in 2..Len(r) : r[i] # head
  <2>1. \A i \in 2..Len(q) : q[i] # head
    BY <1>4 DEF IsRing
  <2>2. \A i \in 2..Len(r) : Before(p, i) \in 2..Len(q)
    BY <1>1, <1>2 DEF Before
  <2> QED
    BY <1>1, <1>2, <1>3, <2>1, <2>2
<1>7. Distinct(r)
  <2> SUFFICES ASSUME NEW i \in 1..Len(r), NEW j \in 1..Len(r), r[i] = r[j] PROVE i = j
    BY DEF Distinct
  <2>1. Before(p, i) = Before(p, j)
    BY <1>3 DEF Distinct
  <2> QED
    BY <1>1, <1>2, <2>1 DEF Before
<1>8. IsRing(r, head, new)
  BY <1>4, <1>5, <1>6 DEF IsRing
<1> QED
  BY <1>2, <1>7, <1>8 DEF r

-----------------------------------------------------------------------------
(* The lists of the scheduler. *)

\* T is the list of tasks, H has the list of threads of each task.  The pointers
\* lead along them; what is in a list exists, and the other way round; no thread
\* is in two lists; the idle task has the idle thread, and no other.
ListsAre(T, H) ==
    /\ ListsTypeOK
    /\ T \in Seq(AllTasks) /\ Distinct(T) /\ IsRing(T, IdleTask, task_next)
    /\ \A k \in AllTasks : task_next[k] # NULL <=> \E i \in 1..Len(T) : T[i] = k
    /\ H \in [AllTasks -> Seq(AllThreads)]
    /\ \A k \in AllTasks : IsRing(H[k], task_threads[k], thread_next)
    /\ \A k \in AllTasks : H[k] # <<>> => task_next[k] # NULL
    /\ \A k, l \in AllTasks : \A i \in 1..Len(H[k]), j \in 1..Len(H[l]) :
          H[k][i] = H[l][j] => k = l /\ i = j
    /\ \A t \in AllThreads : thread_next[t] # NULL <=>
          \E k \in AllTasks : \E i \in 1..Len(H[k]) : H[k][i] = t
    /\ H[IdleTask] = <<Idle>>

\* The threads in the order of the search, and how many precede the k-th task.
Lists(T, H) == [k \in 1..Len(T) |-> H[T[k]]]
Off(T, H) == CHOOSE off : Flattened(RunOrder(T, H), Lists(T, H), off)

\* The position after the n-th, of which there are n.
Wrap(x, n) == IF x < n THEN x ELSE 0
\* The position d places after the one with number here.
Around(here, d, n) == IF here + d - 1 < n THEN here + d - 1 ELSE here + d - 1 - n

\* The search at the task k and the thread t looks at position P next, of the
\* positions 0..(n - 1); at a task without threads, the first that follows.
Place(T, H, k, t, P) ==
    \E m \in 1..Len(T) : \E i \in Nat :
       /\ k = T[m]
       /\ \/ i \in 1..Len(H[k]) /\ t = H[k][i]
          \/ i = 1 /\ H[k] = <<>> /\ t = NULL
       /\ P = Wrap(Off(T, H)[m] + i - 1, Len(RunOrder(T, H)))

\* No thread from the current one to position P is READY, or none at all is.
Passed(T, H, P) ==
    LET O == RunOrder(T, H)
        n == Len(O)
    IN  \/ \A p \in 1..n : state[O[p]] # "READY"
        \/ \E here, d \in 1..n :
             /\ O[here] = thread_current
             /\ Around(here, d, n) = P
             /\ \A e \in 1..(d - 1) : state[O[Around(here, e, n) + 1]] # "READY"

SearchAt(T, H) ==
    walk = "search" => \E P \in Nat : Place(T, H, w_task, w_thread, P) /\ Passed(T, H, P)

\* The scan is in the m-th task, before its threads or at the i-th, and has seen
\* no zombie yet.  Nothing else runs: the idle thread does.
ScanAt(T, H) ==
    walk = "scan" =>
       /\ thread_current = Idle /\ state[Idle] = "RUNNING"
       /\ \E m \in 1..Len(T) :
            LET s == H[T[m]]
            IN  /\ w_task = T[m]
                /\ \A l \in 1..(m - 1) : \A j \in 1..Len(H[T[l]]) : ~ ZombieAt(T, H, state, l, j)
                /\ w_thread # NULL => \E i \in Examined(s) :
                     /\ w_thread = s[i] /\ w_prev = IF i = 1 THEN s[1] ELSE s[i - 1]
                     /\ \A j \in Examined(s) : j < i => state[s[j]] # "ZOMBIE"

\* The current thread is in the list of the current task.
Current(H) == \E i \in 1..Len(H[task_current]) : H[task_current][i] = thread_current

\* The inductive invariant.
Walked(T, H) ==
    /\ ListsAre(T, H) /\ Current(H) /\ SearchAt(T, H) /\ ScanAt(T, H)
    /\ state[Idle] # "ZOMBIE"
    /\ walk = "none" => w_thread = NULL
NInv == \E T, H : Walked(T, H)

\* The constants.
LEMMA Nodes ==
    /\ NULL \notin AllTasks /\ NULL \notin AllThreads /\ IsFiniteSet(AllTasks) /\ IsFiniteSet(AllThreads)
    /\ IdleTask \in AllTasks /\ Idle \in AllThreads
    /\ \A k \in Tasks : k \in AllTasks /\ k # IdleTask
    /\ \A t \in Threads : t \in AllThreads /\ t # Idle
<1>1. IsFiniteSet(AllTasks) /\ IsFiniteSet(AllThreads)
  BY ListsAssumption, FS_AddElement DEF AllTasks, AllThreads
<1> QED
  BY <1>1, ListsAssumption DEF AllTasks, AllThreads

\* Where the pointers of the task list lead.
LEMMA TaskNext ==
    ASSUME NEW T, NEW H, ListsAre(T, H)
    PROVE  /\ Len(T) \in Nat /\ Len(T) >= 1 /\ T[1] = IdleTask
           /\ \A m \in 1..Len(T) : /\ T[m] \in AllTasks /\ H[T[m]] \in Seq(AllThreads)
                                   /\ task_next[T[m]] = IF m < Len(T) THEN T[m + 1] ELSE T[1]
<1>1. IsRing(T, IdleTask, task_next) /\ IdleTask # NULL /\ T \in Seq(AllTasks) /\ H \in [AllTasks -> Seq(AllThreads)]
  BY Nodes DEF ListsAre
<1>2. Len(T) \in Nat /\ T # <<>> /\ T[1] = IdleTask /\ \A m \in 1..Len(T) : T[m] \in AllTasks
  BY <1>1 DEF IsRing
<1>3. Len(T) >= 1
  BY <1>1, <1>2
<1>4. \A m \in 1..Len(T) : task_next[T[m]] = IF m < Len(T) THEN T[m + 1] ELSE T[1]
  BY <1>1, <1>2 DEF IsRing
<1> QED
  BY <1>1, <1>2, <1>3, <1>4

\* Where the pointers of a list of threads lead.
LEMMA ThreadNext ==
    ASSUME NEW T, NEW H, ListsAre(T, H), NEW k \in AllTasks
    PROVE  /\ H[k] \in Seq(AllThreads) /\ Len(H[k]) \in Nat /\ Distinct(H[k])
           /\ task_threads[k] = IF H[k] = <<>> THEN NULL ELSE H[k][1]
           /\ H[k] = <<>> <=> Len(H[k]) = 0
           /\ \A i \in 1..Len(H[k]) : /\ H[k][i] \in AllThreads /\ H[k][i] # NULL /\ thread_next[H[k][i]] # NULL
                                      /\ thread_next[H[k][i]] = IF i < Len(H[k]) THEN H[k][i + 1] ELSE H[k][1]
<1>1. H[k] \in Seq(AllThreads) /\ IsRing(H[k], task_threads[k], thread_next)
  BY DEF ListsAre
<1>2. \A i \in 1..Len(H[k]) : H[k][i] \in AllThreads /\ H[k][i] # NULL
  BY <1>1, Nodes
<1>3. \A i \in 1..Len(H[k]) : thread_next[H[k][i]] # NULL
  BY <1>2 DEF ListsAre
<1>4. Distinct(H[k])
  BY DEF ListsAre, Distinct
<1>5. H[k] = <<>> <=> Len(H[k]) = 0
  BY <1>1
<1>6. task_threads[k] = IF H[k] = <<>> THEN NULL ELSE H[k][1]
  BY <1>1 DEF IsRing
<1>7. \A i \in 1..Len(H[k]) : thread_next[H[k][i]] = IF i < Len(H[k]) THEN H[k][i + 1] ELSE H[k][1]
  BY <1>1, <1>5, <1>6, Nodes DEF IsRing
<1>8. Len(H[k]) \in Nat
  BY <1>1
<1> QED
  BY <1>1, <1>2, <1>3, <1>4, <1>5, <1>6, <1>7, <1>8

\* The lists of ListsAre are the ones that the pointers give, in a state
LEMMA ListsSeq ==
    ASSUME NEW T, NEW H, ListsAre(T, H)
    PROVE  TaskSeq = T /\ ThreadSeq = H
<1>1. TaskSeq = T
  <2>1. DOMAIN task_next = AllTasks /\ T \in Seq(AllTasks) /\ Distinct(T) /\ IsRing(T, IdleTask, task_next)
    BY DEF ListsAre, ListsTypeOK
  <2> QED
    BY <2>1, Nodes, RingIs DEF TaskSeq, task_list
<1>2. ASSUME NEW k \in AllTasks PROVE Ring(task_threads[k], thread_next) = H[k]
  <2>1. DOMAIN thread_next = AllThreads /\ H[k] \in Seq(AllThreads) /\ IsRing(H[k], task_threads[k], thread_next)
    BY DEF ListsAre, ListsTypeOK
  <2>2. Distinct(H[k])
    BY DEF ListsAre, Distinct
  <2> QED
    BY <2>1, <2>2, Nodes, RingIs
<1>3. ThreadSeq = H
  <2>1. H = [k \in AllTasks |-> H[k]]
    BY DEF ListsAre
  <2> QED
    BY <1>2, <2>1, Zenon DEF ThreadSeq
<1> QED
  BY <1>1, <1>3

\* and in the next one.
LEMMA ListsSeqNext ==
    ASSUME NEW T, NEW H, ListsAre(T, H)'
    PROVE  TaskSeq' = T /\ ThreadSeq' = H
<1>1. TaskSeq' = T
  <2>1. DOMAIN task_next' = AllTasks /\ T \in Seq(AllTasks) /\ Distinct(T) /\ IsRing(T, IdleTask, task_next')
    BY DEF ListsAre, ListsTypeOK, IsRing, Distinct
  <2>2. Ring(IdleTask, task_next') = T
    BY <2>1, Nodes, RingIs
  <2> QED
    BY <2>2, Zenon DEF TaskSeq, task_list, Ring, IsRing
<1>2. ASSUME NEW k \in AllTasks PROVE Ring(task_threads'[k], thread_next') = H[k]
  <2>1. DOMAIN thread_next' = AllThreads /\ H[k] \in Seq(AllThreads) /\ IsRing(H[k], task_threads'[k], thread_next')
    BY DEF ListsAre, ListsTypeOK, IsRing
  <2>2. Distinct(H[k])
    BY DEF ListsAre, Distinct
  <2> QED
    BY <2>1, <2>2, Nodes, RingIs
<1>3. ThreadSeq' = H
  <2>1. H = [k \in AllTasks |-> H[k]]
    BY DEF ListsAre
  <2> QED
    BY <1>2, <2>1, Zenon DEF ThreadSeq, Ring, IsRing
<1> QED
  BY <1>1, <1>3

-----------------------------------------------------------------------------
(* The steps that change a list. *)

\* A list to which nothing happens is still a ring.
LEMMA OtherKept ==
    ASSUME NEW T, NEW H, ListsAre(T, H), NEW l \in AllTasks, NEW new, NEW head,
           head = task_threads[l],
           \A i \in 1..Len(H[l]) : new[H[l][i]] = thread_next[H[l][i]]
    PROVE  IsRing(H[l], head, new)
<1>1. IsRing(H[l], task_threads[l], thread_next)
  BY DEF ListsAre
<1> QED
  BY <1>1, RingKept

\* A step that leaves the pointers alone.
LEMMA ListsSame ==
    ASSUME NEW T, NEW H, ListsAre(T, H), UNCHANGED heap, ListsTypeOK'
    PROVE  ListsAre(T, H)'
<1>1. task_next' = task_next /\ task_threads' = task_threads /\ thread_next' = thread_next
  BY DEF heap
<1> QED
  BY <1>1, Zenon DEF ListsAre, IsRing, Distinct

\* task_create appends the new task.
LEMMA TaskCreated ==
    ASSUME NEW T, NEW H, ListsAre(T, H), NEW k \in Tasks, task_create(k)
    PROVE  ListsAre(Append(T, k), H)'
<1> DEFINE r == Append(T, k)
<1>1. k \in AllTasks /\ task_next[k] = NULL /\ NULL \notin AllTasks /\ IdleTask \in AllTasks
  BY Nodes DEF task_create
<1>2. T \in Seq(AllTasks) /\ Distinct(T) /\ IsRing(T, IdleTask, task_next)
      /\ Len(T) \in Nat /\ Len(T) >= 1 /\ T # <<>> /\ LastOf(T) \in AllTasks
      /\ (\A i \in 1..Len(T) : T[i] \in AllTasks) /\ LastOf(T) = T[Len(T)]
  <2>1. T \in Seq(AllTasks) /\ Distinct(T) /\ IsRing(T, IdleTask, task_next)
    BY Zenon DEF ListsAre
  <2>2. Len(T) \in Nat /\ Len(T) >= 1
    BY TaskNext, Zenon
  <2>3. T # <<>> /\ (\A i \in 1..Len(T) : T[i] \in AllTasks) /\ T[Len(T)] \in AllTasks
    BY <2>1, <2>2
  <2> QED
    BY <2>1, <2>2, <2>3, Zenon DEF LastOf
<1>3. \A i \in 1..Len(T) : T[i] # k
  BY <1>1 DEF ListsAre
<1>4. LastOf(T) # k
  BY <1>2, <1>3
<1>5. /\ task_next' = [task_next EXCEPT ![LastOf(T)] = k, ![k] = IdleTask]
      /\ task_threads' = task_threads /\ thread_next' = thread_next
  BY ListsSeq, Zenon DEF task_create, task_list
<1>6. task_next \in [AllTasks -> AllTasks \cup {NULL}]
  BY DEF ListsAre, ListsTypeOK
<1>7. /\ task_next'[k] = IdleTask /\ task_next'[LastOf(T)] = k
      /\ \A y \in AllTasks : y # k /\ y # LastOf(T) => task_next'[y] = task_next[y]
      /\ task_next' \in [AllTasks -> AllTasks \cup {NULL}]
  BY <1>1, <1>2, <1>4, <1>5, <1>6
<1>8. IsRing(r, IdleTask, task_next') /\ Distinct(r) /\ r \in Seq(AllTasks)
  BY <1>1, <1>2, <1>3, <1>7, RingAppended
<1>9. /\ Len(r) = Len(T) + 1 /\ r[Len(T) + 1] = k
      /\ \A i \in 1..Len(T) : r[i] = T[i]
  BY <1>1, <1>2
<1> HIDE DEF r
<1>10. ASSUME NEW l \in AllTasks PROVE task_next'[l] # NULL <=> \E i \in 1..Len(r) : r[i] = l
  <2>1. CASE l = k
    BY <1>1, <1>2, <1>7, <1>9, <2>1
  <2>2. CASE l # k
    <3>1. task_next'[l] # NULL <=> task_next[l] # NULL
      <4>1. task_next[LastOf(T)] # NULL
        BY <1>2 DEF ListsAre
      <4> QED
        BY <1>1, <1>7, <2>2, <4>1
    <3>2. (\E i \in 1..Len(r) : r[i] = l) <=> \E i \in 1..Len(T) : T[i] = l
      BY <1>2, <1>9, <2>2
    <3>3. task_next[l] # NULL <=> \E i \in 1..Len(T) : T[i] = l
      BY DEF ListsAre
    <3> QED
      BY <3>1, <3>2, <3>3
  <2> QED
    BY <2>1, <2>2
<1>11. ListsTypeOK'
  BY <1>5, <1>7, Zenon DEF ListsAre, ListsTypeOK, task_create, current_vars, walkers
<1>12. \A l \in AllTasks : H[l] # <<>> => task_next'[l] # NULL
  <2>1. \A l \in AllTasks : task_next[l] # NULL => task_next'[l] # NULL
    BY <1>1, <1>7
  <2>2. \A l \in AllTasks : H[l] # <<>> => task_next[l] # NULL
    BY DEF ListsAre
  <2> QED
    BY <2>1, <2>2
<1>13. \A l \in AllTasks : IsRing(H[l], task_threads'[l], thread_next')
  BY <1>5 DEF ListsAre
<1> QED
  BY <1>5, <1>8, <1>10, <1>11, <1>12, <1>13, Zenon DEF r, ListsAre, IsRing, Distinct

\* A step that changes the list of one task to q.
LEMMA OneChanged ==
    ASSUME NEW T, NEW H, ListsAre(T, H), NEW k \in Tasks, ListsTypeOK', task_next' = task_next,
           NEW q \in Seq(AllThreads), Distinct(q), IsRing(q, task_threads'[k], thread_next'),
           task_next[k] # NULL,
           \A l \in AllTasks : l # k =>
              /\ task_threads'[l] = task_threads[l]
              /\ \A j \in 1..Len(H[l]) : /\ thread_next'[H[l][j]] = thread_next[H[l][j]]
                                         /\ \A i \in 1..Len(q) : q[i] # H[l][j],
           \A t \in AllThreads : thread_next'[t] # NULL <=>
              \/ \E i \in 1..Len(q) : q[i] = t
              \/ \E l \in AllTasks : l # k /\ \E j \in 1..Len(H[l]) : H[l][j] = t
    PROVE  ListsAre(T, [H EXCEPT ![k] = q])'
<1> DEFINE G == [H EXCEPT ![k] = q]
<1>1. k \in AllTasks /\ k # IdleTask /\ IdleTask \in AllTasks /\ H \in [AllTasks -> Seq(AllThreads)]
  BY Nodes DEF ListsAre
<1>2. G \in [AllTasks -> Seq(AllThreads)] /\ G[k] = q /\ \A l \in AllTasks : l # k => G[l] = H[l]
  BY <1>1
<1> HIDE DEF G
<1>3. ASSUME NEW l \in AllTasks PROVE IsRing(G[l], task_threads'[l], thread_next')
  <2>1. CASE l = k
    BY <1>2, <2>1
  <2>2. CASE l # k
    <3>1. /\ task_threads'[l] = task_threads[l]
          /\ \A j \in 1..Len(H[l]) : thread_next'[H[l][j]] = thread_next[H[l][j]]
      BY <2>2, Zenon
    <3>2. IsRing(H[l], task_threads'[l], thread_next')
      BY <3>1, OtherKept, Zenon
    <3> QED
      BY <1>2, <2>2, <3>2
  <2> QED
    BY <2>1, <2>2
<1>4. ASSUME NEW l \in AllTasks, NEW m \in AllTasks, NEW i \in 1..Len(G[l]), NEW j \in 1..Len(G[m]), G[l][i] = G[m][j]
      PROVE  l = m /\ i = j
  <2>1. CASE l = k /\ m = k
    BY <1>2, <1>4, <2>1 DEF Distinct
  <2>2. CASE l = k /\ m # k
    BY <1>2, <1>4, <2>2
  <2>3. CASE l # k /\ m = k
    BY <1>2, <1>4, <2>3
  <2>4. CASE l # k /\ m # k
    <3>1. G[l] = H[l] /\ G[m] = H[m]
      BY <1>2, <2>4
    <3> QED
      BY <1>4, <3>1 DEF ListsAre
  <2> QED
    BY <2>1, <2>2, <2>3, <2>4
<1>5. ASSUME NEW t \in AllThreads
      PROVE  thread_next'[t] # NULL <=> \E l \in AllTasks : \E i \in 1..Len(G[l]) : G[l][i] = t
  <2>1. (\E l \in AllTasks : \E i \in 1..Len(G[l]) : G[l][i] = t) <=>
          \/ \E i \in 1..Len(q) : q[i] = t
          \/ \E l \in AllTasks : l # k /\ \E j \in 1..Len(H[l]) : H[l][j] = t
    <3>1. k \in AllTasks /\ G[k] = q /\ \A l \in AllTasks : l # k => G[l] = H[l]
      BY <1>1, <1>2
    <3>2. ASSUME NEW l \in AllTasks, NEW i \in 1..Len(G[l]), G[l][i] = t
          PROVE  \/ \E j \in 1..Len(q) : q[j] = t
                 \/ l # k /\ \E j \in 1..Len(H[l]) : H[l][j] = t
      <4>1. CASE l = k
        BY <3>1, <3>2, <4>1
      <4>2. CASE l # k
        BY <3>1, <3>2, <4>2
      <4> QED
        BY <4>1, <4>2
    <3>3. ASSUME NEW i \in 1..Len(q), q[i] = t PROVE \E j \in 1..Len(G[k]) : G[k][j] = t
      BY <3>1, <3>3
    <3>4. ASSUME NEW l \in AllTasks, l # k, NEW j \in 1..Len(H[l]), H[l][j] = t
          PROVE  \E i \in 1..Len(G[l]) : G[l][i] = t
      BY <3>1, <3>4
    <3> QED
      BY <3>1, <3>2, <3>3, <3>4
  <2> QED
    BY <2>1
<1>6. \A l \in AllTasks : G[l] # <<>> => task_next'[l] # NULL
  BY <1>2 DEF ListsAre
<1>7. G[IdleTask] = <<Idle>>
  BY <1>1, <1>2 DEF ListsAre
<1>8. /\ T \in Seq(AllTasks) /\ Distinct(T) /\ IsRing(T, IdleTask, task_next')
      /\ \A l \in AllTasks : task_next'[l] # NULL <=> \E i \in 1..Len(T) : T[i] = l
  BY DEF ListsAre
<1> QED
  BY <1>2, <1>3, <1>4, <1>5, <1>6, <1>7, <1>8, Zenon DEF G, ListsAre, IsRing, Distinct

\* A thread that does not exist is in no list.
LEMMA NotListed ==
    ASSUME NEW T, NEW H, ListsAre(T, H), NEW t \in AllThreads, thread_next[t] = NULL
    PROVE  \A k \in AllTasks : \A i \in 1..Len(H[k]) : H[k][i] # t
BY DEF ListsAre

\* task_create_thread appends the new thread to the list of its task.
LEMMA ThreadCreated ==
    ASSUME NEW T, NEW H, ListsAre(T, H), NEW k \in Tasks, NEW t \in Threads, task_create_thread(k, t)
    PROVE  ListsAre(T, [H EXCEPT ![k] = Append(@, t)])'
<1> DEFINE s == H[k]
           q == Append(s, t)
<1>1. /\ k \in AllTasks /\ t \in AllThreads /\ t # NULL /\ NULL \notin AllThreads
      /\ task_next[k] # NULL /\ thread_next[t] = NULL /\ task_next' = task_next
  BY Nodes DEF task_create_thread
<1>2. /\ thread_next \in [AllThreads -> AllThreads \cup {NULL}]
      /\ task_threads \in [AllTasks -> AllThreads \cup {NULL}]
      /\ H \in [AllTasks -> Seq(AllThreads)]
  BY DEF ListsAre, ListsTypeOK
<1>3. \A l \in AllTasks : \A i \in 1..Len(H[l]) : H[l][i] # t
  BY <1>1, NotListed
<1>4. /\ s \in Seq(AllThreads) /\ Distinct(s) /\ IsRing(s, task_threads[k], thread_next) /\ Len(s) \in Nat
      /\ (s = <<>> <=> Len(s) = 0) /\ task_threads[k] = (IF s = <<>> THEN NULL ELSE s[1])
      /\ \A i \in 1..Len(s) : s[i] \in AllThreads /\ s[i] # NULL
  <2>1. IsRing(s, task_threads[k], thread_next)
    BY <1>1 DEF ListsAre
  <2> QED
    BY <1>1, <2>1, ThreadNext
<1>5. /\ q \in Seq(AllThreads) /\ Len(q) = Len(s) + 1 /\ q[Len(s) + 1] = t
      /\ \A i \in 1..Len(s) : q[i] = s[i]
  BY <1>1, <1>4
<1>6. \A i \in 1..Len(q) : q[i] = t \/ \E j \in 1..Len(s) : q[i] = s[j]
  BY <1>4, <1>5
<1>7. /\ IsRing(q, task_threads'[k], thread_next') /\ Distinct(q)
      /\ thread_next' \in [AllThreads -> AllThreads \cup {NULL}]
      /\ task_threads' \in [AllTasks -> AllThreads \cup {NULL}]
      /\ \A l \in AllTasks : l # k => task_threads'[l] = task_threads[l]
      /\ thread_next'[t] # NULL
      /\ \A u \in AllThreads : u # t /\ thread_next'[u] # thread_next[u] =>
            (\E i \in 1..Len(s) : u = s[i]) /\ thread_next'[u] # NULL
  <2>1. CASE s = <<>>
    <3>1. /\ task_threads' = [task_threads EXCEPT ![k] = t]
          /\ thread_next' = [thread_next EXCEPT ![t] = t]
      BY <1>4, <2>1 DEF task_create_thread
    <3>2. Len(q) = 1 /\ q[1] = t /\ q # <<>>
      BY <1>4, <1>5, <2>1
    <3>3. task_threads'[k] = t /\ thread_next'[t] = t
      BY <1>1, <1>2, <3>1
    <3>4. IsRing(q, task_threads'[k], thread_next') /\ Distinct(q)
      <4> HIDE DEF q
      <4> QED
        BY <1>1, <3>2, <3>3 DEF IsRing, Distinct
    <3> QED
      BY <1>1, <1>2, <3>1, <3>3, <3>4
  <2>2. CASE s # <<>>
    <3>1. ThreadSeq[k] = s
      BY ListsSeq
    <3>2. LastOf(s) = s[Len(s)] /\ Len(s) \in 1..Len(s)
      BY <1>4, <2>2 DEF LastOf
    <3>3. /\ thread_next' = [thread_next EXCEPT ![LastOf(s)] = t, ![t] = task_threads[k]]
          /\ task_threads' = task_threads
      BY <1>4, <2>2, <3>1, <3>2 DEF task_create_thread
    <3>4. LastOf(s) \in AllThreads /\ LastOf(s) # t
      BY <1>1, <1>3, <1>4, <3>2
    <3>5. /\ thread_next'[t] = task_threads[k] /\ thread_next'[LastOf(s)] = t
          /\ \A y \in AllThreads : y # t /\ y # LastOf(s) => thread_next'[y] = thread_next[y]
          /\ thread_next' \in [AllThreads -> AllThreads \cup {NULL}]
      BY <1>1, <1>2, <3>3, <3>4, Zenon
    <3>6. \A i \in 1..Len(s) : s[i] # t
      BY <1>1, <1>3
    <3>7. IsRing(q, task_threads[k], thread_next') /\ Distinct(q)
      <4> HIDE DEF s
      <4> QED
        BY <1>1, <1>4, <2>2, <3>5, <3>6, RingAppended
    <3>8. thread_next'[t] # NULL
      BY <1>4, <2>2, <3>2, <3>5
    <3>9. ASSUME NEW u \in AllThreads, u # t, thread_next'[u] # thread_next[u]
          PROVE  (\E i \in 1..Len(s) : u = s[i]) /\ thread_next'[u] # NULL
      BY <1>1, <3>2, <3>5, <3>9
    <3> QED
      BY <1>2, <3>3, <3>5, <3>7, <3>8, <3>9, Zenon
  <2> QED
    BY <2>1, <2>2
<1>8. ListsTypeOK'
  <2>1. state' \in [AllThreads -> {"READY", "RUNNING", "BLOCKED", "ZOMBIE"}]
    BY Zenon DEF ListsAre, ListsTypeOK, task_create_thread
  <2> QED
    BY <1>1, <1>7, <2>1 DEF ListsAre, ListsTypeOK, task_create_thread, current_vars, walkers
<1>9. ASSUME NEW l \in AllTasks, l # k, NEW j \in 1..Len(H[l])
      PROVE  /\ thread_next'[H[l][j]] = thread_next[H[l][j]]
             /\ \A i \in 1..Len(q) : q[i] # H[l][j]
  <2>1. H[l][j] # t /\ H[l][j] \in AllThreads
    BY <1>3, ThreadNext
  <2>2. \A i \in 1..Len(s) : s[i] # H[l][j]
    BY <1>1, <1>9 DEF ListsAre
  <2>3. \A i \in 1..Len(q) : q[i] # H[l][j]
    BY <1>6, <2>1, <2>2, Zenon
  <2>4. thread_next'[H[l][j]] = thread_next[H[l][j]]
    BY <1>7, <2>1, <2>2
  <2> QED
    BY <2>3, <2>4
<1>10. ASSUME NEW u \in AllThreads
       PROVE  thread_next'[u] # NULL <=>
                 \/ \E i \in 1..Len(q) : q[i] = u
                 \/ \E l \in AllTasks : l # k /\ \E j \in 1..Len(H[l]) : H[l][j] = u
  <2>1. CASE u = t
    <3>1. Len(s) + 1 \in 1..Len(q)
      BY <1>4, <1>5
    <3> QED
      BY <1>5, <1>7, <2>1, <3>1
  <2>2. CASE u # t
    <3>1. (\E i \in 1..Len(q) : q[i] = u) <=> \E i \in 1..Len(s) : s[i] = u
      BY <1>4, <1>5, <1>6, <2>2
    <3>2. thread_next[u] # NULL <=> \E l \in AllTasks : \E j \in 1..Len(H[l]) : H[l][j] = u
      BY DEF ListsAre
    <3>3. thread_next'[u] # NULL <=> thread_next[u] # NULL
      <4>1. CASE thread_next'[u] = thread_next[u]
        BY <4>1
      <4>2. CASE thread_next'[u] # thread_next[u]
        <5>1. PICK i \in 1..Len(s) : u = s[i]
          BY <1>7, <2>2, <4>2
        <5>2. thread_next[u] # NULL
          BY <1>1, <3>2, <5>1
        <5> QED
          BY <1>7, <2>2, <4>2, <5>2
      <4> QED
        BY <4>1, <4>2
    <3> QED
      BY <1>1, <3>1, <3>2, <3>3
  <2> QED
    BY <2>1, <2>2
<1>11. [H EXCEPT ![k] = Append(@, t)] = [H EXCEPT ![k] = q]
  BY <1>1, <1>2
<1> HIDE DEF s, q
<1>12. ListsAre(T, [H EXCEPT ![k] = q])'
  BY <1>1, <1>5, <1>7, <1>8, <1>9, <1>10, OneChanged, Zenon
<1> QED
  BY <1>11, <1>12

\* The places the scan looks at.
LEMMA ExaminedIs ==
    ASSUME NEW s, Len(s) \in Nat, NEW p \in Examined(s)
    PROVE  p \in 1..Len(s) /\ (p = 1 => Len(s) = 1) /\ (p # 1 => p \in 2..Len(s))
BY DEF Examined

\* kernel_idle_thread takes the p-th thread out of the list of its task.
LEMMA ThreadUnlinked ==
    ASSUME NEW T, NEW H, ListsAre(T, H), scan_unlink, NEW k \in AllTasks, NEW p \in Examined(H[k]),
           w_task = k, w_thread = H[k][p], w_prev = IF p = 1 THEN H[k][1] ELSE H[k][p - 1],
           k # IdleTask
    PROVE  ListsAre(T, [H EXCEPT ![k] = Unlink(@, p)])'
<1> DEFINE s == H[k]
           q == Unlink(s, p)
           x == s[p]
<1>1. /\ s \in Seq(AllThreads) /\ Distinct(s) /\ Len(s) \in Nat /\ k \in Tasks
      /\ (s = <<>> <=> Len(s) = 0) /\ task_threads[k] = (IF s = <<>> THEN NULL ELSE s[1])
      /\ \A i \in 1..Len(s) : /\ s[i] \in AllThreads /\ s[i] # NULL
                              /\ thread_next[s[i]] = IF i < Len(s) THEN s[i + 1] ELSE s[1]
  BY ThreadNext DEF AllTasks
<1>2. IsRing(s, task_threads[k], thread_next) /\ H \in [AllTasks -> Seq(AllThreads)]
  BY DEF ListsAre
<1>3. p \in 1..Len(s) /\ (p = 1 => Len(s) = 1) /\ (p # 1 => p \in 2..Len(s)) /\ s # <<>>
  BY <1>1, ExaminedIs
<1>4. /\ thread_next \in [AllThreads -> AllThreads \cup {NULL}]
      /\ task_threads \in [AllTasks -> AllThreads \cup {NULL}]
      /\ NULL \notin AllThreads
  BY Nodes DEF ListsAre, ListsTypeOK
<1>5. /\ q \in Seq(AllThreads) /\ Len(q) = Len(s) - 1
      /\ \A i \in 1..(Len(s) - 1) : q[i] = IF i < p THEN s[i] ELSE s[i + 1]
  BY <1>1, <1>3, UnlinkSeq, Zenon
<1>6. x \in AllThreads /\ x # NULL /\ x = w_thread
  BY <1>1, <1>3
<1>7. \A u \in AllThreads : (\E i \in 1..Len(q) : q[i] = u) <=> u # x /\ \E i \in 1..Len(s) : s[i] = u
  <2>1. ASSUME NEW i \in 1..Len(q) PROVE q[i] # x /\ \E j \in 1..Len(s) : s[j] = q[i]
    <3>1. Before(p, i) \in 1..Len(s) /\ q[i] = s[Before(p, i)] /\ Before(p, i) # p
      BY <1>1, <1>3, <1>5 DEF Before
    <3> QED
      BY <1>3, <1>1, <3>1 DEF Distinct
  <2>2. ASSUME NEW j \in 1..Len(s), s[j] # x PROVE \E i \in 1..Len(q) : q[i] = s[j]
    <3>1. CASE j < p
      BY <1>1, <1>3, <1>5, <3>1
    <3>2. CASE j > p
      <4>1. j - 1 \in 1..Len(q) /\ ~ (j - 1 < p) /\ (j - 1) + 1 = j
        BY <1>1, <1>3, <1>5, <3>2
      <4>2. q[j - 1] = s[j]
        BY <1>5, <4>1
      <4> QED
        BY <4>1, <4>2
    <3> QED
      BY <1>1, <1>3, <2>2, <3>1, <3>2
  <2> QED
    BY <2>1, <2>2, Zenon
<1> HIDE DEF q
<1>8. /\ IsRing(q, task_threads'[k], thread_next') /\ Distinct(q)
      /\ thread_next' \in [AllThreads -> AllThreads \cup {NULL}]
      /\ task_threads' \in [AllTasks -> AllThreads \cup {NULL}]
      /\ \A l \in AllTasks : l # k => task_threads'[l] = task_threads[l]
      /\ thread_next'[x] = NULL
      /\ \A u \in AllThreads : u # x /\ thread_next'[u] # thread_next[u] =>
            (\E i \in 1..Len(s) : u = s[i]) /\ thread_next'[u] # NULL
  <2>1. CASE p = 1
    <3>1. thread_next[x] = x /\ Len(s) = 1
      BY <1>1, <1>3, <2>1
    <3>2. /\ task_threads' = [task_threads EXCEPT ![k] = NULL]
          /\ thread_next' = [thread_next EXCEPT ![x] = NULL]
      BY <1>6, <3>1 DEF scan_unlink
    <3>3. q = <<>>
      BY <1>5, <3>1
    <3>4. task_threads'[k] = NULL
      BY <1>4, <3>2
    <3>5. IsRing(q, task_threads'[k], thread_next') /\ Distinct(q)
      BY <3>3, <3>4 DEF IsRing, Distinct
    <3> QED
      BY <1>4, <1>6, <3>2, <3>5
  <2>2. CASE p # 1
    <3>1. p \in 2..Len(s) /\ p - 1 \in 1..Len(s) /\ 1 \in 1..Len(s) /\ p - 1 # p
      BY <1>1, <1>3, <2>2
    <3>2. w_prev = s[p - 1] /\ s[p - 1] # x /\ s[1] # x /\ s[p - 1] \in AllThreads
      BY <1>1, <1>3, <2>2, <3>1 DEF Distinct
    <3>3. thread_next[x] # x
      <4>1. p < Len(s) => p + 1 \in 1..Len(s) /\ p + 1 # p
        BY <1>1, <1>3
      <4>2. p < Len(s) => s[p + 1] # x
        BY <1>1, <1>3, <4>1 DEF Distinct
      <4> QED
        BY <1>1, <1>3, <3>2, <4>2
    <3>4. /\ task_threads' = [task_threads EXCEPT ![k] = IF @ = x THEN thread_next[x] ELSE @]
          /\ thread_next' = [thread_next EXCEPT ![w_prev] = thread_next[x], ![x] = NULL]
      BY <1>6, <3>3 DEF scan_unlink
    <3>5. task_threads' = task_threads
      BY <1>1, <1>3, <1>4, <3>2, <3>4
    <3>6. /\ thread_next'[s[p - 1]] = thread_next[x] /\ thread_next'[x] = NULL
          /\ \A y \in AllThreads : y # x /\ y # s[p - 1] => thread_next'[y] = thread_next[y]
          /\ thread_next' \in [AllThreads -> AllThreads \cup {NULL}]
      BY <1>4, <1>6, <3>2, <3>4
    <3>7. IsRing(q, task_threads[k], thread_next') /\ Distinct(q)
      <4> HIDE DEF s
      <4>1. /\ thread_next'[s[p - 1]] = thread_next[s[p]]
            /\ \A y \in AllThreads : y # s[p] /\ y # s[p - 1] => thread_next'[y] = thread_next[y]
        BY <3>6
      <4> QED
        <5>1. NULL \notin AllThreads /\ s \in Seq(AllThreads) /\ Distinct(s)
              /\ IsRing(s, task_threads[k], thread_next) /\ p \in 2..Len(s)
          BY <1>1, <1>2, <1>4, <3>1
        <5>2. IsRing(Unlink(s, p), task_threads[k], thread_next') /\ Distinct(Unlink(s, p))
          BY <4>1, <5>1, RingUnlinked
        <5> QED
          BY <5>2 DEF q
    <3>8. thread_next[x] # NULL
      <4>1. 1 \in 1..Len(s) /\ (p < Len(s) => p + 1 \in 1..Len(s))
        BY <1>1, <1>3
      <4> QED
        BY <1>1, <1>3, <4>1
    <3>9. ASSUME NEW u \in AllThreads, u # x, thread_next'[u] # thread_next[u]
          PROVE  (\E i \in 1..Len(s) : u = s[i]) /\ thread_next'[u] # NULL
      BY <3>1, <3>6, <3>8, <3>9
    <3> QED
      BY <1>4, <3>5, <3>6, <3>7, <3>9
  <2> QED
    BY <2>1, <2>2
<1>9. ListsTypeOK'
  BY <1>8, <1>4, Nodes DEF ListsAre, ListsTypeOK, scan_unlink, current_vars
<1>10. ASSUME NEW l \in AllTasks, l # k, NEW j \in 1..Len(H[l])
       PROVE  /\ thread_next'[H[l][j]] = thread_next[H[l][j]]
              /\ \A i \in 1..Len(q) : q[i] # H[l][j]
  <2>1. H[l][j] \in AllThreads /\ \A i \in 1..Len(s) : s[i] # H[l][j]
    BY <1>10, ThreadNext DEF ListsAre
  <2>2. H[l][j] # x
    BY <1>3, <2>1
  <2> QED
    BY <1>7, <1>8, <2>1, <2>2
<1>11. ASSUME NEW u \in AllThreads
       PROVE  thread_next'[u] # NULL <=>
                 \/ \E i \in 1..Len(q) : q[i] = u
                 \/ \E l \in AllTasks : l # k /\ \E j \in 1..Len(H[l]) : H[l][j] = u
  <2>1. \A l \in AllTasks : l # k => \A j \in 1..Len(H[l]) : H[l][j] # x
    BY <1>3 DEF ListsAre
  <2>2. thread_next[u] # NULL <=> \E l \in AllTasks : \E j \in 1..Len(H[l]) : H[l][j] = u
    BY DEF ListsAre
  <2>3. CASE u = x
    BY <1>7, <1>8, <2>1, <2>3
  <2>4. CASE u # x
    <3>1. thread_next'[u] # NULL <=> thread_next[u] # NULL
      <4>1. CASE thread_next'[u] = thread_next[u]
        BY <4>1
      <4>2. CASE thread_next'[u] # thread_next[u]
        <5>1. PICK i \in 1..Len(s) : u = s[i]
          BY <1>8, <2>4, <4>2
        <5>2. thread_next[u] # NULL
          BY <2>2, <5>1
        <5> QED
          BY <1>8, <2>4, <4>2, <5>2
      <4> QED
        BY <4>1, <4>2
    <3> QED
      BY <1>7, <2>2, <2>4, <3>1
  <2> QED
    BY <2>3, <2>4
<1>12. [H EXCEPT ![k] = Unlink(@, p)] = [H EXCEPT ![k] = q]
  BY <1>2 DEF q
<1>13. task_next[k] # NULL /\ task_next' = task_next
  BY <1>3 DEF ListsAre, scan_unlink
<1> HIDE DEF s, x
<1>14. ListsAre(T, [H EXCEPT ![k] = q])'
  BY <1>1, <1>5, <1>8, <1>9, <1>10, <1>11, <1>13, OneChanged
<1> QED
  BY <1>12, <1>14

-----------------------------------------------------------------------------
(* The order of the search. *)

\* In the order O, off[m] threads precede those of the m-th task.
InOrder(T, H, O, off) ==
    /\ O \in Seq(AllThreads) /\ Len(O) \in Nat /\ Len(O) >= 1
    /\ \A m \in 1..(Len(T) + 1) : off[m] \in 0..Len(O)
    /\ off[1] = 0 /\ off[Len(T) + 1] = Len(O)
    /\ \A m \in 1..Len(T) : off[m + 1] = off[m] + Len(H[T[m]])
    /\ \A m \in 1..Len(T) : \A i \in 1..Len(H[T[m]]) :
          off[m] + i \in 1..Len(O) /\ O[off[m] + i] = H[T[m]][i]
    /\ \A p \in 1..Len(O) : \E m \in 1..Len(T) : \E i \in 1..Len(H[T[m]]) : p = off[m] + i

\* Where the threads of each task are in the order.
LEMMA OrderAt ==
    ASSUME NEW T, NEW H, ListsAre(T, H)
    PROVE  InOrder(T, H, RunOrder(T, H), Off(T, H))
<1> DEFINE O == RunOrder(T, H)
           off == Off(T, H)
           ss == Lists(T, H)
           N == Len(T)
<1>1. N \in Nat /\ N >= 1 /\ T[1] = IdleTask /\ \A m \in 1..N : H[T[m]] \in Seq(AllThreads)
  BY TaskNext
<1>2. /\ ss \in Seq(Seq(AllThreads)) /\ Len(ss) = N
      /\ \A m \in 1..N : ss[m] = H[T[m]]
  BY <1>1 DEF Lists
<1>3. O = Concat(ss)
  BY DEF RunOrder, Lists
<1>4. O \in Seq(AllThreads) /\ \E f : Flattened(O, ss, f)
  <2> HIDE DEF ss, O
  <2> QED
    BY <1>1, <1>2, <1>3, FlattenAt
<1>5. Flattened(O, ss, off)
  BY <1>4 DEF Off
<1> HIDE DEF O, off, ss
<1>6. /\ off \in [1..(N + 1) -> Nat] /\ off[1] = 0 /\ Len(O) = off[N + 1] /\ Len(O) \in Nat
      /\ \A m \in 1..N : off[m + 1] = off[m] + Len(H[T[m]])
      /\ \A m \in 1..N : \A i \in 1..Len(H[T[m]]) : O[off[m] + i] = H[T[m]][i]
      /\ \A p \in 1..Len(O) : \E m \in 1..N : \E i \in 1..Len(H[T[m]]) : p = off[m] + i
  <2>1. /\ off \in [1..(N + 1) -> Nat] /\ off[1] = 0 /\ Len(O) = off[N + 1]
    BY <1>2, <1>5 DEF Flattened
  <2>2. \A m \in 1..N : off[m + 1] = off[m] + Len(H[T[m]])
    BY <1>2, <1>5, Zenon DEF Flattened
  <2>3. \A m \in 1..N : \A i \in 1..Len(H[T[m]]) : O[off[m] + i] = H[T[m]][i]
    <3>1. \A m \in 1..Len(ss) : \A i \in 1..Len(ss[m]) : O[off[m] + i] = ss[m][i]
      BY <1>5, Zenon DEF Flattened
    <3> QED
      BY <1>2, <3>1
  <2>4. ASSUME NEW p \in 1..Len(O) PROVE \E m \in 1..N : \E i \in 1..Len(H[T[m]]) : p = off[m] + i
    <3>1. PICK m \in 1..N : \E i \in 1..Len(ss[m]) : p = off[m] + i
      BY <1>2, <1>5 DEF Flattened
    <3> QED
      BY <1>2, <3>1, Zenon
  <2>5. Len(O) \in Nat
    BY <1>4
  <2> QED
    BY <2>1, <2>2, <2>3, <2>4, <2>5, Zenon
<1>7. \A m \in 1..N : Len(H[T[m]]) \in Nat
  BY <1>1
<1> DEFINE R == {j \in Nat : j <= N => off[N + 1 - j] <= Len(O)}
<1>8. 0 \in R
  BY <1>1, <1>6
<1>9. ASSUME NEW j \in Nat, j \in R PROVE j + 1 \in R
  <2> SUFFICES ASSUME j + 1 <= N PROVE off[N + 1 - (j + 1)] <= Len(O)
    OBVIOUS
  <2> DEFINE m == N + 1 - (j + 1)
  <2>1. m \in 1..N /\ m + 1 = N + 1 - j /\ m \in 1..(N + 1) /\ m + 1 \in 1..(N + 1)
    BY <1>1
  <2>2. off[m + 1] <= Len(O) /\ off[m + 1] = off[m] + Len(H[T[m]])
    BY <1>6, <1>9, <2>1
  <2>3. off[m] \in Nat /\ Len(H[T[m]]) \in Nat
    BY <1>6, <1>7, <2>1
  <2> HIDE DEF m
  <2>4. off[m] <= Len(O)
    BY <1>6, <2>2, <2>3
  <2> QED
    BY <2>4 DEF m
<1> HIDE DEF R
<1>10. \A j \in Nat : j >= 0 => j \in R
  BY <1>8, <1>9, Induct
<1>11. ASSUME NEW m \in 1..(N + 1) PROVE off[m] \in 0..Len(O)
  <2>1. N + 1 - m \in Nat /\ N + 1 - m <= N /\ N + 1 - (N + 1 - m) = m
    BY <1>1
  <2>2. off[m] <= Len(O)
    BY <1>10, <2>1 DEF R
  <2> QED
    BY <1>6, <2>2
<1>12. ASSUME NEW m \in 1..N, NEW i \in 1..Len(H[T[m]]) PROVE off[m] + i \in 1..Len(O)
  <2>1. m \in 1..(N + 1) /\ m + 1 \in 1..(N + 1)
    BY <1>1
  <2>2. off[m] \in Nat /\ off[m + 1] <= Len(O) /\ off[m + 1] = off[m] + Len(H[T[m]])
    BY <1>6, <1>11, <2>1
  <2> QED
    BY <1>6, <1>7, <2>2
<1>13. Len(O) >= 1
  <2>1. 1 \in 1..N /\ H[T[1]] = <<Idle>>
    BY <1>1 DEF ListsAre
  <2>2. 1 \in 1..Len(H[T[1]])
    BY <2>1
  <2>3. off[1] + 1 \in 1..Len(O)
    BY <1>12, <2>1, <2>2, Zenon
  <2> QED
    BY <1>6, <2>3
<1> QED
  BY <1>4, <1>6, <1>11, <1>12, <1>13 DEF O, off, InOrder

\* No thread is in the order twice, and the threads that exist are in it.
LEMMA OrderOnce ==
    ASSUME NEW T, NEW H, ListsAre(T, H)
    PROVE  LET O == RunOrder(T, H)
           IN  /\ Distinct(O)
               /\ \A t \in AllThreads : thread_next[t] # NULL <=> \E p \in 1..Len(O) : O[p] = t
<1> DEFINE O == RunOrder(T, H)
           off == Off(T, H)
<1>0. InOrder(T, H, O, off)
  BY OrderAt
<1> HIDE DEF O, off
<1>1. /\ \A m \in 1..Len(T) : \A i \in 1..Len(H[T[m]]) :
            off[m] + i \in 1..Len(O) /\ O[off[m] + i] = H[T[m]][i]
      /\ \A p \in 1..Len(O) : \E m \in 1..Len(T) : \E i \in 1..Len(H[T[m]]) : p = off[m] + i
  BY <1>0, Zenon DEF InOrder
<1>2. \A m \in 1..Len(T) : T[m] \in AllTasks
  BY TaskNext
<1>3. ASSUME NEW p \in 1..Len(O), NEW r \in 1..Len(O), O[p] = O[r] PROVE p = r
  <2>1. PICK m \in 1..Len(T) : \E i \in 1..Len(H[T[m]]) : p = off[m] + i
    BY <1>1
  <2>2. PICK i \in 1..Len(H[T[m]]) : p = off[m] + i
    BY <2>1
  <2>3. PICK l \in 1..Len(T) : \E j \in 1..Len(H[T[l]]) : r = off[l] + j
    BY <1>1, Zenon
  <2>4. PICK j \in 1..Len(H[T[l]]) : r = off[l] + j
    BY <2>3
  <2>5. H[T[m]][i] = H[T[l]][j]
    <3>1. O[p] = H[T[m]][i] /\ O[r] = H[T[l]][j]
      BY <1>1, <2>2, <2>4
    <3> QED
      BY <1>3, <3>1
  <2>6. T[m] = T[l] /\ i = j
    <3>1. T[m] \in AllTasks /\ T[l] \in AllTasks
      BY <1>2
    <3> QED
      BY <2>5, <3>1 DEF ListsAre
  <2>7. m = l
    BY <2>6, Zenon DEF ListsAre, Distinct
  <2> QED
    BY <2>2, <2>4, <2>6, <2>7
<1>4. ASSUME NEW t \in AllThreads PROVE thread_next[t] # NULL <=> \E p \in 1..Len(O) : O[p] = t
  <2>1. ASSUME NEW p \in 1..Len(O), O[p] = t PROVE thread_next[t] # NULL
    <3>1. PICK m \in 1..Len(T) : \E i \in 1..Len(H[T[m]]) : p = off[m] + i
      BY <1>1
    <3>2. PICK i \in 1..Len(H[T[m]]) : p = off[m] + i
      BY <3>1
    <3>3. H[T[m]][i] = t /\ T[m] \in AllTasks
      BY <1>1, <1>2, <2>1, <3>2
    <3> QED
      BY <3>3, ThreadNext
  <2>2. ASSUME thread_next[t] # NULL PROVE \E p \in 1..Len(O) : O[p] = t
    <3>1. PICK k \in AllTasks : \E i \in 1..Len(H[k]) : H[k][i] = t
      BY <2>2, Zenon DEF ListsAre
    <3>2. PICK i \in 1..Len(H[k]) : H[k][i] = t
      BY <3>1
    <3>3. H[k] # <<>>
      BY <3>2, ThreadNext
    <3>4. PICK m \in 1..Len(T) : T[m] = k
      BY <3>3 DEF ListsAre
    <3>5. off[m] + i \in 1..Len(O) /\ O[off[m] + i] = t
      BY <1>1, <3>2, <3>4
    <3> QED
      BY <3>5
  <2> QED
    BY <2>1, <2>2
<1> QED
  BY <1>3, <1>4 DEF Distinct, O

-----------------------------------------------------------------------------
(* The search. *)

\* The thread t of the task k has position P, from 0 on.
Placed(T, H, k, t, P) ==
    /\ P \in Nat /\ P < Len(RunOrder(T, H)) /\ P + 1 \in 1..Len(RunOrder(T, H))
    /\ RunOrder(T, H)[P + 1] = t
    /\ k \in AllTasks /\ t \in AllThreads /\ \E i \in 1..Len(H[k]) : H[k][i] = t

\* The thread at a place is at its position in the order.
LEMMA PlaceThread ==
    ASSUME NEW T, NEW H, ListsAre(T, H), NEW k, NEW t, NEW P, Place(T, H, k, t, P), t # NULL
    PROVE  Placed(T, H, k, t, P)
<1> DEFINE O == RunOrder(T, H)
           off == Off(T, H)
<1>1. InOrder(T, H, O, off)
  BY OrderAt
<1>2. PICK m \in 1..Len(T) : \E i \in Nat :
         /\ k = T[m]
         /\ \/ i \in 1..Len(H[k]) /\ t = H[k][i]
            \/ i = 1 /\ H[k] = <<>> /\ t = NULL
         /\ P = Wrap(off[m] + i - 1, Len(O))
  BY DEF Place
<1>3. PICK i \in 1..Len(H[k]) : k = T[m] /\ t = H[k][i] /\ P = Wrap(off[m] + i - 1, Len(O))
  BY <1>2
<1> HIDE DEF O, off
<1>4. off[m] + i \in 1..Len(O) /\ O[off[m] + i] = t /\ Len(O) \in Nat /\ off[m] \in 0..Len(O)
  <2>1. m \in 1..(Len(T) + 1)
    BY TaskNext
  <2> QED
    BY <1>1, <1>3, <2>1 DEF InOrder
<1>5. P = off[m] + i - 1 /\ P \in Nat /\ P < Len(O) /\ P + 1 = off[m] + i
  BY <1>3, <1>4 DEF Wrap
<1>6. k \in AllTasks /\ t \in AllThreads
  <2>1. k \in AllTasks
    BY <1>3, TaskNext
  <2> QED
    BY <1>3, <2>1, ThreadNext
<1> QED
  BY <1>3, <1>4, <1>5, <1>6 DEF O, Placed

\* The search that enters the m-th task is at the position of its first thread.
LEMMA EnterPlace ==
    ASSUME NEW T, NEW H, ListsAre(T, H), NEW m \in 1..Len(T)
    PROVE  Place(T, H, T[m], task_threads[T[m]], Wrap(Off(T, H)[m], Len(RunOrder(T, H))))
<1> DEFINE off == Off(T, H)
           k == T[m]
<1>1. k \in AllTasks /\ m \in 1..(Len(T) + 1)
  BY TaskNext
<1>2. Len(H[k]) \in Nat /\ task_threads[k] = (IF H[k] = <<>> THEN NULL ELSE H[k][1]) /\ (H[k] = <<>> <=> Len(H[k]) = 0)
  BY <1>1, ThreadNext
<1>3. InOrder(T, H, RunOrder(T, H), off)
  BY OrderAt
<1> HIDE DEF off, k
<1>4. off[m] + 1 - 1 = off[m]
  BY <1>1, <1>3 DEF InOrder
<1>5. \/ 1 \in 1..Len(H[k]) /\ task_threads[k] = H[k][1]
      \/ 1 = 1 /\ H[k] = <<>> /\ task_threads[k] = NULL
  BY <1>2
<1> QED
  BY <1>4, <1>5, 1 \in Nat, Zenon DEF Place, off, k

\* The next place of the search is the next position.
LEMMA StepPlace ==
    ASSUME NEW T, NEW H, ListsAre(T, H), NEW k, NEW t, NEW P, Place(T, H, k, t, P), t # NULL
    PROVE  Place(T, H, StepTask(k, t), StepThread(k, t), Wrap(P + 1, Len(RunOrder(T, H))))
<1> DEFINE O == RunOrder(T, H)
           off == Off(T, H)
           n == Len(O)
<1>1. InOrder(T, H, O, off)
  BY OrderAt
<1>2. PICK m \in 1..Len(T) : \E i \in Nat :
         /\ k = T[m]
         /\ \/ i \in 1..Len(H[k]) /\ t = H[k][i]
            \/ i = 1 /\ H[k] = <<>> /\ t = NULL
         /\ P = Wrap(off[m] + i - 1, n)
  BY DEF Place
<1>3. PICK i \in 1..Len(H[k]) : k = T[m] /\ t = H[k][i] /\ P = Wrap(off[m] + i - 1, n)
  BY <1>2
<1> HIDE DEF O, off
<1>4. m \in 1..(Len(T) + 1) /\ m + 1 \in 1..(Len(T) + 1) /\ k \in AllTasks /\ Len(T) \in Nat
  BY <1>3, TaskNext
<1>5. /\ off[m] + i \in 1..n /\ n \in Nat /\ off[m] \in 0..n
      /\ off[m + 1] = off[m] + Len(H[k]) /\ off[Len(T) + 1] = n /\ off[1] = 0
  BY <1>1, <1>3, <1>4 DEF InOrder
<1>6. P + 1 = off[m] + i
  BY <1>3, <1>5 DEF Wrap
<1>7. /\ Len(H[k]) \in Nat /\ task_threads[k] = H[k][1] /\ Distinct(H[k])
      /\ thread_next[t] = IF i < Len(H[k]) THEN H[k][i + 1] ELSE H[k][1]
  BY <1>3, <1>4, ThreadNext
<1>8. CASE i < Len(H[k])
  <2>1. i + 1 \in 1..Len(H[k]) /\ 1 \in 1..Len(H[k]) /\ i + 1 # 1
    BY <1>7, <1>8
  <2>2. H[k][i + 1] # H[k][1]
    BY <1>7, <2>1 DEF Distinct
  <2>3. StepTask(k, t) = T[m] /\ StepThread(k, t) = H[k][i + 1]
    BY <1>3, <1>7, <1>8, <2>2 DEF StepTask, StepThread
  <2>4. Wrap(P + 1, n) = Wrap(off[m] + (i + 1) - 1, n)
    BY <1>5, <1>6
  <2>5. i + 1 \in Nat
    OBVIOUS
  <2> QED
    BY <1>3, <2>1, <2>3, <2>4, <2>5, Zenon DEF Place, O, off
<1>9. CASE i = Len(H[k])
  <2> DEFINE l == IF m < Len(T) THEN m + 1 ELSE 1
  <2>1. l \in 1..Len(T) /\ task_next[k] = T[l]
    <3>1. l \in 1..Len(T)
      BY <1>4
    <3>2. task_next[T[m]] = IF m < Len(T) THEN T[m + 1] ELSE T[1]
      BY TaskNext
    <3> QED
      BY <1>3, <3>1, <3>2
  <2>2. StepTask(k, t) = T[l] /\ StepThread(k, t) = task_threads[T[l]]
    BY <1>7, <1>9, <2>1 DEF StepTask, StepThread
  <2>3. Wrap(P + 1, n) = Wrap(off[l], n)
    <3>1. CASE m < Len(T)
      BY <1>5, <1>6, <1>9, <3>1
    <3>2. CASE ~ (m < Len(T))
      <4>1. m = Len(T) /\ l = 1
        BY <1>4, <3>2
      <4>2. P + 1 = n
        BY <1>5, <1>6, <1>9, <4>1
      <4> QED
        BY <1>5, <4>1, <4>2 DEF Wrap
    <3> QED
      BY <3>1, <3>2
  <2> HIDE DEF l
  <2>4. Place(T, H, T[l], task_threads[T[l]], Wrap(off[l], n))
    BY <2>1, EnterPlace DEF O, off
  <2> QED
    BY <2>2, <2>3, <2>4 DEF O
<1> QED
  BY <1>7, <1>8, <1>9

\* A task without threads is left at the same position.
LEMMA SkipPlace ==
    ASSUME NEW T, NEW H, ListsAre(T, H), NEW k, NEW P, Place(T, H, k, NULL, P)
    PROVE  /\ Place(T, H, task_next[k], task_threads[task_next[k]], P)
           /\ k \in AllTasks /\ task_next[k] \in AllTasks
<1> DEFINE O == RunOrder(T, H)
           off == Off(T, H)
           n == Len(O)
<1>1. InOrder(T, H, O, off)
  BY OrderAt
<1>2. PICK m \in 1..Len(T) : \E i \in Nat :
         /\ k = T[m]
         /\ \/ i \in 1..Len(H[k]) /\ NULL = H[k][i]
            \/ i = 1 /\ H[k] = <<>> /\ NULL = NULL
         /\ P = Wrap(off[m] + i - 1, n)
  BY DEF Place
<1> HIDE DEF O, off
<1>3. m \in 1..(Len(T) + 1) /\ m + 1 \in 1..(Len(T) + 1) /\ k \in AllTasks /\ Len(T) \in Nat
  BY <1>2, TaskNext
<1>4. k = T[m] /\ H[k] = <<>> /\ P = Wrap(off[m] + 1 - 1, n)
  BY <1>2, <1>3, ThreadNext
<1>5. Len(H[k]) = 0
  BY <1>4
<1>6. /\ n \in Nat /\ off[m] \in 0..n
      /\ off[m + 1] = off[m] + Len(H[k]) /\ off[Len(T) + 1] = n /\ off[1] = 0
  BY <1>1, <1>3, <1>4 DEF InOrder
<1> DEFINE l == IF m < Len(T) THEN m + 1 ELSE 1
<1>7. l \in 1..Len(T) /\ task_next[k] = T[l] /\ T[l] \in AllTasks
  BY <1>3, <1>4, TaskNext
<1>8. P = Wrap(off[l], n)
  <2>1. CASE m < Len(T)
    BY <1>4, <1>5, <1>6, <2>1
  <2>2. CASE ~ (m < Len(T))
    <3>1. m = Len(T) /\ l = 1
      BY <1>3, <2>2
    <3>2. off[m] = n
      BY <1>5, <1>6, <3>1
    <3> QED
      BY <1>4, <1>6, <3>1, <3>2 DEF Wrap
  <2> QED
    BY <2>1, <2>2
<1> HIDE DEF l
<1>9. Place(T, H, T[l], task_threads[T[l]], Wrap(off[l], n))
  BY <1>7, EnterPlace DEF O, off
<1> QED
  BY <1>3, <1>7, <1>8, <1>9

\* The position after the one d places after here.
LEMMA AroundNext ==
    ASSUME NEW n \in Nat, NEW here \in 1..n, NEW d \in 1..n
    PROVE  /\ Around(here, d, n) \in 0..(n - 1)
           /\ d < n => Around(here, d + 1, n) = Wrap(Around(here, d, n) + 1, n)
           /\ Around(here, n, n) = here - 1
           /\ Around(here, 1, n) = Wrap(here, n)
BY DEF Around, Wrap

\* Going round once leads past every position.
LEMMA AroundAll ==
    ASSUME NEW n \in Nat, NEW here \in 1..n, NEW p \in 1..n
    PROVE  \E e \in 1..n : Around(here, e, n) + 1 = p
<1> DEFINE e == IF p > here THEN p - here ELSE p - here + n
<1>1. e \in 1..n /\ Around(here, e, n) + 1 = p
  BY DEF Around
<1> QED
  BY <1>1

\* The search begins after the current thread.
LEMMA PassedFirst ==
    ASSUME NEW T, NEW H, ListsAre(T, H), NEW here \in 1..Len(RunOrder(T, H)),
           RunOrder(T, H)[here] = thread_current', NEW P, P = Wrap(here, Len(RunOrder(T, H)))
    PROVE  Passed(T, H, P)'
<1> DEFINE O == RunOrder(T, H)
           n == Len(O)
<1>1. n \in Nat /\ n >= 1
  BY OrderAt DEF InOrder
<1> HIDE DEF O
<1>2. here \in 1..n /\ 1 \in 1..n
  BY <1>1 DEF O
<1>3. Around(here, 1, n) = P
  BY <1>1, <1>2, AroundNext DEF O
<1>4. \A e \in 1..(1 - 1) : state'[O[Around(here, e, n) + 1]] # "READY"
  OBVIOUS
<1> QED
  BY <1>2, <1>3, <1>4, Zenon DEF Passed, O, Around

\* A thread that is not READY is passed.
LEMMA PassedNext ==
    ASSUME NEW T, NEW H, ListsAre(T, H), NEW P, Passed(T, H, P), state[RunOrder(T, H)[P + 1]] # "READY"
    PROVE  Passed(T, H, Wrap(P + 1, Len(RunOrder(T, H))))
<1> DEFINE O == RunOrder(T, H)
           n == Len(O)
<1>1. n \in Nat /\ n >= 1
  BY OrderAt DEF InOrder
<1> HIDE DEF O
<1>2. CASE \A p \in 1..n : state[O[p]] # "READY"
  BY <1>2, Zenon DEF Passed, O
<1>3. ASSUME NEW here \in 1..n, NEW d \in 1..n,
             O[here] = thread_current, Around(here, d, n) = P,
             \A e \in 1..(d - 1) : state[O[Around(here, e, n) + 1]] # "READY"
      PROVE  Passed(T, H, Wrap(P + 1, n))
  <2>1. \A e \in 1..d : state[O[Around(here, e, n) + 1]] # "READY"
    <3>1. \A e \in 1..d : e = d \/ e \in 1..(d - 1)
      OBVIOUS
    <3>2. state[O[Around(here, d, n) + 1]] # "READY"
      BY <1>3 DEF O
    <3> QED
      BY <1>3, <3>1, <3>2
  <2>2. CASE d < n
    <3>1. d + 1 \in 1..n /\ (d + 1) - 1 = d /\ Around(here, d + 1, n) = Wrap(P + 1, n)
      BY <1>1, <1>3, <2>2, AroundNext
    <3> QED
      BY <1>3, <2>1, <3>1, Zenon DEF Passed, O
  <2>3. CASE d = n
    <3>1. ASSUME NEW p \in 1..n PROVE state[O[p]] # "READY"
      <4>1. PICK e \in 1..n : Around(here, e, n) + 1 = p
        BY <1>1, AroundAll, Zenon
      <4> QED
        BY <2>1, <2>3, <4>1
    <3> QED
      BY <3>1, Zenon DEF Passed, O
  <2> QED
    BY <1>1, <2>2, <2>3
<1> QED
  BY <1>2, <1>3 DEF Passed, O

\* Back at the current thread, if it is not READY, none is.
LEMMA PassedAll ==
    ASSUME NEW T, NEW H, ListsAre(T, H), NEW P \in Nat, Passed(T, H, P),
           P + 1 \in 1..Len(RunOrder(T, H)), RunOrder(T, H)[P + 1] = thread_current,
           state[thread_current] # "READY"
    PROVE  \A p \in 1..Len(RunOrder(T, H)) : state[RunOrder(T, H)[p]] # "READY"
<1> DEFINE O == RunOrder(T, H)
           n == Len(O)
<1>1. n \in Nat /\ n >= 1
  BY OrderAt DEF InOrder
<1>2. Distinct(O)
  BY OrderOnce
<1> HIDE DEF O
<1> SUFFICES ASSUME NEW here \in 1..n, NEW d \in 1..n,
                    O[here] = thread_current, Around(here, d, n) = P,
                    \A e \in 1..(d - 1) : state[O[Around(here, e, n) + 1]] # "READY"
             PROVE  \A p \in 1..n : state[O[p]] # "READY"
  BY DEF Passed, O
<1>3. here = P + 1
  BY <1>2 DEF Distinct, O
<1>4. d = n
  BY <1>1, <1>3 DEF Around
<1>5. ASSUME NEW p \in 1..n PROVE state[O[p]] # "READY"
  <2>1. PICK e \in 1..n : Around(here, e, n) + 1 = p
    BY <1>1, AroundAll, Zenon
  <2>2. CASE e = n
    BY <1>1, <1>3, <1>4, <2>1, <2>2
  <2>3. CASE e # n
    <3>1. e \in 1..(d - 1)
      BY <1>1, <1>4, <2>3
    <3> QED
      BY <2>1, <3>1
  <2> QED
    BY <2>2, <2>3
<1> QED
  BY <1>5

\* Around is the remainder of the code's order.
LEMMA AroundIsMod ==
    ASSUME NEW n \in Nat, NEW here \in 1..n, NEW e \in 1..n
    PROVE  (here + e - 1) % n = Around(here, e, n)
<1>1. CASE here + e - 1 < n
  BY <1>1 DEF Around
<1>2. CASE here + e - 1 >= n
  <2> DEFINE x == here + e - 1
  <2>1. x \in Nat /\ x >= n /\ x < 2 * n /\ n > 0
    BY <1>2
  <2>2. x % n = x - n
    BY <2>1
  <2> QED
    BY <1>2, <2>2 DEF Around
<1> QED
  BY <1>1, <1>2

\* The search stops where round-robin order does.
LEMMA FoundFirst ==
    ASSUME NEW T, NEW H, ListsAre(T, H), NEW P \in Nat, Passed(T, H, P),
           P + 1 \in 1..Len(RunOrder(T, H)), NEW t, RunOrder(T, H)[P + 1] = t, state[t] = "READY"
    PROVE  FirstReady(RunOrder(T, H), thread_current, state, t)
<1> DEFINE O == RunOrder(T, H)
           n == Len(O)
           cur == CHOOSE i \in 1..n : O[i] = thread_current
<1>1. n \in Nat /\ n >= 1
  BY OrderAt DEF InOrder
<1>2. Distinct(O)
  BY OrderOnce
<1> HIDE DEF O
<1>3. PICK here \in 1..n : \E d \in 1..n :
         /\ O[here] = thread_current /\ Around(here, d, n) = P
         /\ \A e \in 1..(d - 1) : state[O[Around(here, e, n) + 1]] # "READY"
  BY DEF Passed, O
<1>4. PICK d \in 1..n :
         /\ O[here] = thread_current /\ Around(here, d, n) = P
         /\ \A e \in 1..(d - 1) : state[O[Around(here, e, n) + 1]] # "READY"
  BY <1>3
<1>5. cur = here
  BY <1>2, <1>4 DEF Distinct
<1> HIDE DEF cur
<1>6. \A e \in 1..n : (here + e - 1) % n = Around(here, e, n)
  BY <1>1, AroundIsMod
<1>7. \A e \in 1..(d - 1) : e \in 1..n
  BY <1>1
<1>8. /\ O[((cur + d - 1) % n) + 1] = t
      /\ \A e \in 1..(d - 1) : state[O[((cur + e - 1) % n) + 1]] # "READY"
  <2>1. O[P + 1] = t
    BY DEF O
  <2> QED
    BY <1>4, <1>5, <1>6, <1>7, <2>1, Zenon
<1> QED
  BY <1>8, Zenon DEF FirstReady, O, cur

-----------------------------------------------------------------------------
(* The inductive invariant. *)

\* scheduler_init.
LEMMA WalkedInit == ListsInit => NInv
<1> SUFFICES ASSUME ListsInit PROVE NInv
  OBVIOUS
<1> DEFINE T == <<IdleTask>>
           H == [k \in AllTasks |-> IF k = IdleTask THEN <<Idle>> ELSE <<>>]
<1>1. IdleTask \in AllTasks /\ Idle \in AllThreads /\ NULL \notin AllTasks /\ NULL \notin AllThreads
  BY Nodes
<1>2. T \in Seq(AllTasks) /\ Len(T) = 1 /\ T[1] = IdleTask /\ T # <<>>
  BY <1>1
<1>3. H \in [AllTasks -> Seq(AllThreads)] /\ H[IdleTask] = <<Idle>> /\ \A k \in AllTasks : k # IdleTask => H[k] = <<>>
  BY <1>1
<1> HIDE DEF T, H
<1>4. Len(H[IdleTask]) = 1 /\ H[IdleTask][1] = Idle /\ H[IdleTask] # <<>>
      /\ \A k \in AllTasks : k # IdleTask => Len(H[k]) = 0
  BY <1>3
<1>5. ListsTypeOK
  BY <1>1 DEF ListsInit, ListsTypeOK
<1>6. /\ task_next[IdleTask] = IdleTask /\ \A k \in AllTasks : k # IdleTask => task_next[k] = NULL
      /\ task_threads[IdleTask] = Idle /\ \A k \in AllTasks : k # IdleTask => task_threads[k] = NULL
      /\ thread_next[Idle] = Idle /\ \A t \in AllThreads : t # Idle => thread_next[t] = NULL
      /\ task_current = IdleTask /\ thread_current = Idle /\ walk = "none" /\ w_thread = NULL
      /\ state[Idle] = "RUNNING"
  BY <1>1 DEF ListsInit
<1>7. IsRing(T, IdleTask, task_next) /\ Distinct(T)
  BY <1>1, <1>2, <1>6 DEF IsRing, Distinct
<1>8. ASSUME NEW k \in AllTasks PROVE IsRing(H[k], task_threads[k], thread_next)
  <2>1. CASE k = IdleTask
    BY <1>1, <1>4, <1>6, <2>1 DEF IsRing
  <2>2. CASE k # IdleTask
    BY <1>3, <1>6, <2>2 DEF IsRing
  <2> QED
    BY <2>1, <2>2
<1>9. \A k \in AllTasks : \A i \in 1..Len(H[k]) : k = IdleTask /\ i = 1 /\ H[k][i] = Idle
  BY <1>4
<1>10. \A k \in AllTasks : task_next[k] # NULL <=> \E i \in 1..Len(T) : T[i] = k
  BY <1>1, <1>2, <1>6
<1>11. \A t \in AllThreads : thread_next[t] # NULL <=> \E k \in AllTasks : \E i \in 1..Len(H[k]) : H[k][i] = t
  <2>1. 1 \in 1..Len(H[IdleTask])
    BY <1>4
  <2> QED
    BY <1>1, <1>4, <1>6, <1>9, <2>1
<1>12. \A k \in AllTasks : H[k] # <<>> => task_next[k] # NULL
  BY <1>1, <1>3, <1>6
<1>13. \A k, l \in AllTasks : \A i \in 1..Len(H[k]), j \in 1..Len(H[l]) : H[k][i] = H[l][j] => k = l /\ i = j
  BY <1>9
<1>14. ListsAre(T, H)
  BY <1>2, <1>3, <1>5, <1>7, <1>8, <1>10, <1>11, <1>12, <1>13 DEF ListsAre
<1>15. Current(H)
  BY <1>4, <1>6 DEF Current
<1> QED
  BY <1>6, <1>14, <1>15 DEF NInv, Walked, SearchAt, ScanAt

\* What a step between two walks leaves true.
LEMMA WalkedIdle ==
    ASSUME NEW T, NEW H, ListsAre(T, H)', Current(H)', state'[Idle] # "ZOMBIE", walk' = "none", w_thread' = NULL
    PROVE  NInv'
BY DEF NInv, Walked, SearchAt, ScanAt

\* task_create and task_create_thread.
LEMMA WalkedCreate ==
    ASSUME NEW T, NEW H, Walked(T, H), NEW k \in Tasks,
           \/ task_create(k)
           \/ \E t \in Threads : task_create_thread(k, t)
    PROVE  NInv'
<1>1. ListsAre(T, H) /\ Current(H) /\ state[Idle] # "ZOMBIE" /\ ListsTypeOK
  BY DEF Walked, ListsAre
<1>2. walk' = "none" /\ w_thread' = NULL /\ task_current' = task_current /\ thread_current' = thread_current
  BY DEF Walked, task_create, task_create_thread, walkers, current_vars
<1>3. CASE task_create(k)
  <2>1. ListsAre(Append(T, k), H)'
    BY <1>1, <1>3, TaskCreated
  <2>2. Current(H)' /\ state' = state
    BY <1>1, <1>2, <1>3 DEF Current, task_create
  <2> QED
    BY <1>1, <1>2, <2>1, <2>2, WalkedIdle
<1>4. ASSUME NEW t \in Threads, task_create_thread(k, t) PROVE NInv'
  <2> DEFINE G == [H EXCEPT ![k] = Append(@, t)]
  <2>1. ListsAre(T, G)'
    BY <1>1, <1>4, ThreadCreated
  <2>2. Current(G)'
    <3>1. PICK i \in 1..Len(H[task_current]) : H[task_current][i] = thread_current
      BY <1>1 DEF Current
    <3>2. H \in [AllTasks -> Seq(AllThreads)] /\ task_current \in AllTasks /\ t \in AllThreads /\ k \in AllTasks
      BY <1>1, Nodes DEF ListsAre, ListsTypeOK
    <3>3. CASE task_current = k
      <4>1. G[k] = Append(H[k], t)
        BY <3>2
      <4>2. H[k] \in Seq(AllThreads) /\ i \in 1..Len(H[k])
        BY <3>2, <3>3
      <4>3. i \in 1..Len(G[k]) /\ G[k][i] = H[k][i]
        <5> HIDE DEF G
        <5> QED
          BY <3>2, <4>1, <4>2
      <4> QED
        BY <1>2, <3>1, <3>3, <4>3 DEF Current
    <3>4. CASE task_current # k
      <4>1. G[task_current] = H[task_current]
        BY <3>2, <3>4
      <4> QED
        BY <1>2, <3>1, <4>1 DEF Current
    <3> QED
      BY <3>3, <3>4
  <2>3. state'[Idle] = state[Idle]
    BY <1>1, <1>4, Nodes DEF ListsTypeOK, task_create_thread
  <2> HIDE DEF G
  <2> QED
    BY <1>1, <1>2, <2>1, <2>2, <2>3, WalkedIdle
<1> QED
  BY <1>3, <1>4

\* The rest of the kernel, between two walks.
LEMMA WalkedState ==
    ASSUME NEW T, NEW H, Walked(T, H),
           \/ \E s \in {"BLOCKED", "ZOMBIE"} : stop(s)
           \/ \E t \in AllThreads : wake(t)
    PROVE  NInv'
<1>1. ListsAre(T, H) /\ Current(H) /\ state[Idle] # "ZOMBIE" /\ ListsTypeOK
  BY Zenon DEF Walked, ListsAre
<1>2. /\ walk' = "none" /\ w_thread' = NULL /\ w_prev' = w_prev /\ w_task' = w_task
      /\ UNCHANGED heap /\ task_current' = task_current /\ thread_current' = thread_current
  BY DEF Walked, stop, wake, walkers, current_vars
<1>3. /\ state' \in [AllThreads -> {"READY", "RUNNING", "BLOCKED", "ZOMBIE"}]
      /\ state'[Idle] # "ZOMBIE"
  BY <1>1, Nodes DEF ListsTypeOK, stop, wake
<1>4. ListsTypeOK'
  BY <1>1, <1>2, <1>3 DEF ListsTypeOK, heap
<1>5. ListsAre(T, H)'
  BY <1>1, <1>2, <1>4, ListsSame
<1>6. Current(H)'
  BY <1>1, <1>2 DEF Current
<1> QED
  BY <1>2, <1>3, <1>5, <1>6, WalkedIdle

\* A place of the search is a task and a thread or NULL.
LEMMA PlaceType ==
    ASSUME NEW T, NEW H, ListsAre(T, H), NEW k, NEW t, NEW P, Place(T, H, k, t, P)
    PROVE  k \in AllTasks /\ t \in AllThreads \cup {NULL}
<1>1. T \in Seq(AllTasks) /\ H \in [AllTasks -> Seq(AllThreads)]
  BY DEF ListsAre
<1>2. PICK m \in 1..Len(T), i \in Nat :
         /\ k = T[m]
         /\ \/ i \in 1..Len(H[k]) /\ t = H[k][i]
            \/ i = 1 /\ H[k] = <<>> /\ t = NULL
  BY Zenon DEF Place
<1>3. k \in AllTasks
  BY <1>1, <1>2
<1>4. H[k] \in Seq(AllThreads)
  BY <1>1, <1>3
<1> QED
  BY <1>2, <1>3, <1>4

\* The current thread has a place.
LEMMA CurrentPlace ==
    ASSUME NEW T, NEW H, ListsAre(T, H), Current(H)
    PROVE  \E P : Place(T, H, task_current, thread_current, P)
<1>1. PICK i \in 1..Len(H[task_current]) : H[task_current][i] = thread_current
  BY DEF Current
<1>2. task_current \in AllTasks /\ H[task_current] \in Seq(AllThreads)
  BY DEF ListsAre, ListsTypeOK
<1>3. H[task_current] # <<>> /\ i \in Nat
  <2> DEFINE s == H[task_current]
  <2>1. s \in Seq(AllThreads) /\ i \in 1..Len(s)
    BY <1>1, <1>2
  <2> HIDE DEF s
  <2>2. s # <<>> /\ i \in Nat
    BY <2>1
  <2> QED
    BY <2>2 DEF s
<1>4. PICK m \in 1..Len(T) : T[m] = task_current
  BY <1>2, <1>3 DEF ListsAre
<1> QED
  BY <1>1, <1>3, <1>4, Zenon DEF Place

\* A step of the search.
LEMMA WalkedSearch ==
    ASSUME NEW T, NEW H, Walked(T, H), UNCHANGED <<heap, task_current, thread_current, w_prev>>,
           walk' = "search", state' \in [AllThreads -> {"READY", "RUNNING", "BLOCKED", "ZOMBIE"}],
           state'[Idle] # "ZOMBIE",
           NEW P \in Nat, Place(T, H, w_task', w_thread', P), Passed(T, H, P)'
    PROVE  Walked(T, H)'
<1>1. ListsAre(T, H) /\ Current(H) /\ ListsTypeOK
  BY Zenon DEF Walked, ListsAre
<1>2. w_task' \in AllTasks /\ w_thread' \in AllThreads \cup {NULL}
  BY <1>1, PlaceType
<1>3. ListsTypeOK'
  BY <1>1, <1>2 DEF ListsTypeOK, heap
<1>4. ListsAre(T, H)'
  BY <1>1, <1>3, ListsSame
<1>5. Current(H)'
  BY <1>1 DEF Current
<1>6. SearchAt(T, H)'
  <2>1. Place(T, H, w_task, w_thread, P)'
    BY DEF Place
  <2> QED
    BY <2>1 DEF SearchAt
<1>7. ScanAt(T, H)'
  BY DEF ScanAt
<1> QED
  BY <1>4, <1>5, <1>6, <1>7 DEF Walked

\* scheduler_schedule starts after the current thread.
LEMMA WalkedSearchStart ==
    ASSUME NEW T, NEW H, Walked(T, H), search_start
    PROVE  Walked(T, H)'
<1>1. ListsAre(T, H) /\ Current(H) /\ ListsTypeOK /\ state[Idle] # "ZOMBIE"
  BY Zenon DEF Walked, ListsAre
<1>2. PICK P : Place(T, H, task_current, thread_current, P)
  BY <1>1, CurrentPlace
<1>3. thread_current \in AllThreads /\ thread_current # NULL
  BY <1>1, Nodes DEF ListsTypeOK
<1> DEFINE n == Len(RunOrder(T, H))
<1>4. P + 1 \in 1..n /\ RunOrder(T, H)[P + 1] = thread_current
  <2>1. Placed(T, H, task_current, thread_current, P)
    BY <1>1, <1>2, <1>3, PlaceThread, Zenon
  <2> QED
    BY <2>1, Zenon DEF Placed
<1>5. Place(T, H, w_task', w_thread', Wrap(P + 1, n))
  BY <1>1, <1>2, <1>3, StepPlace DEF search_start
<1>6. thread_current' = thread_current
  BY DEF search_start, current_vars
<1>7. Passed(T, H, Wrap(P + 1, n))'
  <2> DEFINE Q == Wrap(P + 1, n)
             here == P + 1
  <2>1. RunOrder(T, H)[here] = thread_current' /\ Q = Wrap(here, n) /\ here \in 1..n
    BY <1>4, <1>6
  <2> QED
    BY <1>1, <2>1, PassedFirst
<1>8. Wrap(P + 1, n) \in Nat
  BY <1>4 DEF Wrap
<1>9. /\ state' \in [AllThreads -> {"READY", "RUNNING", "BLOCKED", "ZOMBIE"}] /\ state'[Idle] # "ZOMBIE"
      /\ walk' = "search" /\ UNCHANGED <<heap, task_current, thread_current, w_prev>>
  BY <1>1, Nodes DEF search_start, ListsTypeOK, current_vars
<1> HIDE DEF n
<1> QED
  BY <1>5, <1>7, <1>8, <1>9, WalkedSearch

\* It passes over a task without threads.
LEMMA WalkedSearchSkip ==
    ASSUME NEW T, NEW H, Walked(T, H), search_skip
    PROVE  Walked(T, H)'
<1>1. ListsAre(T, H) /\ ListsTypeOK /\ state[Idle] # "ZOMBIE" /\ walk = "search" /\ w_thread = NULL /\ SearchAt(T, H)
  BY DEF Walked, ListsAre, search_skip
<1>2. PICK P \in Nat : Place(T, H, w_task, w_thread, P) /\ Passed(T, H, P)
  BY <1>1 DEF SearchAt
<1>3. Place(T, H, w_task', w_thread', P)
  BY <1>1, <1>2, SkipPlace DEF search_skip
<1>4. state' = state /\ walk' = "search" /\ UNCHANGED <<heap, task_current, thread_current, w_prev>>
  BY <1>1 DEF search_skip, current_vars
<1>5. Passed(T, H, P)'
  BY <1>2, <1>4 DEF Passed
<1>6. state' \in [AllThreads -> {"READY", "RUNNING", "BLOCKED", "ZOMBIE"}]
  BY <1>1, <1>4 DEF ListsTypeOK
<1> QED
  BY <1>1, <1>3, <1>4, <1>5, <1>6, WalkedSearch

\* It passes over a thread that is not READY, and stops going round when none is.
LEMMA WalkedSearchAdvance ==
    ASSUME NEW T, NEW H, Walked(T, H), search_advance
    PROVE  Walked(T, H)'
<1>1. ListsAre(T, H) /\ ListsTypeOK /\ state[Idle] # "ZOMBIE" /\ walk = "search" /\ w_thread # NULL
      /\ SearchAt(T, H) /\ state[w_thread] # "READY"
  BY Zenon DEF Walked, ListsAre, search_advance
<1>2. PICK P \in Nat : Place(T, H, w_task, w_thread, P) /\ Passed(T, H, P)
  BY <1>1 DEF SearchAt
<1> DEFINE n == Len(RunOrder(T, H))
           k == StepTask(w_task, w_thread)
           t == StepThread(w_task, w_thread)
           Q == Wrap(P + 1, n)
<1>3. Place(T, H, k, t, Q)
  BY <1>1, <1>2, StepPlace
<1>4. P + 1 \in 1..n /\ RunOrder(T, H)[P + 1] = w_thread
  <2>1. Placed(T, H, w_task, w_thread, P)
    BY <1>1, <1>2, PlaceThread, Zenon
  <2> QED
    BY <2>1, Zenon DEF Placed
<1>5. Passed(T, H, Q) /\ Q \in Nat
  <2>1. Q \in Nat
    BY <1>4 DEF Wrap
  <2> QED
    BY <1>1, <1>2, <1>4, <2>1, PassedNext
<1>6. state' = state /\ walk' = "search" /\ UNCHANGED <<heap, task_current, thread_current, w_prev>>
  BY <1>1 DEF search_advance, current_vars
<1>7. state' \in [AllThreads -> {"READY", "RUNNING", "BLOCKED", "ZOMBIE"}]
  BY <1>1, <1>6 DEF ListsTypeOK
<1> DEFINE frozen == k = task_current /\ t = thread_current /\ state[t] # "READY"
<1>8. w_task' = (IF frozen THEN IdleTask ELSE k) /\ w_thread' = (IF frozen THEN task_threads[IdleTask] ELSE t)
  BY DEF search_advance, task_list
<1>9. CASE ~frozen
  <2>1. Passed(T, H, Q)'
    BY <1>5, <1>6 DEF Passed
  <2>2. w_task' = k /\ w_thread' = t
    BY <1>8, <1>9
  <2> HIDE DEF n, k, t, Q, frozen
  <2> QED
    BY <1>1, <1>3, <1>5, <1>6, <1>7, <2>1, <2>2, WalkedSearch
<1>10. CASE frozen
  <2>1. t # NULL
    BY <1>1, <1>10, Nodes DEF ListsTypeOK
  <2>2. Q + 1 \in 1..n /\ RunOrder(T, H)[Q + 1] = thread_current
    <3> HIDE DEF Q, k
    <3>1. Placed(T, H, k, t, Q)
      BY <1>1, <1>3, <2>1, PlaceThread, Zenon
    <3>2. t = thread_current
      BY <1>10
    <3> QED
      BY <3>1, <3>2, Zenon DEF Placed
  <2>3. \A p \in 1..n : state[RunOrder(T, H)[p]] # "READY"
    <3>1. state[thread_current] # "READY"
      BY <1>10
    <3> HIDE DEF Q
    <3> QED
      BY <1>1, <1>5, <2>2, <3>1, PassedAll
  <2> DEFINE R == Wrap(Off(T, H)[1], n)
  <2>4. 1 \in 1..Len(T) /\ T[1] = IdleTask
    <3>1. Len(T) \in Nat /\ Len(T) >= 1 /\ T[1] = IdleTask
      BY <1>1, TaskNext, Zenon
    <3> QED
      BY <3>1
  <2>5. Place(T, H, IdleTask, task_threads[IdleTask], R)
    BY <1>1, <2>4, EnterPlace
  <2>6. task_threads[IdleTask] # NULL
    <3>1. H[IdleTask] = <<Idle>> /\ IsRing(H[IdleTask], task_threads[IdleTask], thread_next)
      BY <1>1, Nodes DEF ListsAre
    <3>2. H[IdleTask] # <<>>
      BY <3>1, SMTT(20)
    <3> QED
      BY <3>1, <3>2, Zenon DEF IsRing
  <2>7. R \in Nat
    <3> HIDE DEF R
    <3> QED
      BY <1>1, <2>5, <2>6, PlaceThread DEF Placed
  <2>8. Passed(T, H, R)'
    <3> HIDE DEF R
    <3> QED
      BY <1>6, <2>3 DEF Passed
  <2>9. Place(T, H, w_task', w_thread', R)
    <3> HIDE DEF R
    <3> QED
      BY <1>8, <1>10, <2>5
  <2> HIDE DEF n, k, t, Q, frozen, R
  <2> QED
    BY <1>1, <1>6, <1>7, <2>7, <2>8, <2>9, WalkedSearch
<1> QED
  BY <1>9, <1>10

\* It stops at a READY thread, which becomes the current one.
LEMMA WalkedSearchFound ==
    ASSUME NEW T, NEW H, Walked(T, H), search_found
    PROVE  Walked(T, H)'
<1>1. ListsAre(T, H) /\ ListsTypeOK /\ state[Idle] # "ZOMBIE" /\ walk = "search" /\ w_thread # NULL /\ SearchAt(T, H)
  BY Zenon DEF Walked, ListsAre, search_found
<1>2. PICK P \in Nat : Place(T, H, w_task, w_thread, P)
  BY <1>1 DEF SearchAt
<1>3. w_task \in AllTasks /\ w_thread \in AllThreads /\ \E i \in 1..Len(H[w_task]) : H[w_task][i] = w_thread
  <2>1. Placed(T, H, w_task, w_thread, P)
    BY <1>1, <1>2, PlaceThread, Zenon
  <2> QED
    BY <2>1, Zenon DEF Placed
<1>4. /\ task_current' = w_task /\ thread_current' = w_thread /\ walk' = "none" /\ w_thread' = NULL
      /\ w_task' = NULL /\ w_prev' = w_prev /\ UNCHANGED heap
      /\ state' = [state EXCEPT ![w_thread] = "RUNNING"]
  BY DEF search_found
<1>5. state'[Idle] # "ZOMBIE" /\ state' \in [AllThreads -> {"READY", "RUNNING", "BLOCKED", "ZOMBIE"}]
  BY <1>1, <1>3, <1>4, Nodes DEF ListsTypeOK
<1>6. ListsTypeOK'
  BY <1>1, <1>3, <1>4, <1>5 DEF ListsTypeOK, heap
<1>7. ListsAre(T, H)'
  BY <1>1, <1>4, <1>6, ListsSame
<1>8. Current(H)'
  BY <1>3, <1>4 DEF Current
<1> QED
  BY <1>4, <1>5, <1>7, <1>8, Zenon DEF Walked, SearchAt, ScanAt

\* A step of the scan that unlinks nothing.
LEMMA WalkedScan ==
    ASSUME NEW T, NEW H, Walked(T, H), UNCHANGED <<heap, state, task_current, thread_current>>,
           walk' \in {"none", "scan"}, walk' = "none" => w_thread' = NULL,
           w_task' \in AllTasks, w_prev' \in AllThreads \cup {NULL}, w_thread' \in AllThreads \cup {NULL},
           ScanAt(T, H)'
    PROVE  Walked(T, H)'
<1>1. ListsAre(T, H) /\ Current(H) /\ ListsTypeOK /\ state[Idle] # "ZOMBIE"
  BY DEF Walked, ListsAre
<1>2. ListsTypeOK'
  BY <1>1 DEF ListsTypeOK, heap
<1>3. ListsAre(T, H)'
  BY <1>1, <1>2, ListsSame
<1>4. Current(H)'
  BY <1>1 DEF Current
<1>5. SearchAt(T, H)'
  BY DEF SearchAt
<1> QED
  BY <1>1, <1>3, <1>4, <1>5 DEF Walked

\* kernel_idle_thread starts at the idle task.
LEMMA WalkedScanStart ==
    ASSUME NEW T, NEW H, Walked(T, H), scan_start
    PROVE  Walked(T, H)'
<1>1. ListsAre(T, H) /\ ListsTypeOK
  BY DEF Walked, ListsAre
<1>2. /\ walk' = "scan" /\ w_task' = IdleTask /\ w_prev' = w_prev /\ w_thread' = NULL
      /\ UNCHANGED <<heap, state, task_current, thread_current>>
      /\ thread_current = Idle /\ state[Idle] = "RUNNING"
  BY DEF scan_start, task_list, current_vars, Walked
<1>3. 1 \in 1..Len(T) /\ T[1] = IdleTask
  <2>1. Len(T) \in Nat /\ Len(T) >= 1 /\ T[1] = IdleTask
    BY <1>1, TaskNext, Zenon
  <2> QED
    BY <2>1
<1>4. ScanAt(T, H)'
  <2>1. \A l \in 1..(1 - 1) : FALSE
    OBVIOUS
  <2> QED
    BY <1>2, <1>3, <2>1, Zenon DEF ScanAt
<1> QED
  BY <1>1, <1>2, <1>4, Nodes, WalkedScan DEF ListsTypeOK

\* Where the scan is.
At(T, H, m) ==
    /\ m \in 1..Len(T) /\ w_task = T[m]
    /\ \A l \in 1..(m - 1) : \A j \in 1..Len(H[T[l]]) : ~ ZombieAt(T, H, state, l, j)
    /\ w_thread # NULL => \E i \in Examined(H[T[m]]) :
         /\ w_thread = H[T[m]][i] /\ w_prev = IF i = 1 THEN H[T[m]][1] ELSE H[T[m]][i - 1]
         /\ \A j \in Examined(H[T[m]]) : j < i => state[H[T[m]][j]] # "ZOMBIE"

\* During a scan the idle thread runs, and the scan is at some task of the list.
LEMMA ScanIsAt ==
    ASSUME NEW T, NEW H, ScanAt(T, H), walk = "scan"
    PROVE  thread_current = Idle /\ state[Idle] = "RUNNING" /\ \E m : At(T, H, m)
BY DEF ScanAt, At

\* A step of the idle thread that leads to such a place keeps the invariant.
LEMMA AtIsScan ==
    ASSUME NEW T, NEW H, NEW m, At(T, H, m)', thread_current' = Idle, state'[Idle] = "RUNNING"
    PROVE  ScanAt(T, H)'
BY DEF ScanAt, At

\* The place of the scan is a task whose threads are a ring.
LEMMA AtTask ==
    ASSUME NEW T, NEW H, ListsAre(T, H), NEW m, At(T, H, m)
    PROVE  /\ T \in Seq(AllTasks) /\ m \in 1..Len(T) /\ w_task = T[m] /\ w_task \in AllTasks
           /\ H[T[m]] \in Seq(AllThreads) /\ IsRing(H[T[m]], task_threads[w_task], thread_next)
<1>1. m \in 1..Len(T) /\ w_task = T[m]
  BY Zenon DEF At
<1>2. /\ T \in Seq(AllTasks) /\ H \in [AllTasks -> Seq(AllThreads)]
      /\ \A k \in AllTasks : IsRing(H[k], task_threads[k], thread_next)
  BY Zenon DEF ListsAre
<1>3. w_task \in AllTasks
  BY <1>1, <1>2
<1> QED
  BY <1>1, <1>2, <1>3

\* The scan goes on to the next task when it has seen no zombie in this one.
LEMMA WalkedNextTask ==
    ASSUME NEW T, NEW H, Walked(T, H), walk = "scan", NEW m, At(T, H, m), NextTask,
           UNCHANGED <<heap, state, task_current, thread_current>>, w_prev' \in AllThreads \cup {NULL},
           \A j \in Examined(H[T[m]]) : state[H[T[m]][j]] # "ZOMBIE"
    PROVE  /\ Walked(T, H)'
           /\ walk' = "none" =>
                \A l \in 1..Len(T) : \A j \in 1..Len(H[T[l]]) : ~ ZombieAt(T, H, state, l, j)
<1>1. ListsAre(T, H) /\ ListsTypeOK /\ thread_current = Idle /\ state[Idle] = "RUNNING"
  BY ScanIsAt DEF Walked, ListsAre
<1>2. T \in Seq(AllTasks) /\ m \in 1..Len(T) /\ w_task = T[m] /\ w_task \in AllTasks
  BY <1>1, AtTask, Zenon
<1>3. IF m < Len(T) THEN task_next[T[m]] = T[m + 1] /\ T[m + 1] # IdleTask ELSE task_next[T[m]] = IdleTask
  <2>1. /\ IsRing(T, IdleTask, task_next)
        /\ IdleTask # NULL
    BY <1>1, Nodes DEF ListsAre
  <2>2. /\ \A i \in 1..Len(T) : task_next[T[i]] = IF i < Len(T) THEN T[i + 1] ELSE IdleTask
        /\ \A i \in 2..Len(T) : T[i] # IdleTask
    BY <2>1, Zenon DEF IsRing
  <2>3. m \in Nat /\ Len(T) \in Nat /\ (m < Len(T) => m + 1 \in 2..Len(T))
    BY <1>2
  <2>4. task_next[T[m]] = IF m < Len(T) THEN T[m + 1] ELSE IdleTask
    BY <1>2, <2>2, Zenon
  <2> QED
    BY <2>2, <2>3, <2>4
<1>4. \A l \in 1..m : \A j \in 1..Len(H[T[l]]) : ~ ZombieAt(T, H, state, l, j)
  <2> SUFFICES ASSUME NEW l \in 1..m, NEW j \in 1..Len(H[T[l]]), ZombieAt(T, H, state, l, j) PROVE FALSE
    OBVIOUS
  <2>1. CASE l = m
    BY <2>1 DEF ZombieAt
  <2>2. CASE l # m
    <3>0. m \in Nat
      <4>1. m \in 1..Len(T) /\ Len(T) \in Nat
        BY <1>2, SMTT(20)
      <4> QED
        BY <4>1
    <3>1. l \in 1..(m - 1)
      BY <2>2, <3>0
    <3> QED
      BY <3>1 DEF At
  <2> QED
    BY <2>1, <2>2
<1>5. CASE m < Len(T)
  <2>1. w_task' = T[m + 1] /\ walk' = "scan" /\ w_thread' = NULL
    BY <1>2, <1>3, <1>5 DEF NextTask, task_list
  <2>2. m + 1 \in 1..Len(T) /\ T[m + 1] \in AllTasks /\ (m + 1) - 1 = m
    BY <1>2, <1>5
  <2>3. At(T, H, m + 1)'
    <3>1. \A l \in 1..((m + 1) - 1) : \A j \in 1..Len(H[T[l]]) : ~ ZombieAt(T, H, state', l, j)
      BY <1>4, <2>2
    <3> QED
      BY <2>1, <2>2, <3>1 DEF At
  <2>4. ScanAt(T, H)'
    BY <1>1, <2>3, AtIsScan
  <2> QED
    BY <2>1, <2>2, <2>4, WalkedScan
<1>6. CASE ~ m < Len(T)
  <2>1. m = Len(T)
    BY <1>2, <1>6
  <2>2. w_task' = IdleTask /\ walk' = "none" /\ w_thread' = NULL
    BY <1>2, <1>3, <1>6 DEF NextTask, task_list
  <2>3. ScanAt(T, H)'
    BY <2>2 DEF ScanAt
  <2> QED
    BY <1>4, <2>1, <2>2, <2>3, Nodes, WalkedScan
<1> QED
  BY <1>5, <1>6

\* It enters the list of a task.
LEMMA WalkedScanEnter ==
    ASSUME NEW T, NEW H, Walked(T, H), scan_enter
    PROVE  /\ Walked(T, H)'
           /\ walk' = "none" =>
                \A l \in 1..Len(T) : \A j \in 1..Len(H[T[l]]) : ~ ZombieAt(T, H, state, l, j)
<1>1. ListsAre(T, H) /\ ListsTypeOK /\ thread_current = Idle /\ state[Idle] = "RUNNING" /\ walk = "scan"
  BY ScanIsAt DEF Walked, ListsAre, scan_enter
<1>2. PICK m : At(T, H, m)
  BY <1>1, ScanIsAt DEF Walked
<1>3. UNCHANGED <<heap, state, task_current, thread_current>>
  BY DEF scan_enter, current_vars
<1>4. T \in Seq(AllTasks) /\ m \in 1..Len(T) /\ w_task = T[m] /\ w_task \in AllTasks
  BY <1>1, <1>2, AtTask, Zenon
<1> DEFINE s == H[T[m]]
           h == task_threads[w_task]
<1>5. IsRing(s, h, thread_next) /\ s \in Seq(AllThreads) /\ Len(s) \in Nat
  <2>1. IsRing(s, h, thread_next) /\ s \in Seq(AllThreads)
    BY <1>1, <1>2, AtTask, Zenon
  <2> HIDE DEF s
  <2> QED
    BY <2>1
<1>6. CASE h = NULL
  <2>1. Len(s) = 0
    BY <1>5, <1>6 DEF IsRing
  <2>2. \A j \in Examined(H[T[m]]) : state[H[T[m]][j]] # "ZOMBIE"
    BY <2>1 DEF Examined
  <2>3. NextTask /\ w_prev' \in AllThreads \cup {NULL}
    BY <1>1, <1>6 DEF scan_enter, ListsTypeOK
  <2> QED
    BY <1>1, <1>2, <1>3, <2>2, <2>3, WalkedNextTask
<1>7. CASE h # NULL
  <2>1. w_prev' = h /\ w_thread' = thread_next[h] /\ walk' = walk /\ w_task' = w_task
    BY <1>7 DEF scan_enter
  <2>2. Len(s) >= 1 /\ s[1] = h /\ thread_next[s[1]] = IF 1 < Len(s) THEN s[2] ELSE h
    <3>1. /\ s # <<>> /\ s[1] = h
          /\ \A i \in 1..Len(s) : thread_next[s[i]] = IF i < Len(s) THEN s[i + 1] ELSE h
      BY <1>5, <1>7, Zenon DEF IsRing
    <3>2. Len(s) >= 1 /\ 1 \in 1..Len(s) /\ 1 + 1 = 2
      BY <1>5, <3>1
    <3> HIDE DEF s, h
    <3> QED
      BY <3>1, <3>2
  <2> DEFINE i == IF Len(s) = 1 THEN 1 ELSE 2
  <2>3. i \in Examined(s) /\ w_thread' = s[i] /\ w_prev' = (IF i = 1 THEN s[1] ELSE s[i - 1])
        /\ i \in 1..Len(s) /\ \A j \in Examined(s) : ~ j < i
    <3> HIDE DEF s, h
    <3>1. CASE Len(s) = 1
      <4>1. i = 1 /\ Examined(s) = {1} /\ w_thread' = s[1] /\ w_prev' = s[1]
        BY <2>1, <2>2, <3>1 DEF Examined
      <4> QED
        BY <3>1, <4>1
    <3>2. CASE Len(s) # 1
      <4>a. 1 < Len(s)
        <5> DEFINE n == Len(s)
        <5>1. n \in Nat /\ n >= 1 /\ n # 1
          BY <1>5, <2>2, <3>2
        <5> HIDE DEF n
        <5>2. 1 < n
          BY <5>1
        <5> QED
          BY <5>2 DEF n
      <4>0. i = 2 /\ Examined(s) = 2..Len(s) /\ 1 < Len(s)
        BY <3>2, <4>a DEF Examined
      <4>1. i = 2 /\ Examined(s) = 2..Len(s) /\ 1 < Len(s) /\ w_thread' = s[2] /\ w_prev' = s[1]
        <5> HIDE DEF i
        <5> QED
          BY <2>1, <2>2, <4>0
      <4> HIDE DEF i
      <4> QED
        BY <1>5, <3>2, <4>1
    <3> QED
      BY <3>1, <3>2
  <2>4. At(T, H, m)'
    <3>1. m \in 1..Len(T) /\ w_task' = T[m]
          /\ \A l \in 1..(m - 1) : \A j \in 1..Len(H[T[l]]) : ~ ZombieAt(T, H, state', l, j)
      BY <1>2, <1>3, <1>4, <2>1 DEF At
    <3> HIDE DEF i
    <3> QED
      BY <2>3, <3>1 DEF At
  <2>5. ScanAt(T, H)'
    BY <1>1, <1>3, <2>4, AtIsScan
  <2>6. w_prev' \in AllThreads /\ w_thread' \in AllThreads
    <3> HIDE DEF s, h, i
    <3> QED
      BY <1>1, <1>4, <1>5, <2>1, <2>2, <2>3 DEF h
  <2> QED
    BY <1>1, <1>3, <1>4, <2>1, <2>5, <2>6, WalkedScan
<1> QED
  BY <1>6, <1>7

\* It passes over a thread that is no zombie.
LEMMA WalkedScanPass ==
    ASSUME NEW T, NEW H, Walked(T, H), scan_pass
    PROVE  /\ Walked(T, H)'
           /\ walk' = "none" =>
                \A l \in 1..Len(T) : \A j \in 1..Len(H[T[l]]) : ~ ZombieAt(T, H, state, l, j)
<1>1. ListsAre(T, H) /\ ListsTypeOK /\ thread_current = Idle /\ state[Idle] = "RUNNING" /\ walk = "scan"
      /\ w_thread # NULL /\ state[w_thread] # "ZOMBIE"
  BY ScanIsAt, Zenon DEF Walked, ListsAre, scan_pass
<1>2. PICK m : At(T, H, m)
  BY <1>1, ScanIsAt DEF Walked
<1>3. UNCHANGED <<heap, state, task_current, thread_current>> /\ w_prev' = w_thread
  BY Zenon DEF scan_pass, current_vars
<1>4. T \in Seq(AllTasks) /\ m \in 1..Len(T) /\ w_task = T[m] /\ w_task \in AllTasks
  BY <1>1, <1>2, AtTask, Zenon
<1> DEFINE s == H[T[m]]
           h == task_threads[w_task]
<1>5. IsRing(s, h, thread_next) /\ s \in Seq(AllThreads) /\ Len(s) \in Nat
  <2>1. IsRing(s, h, thread_next) /\ s \in Seq(AllThreads)
    BY <1>1, <1>2, AtTask, Zenon
  <2> HIDE DEF s
  <2> QED
    BY <2>1
<1>6. PICK i \in Examined(s) : w_thread = s[i] /\ \A j \in Examined(s) : j < i => state[s[j]] # "ZOMBIE"
  BY <1>1, <1>2, Zenon DEF At
<1>7. i \in 1..Len(s) /\ w_thread \in AllThreads
  <2> HIDE DEF s
  <2> QED
    BY <1>5, <1>6, ExaminedIs
<1>8. /\ thread_next[w_thread] = IF i < Len(s) THEN s[i + 1] ELSE h
      /\ i < Len(s) => s[i + 1] # h
  <2>1. s # <<>>
    <3> HIDE DEF s
    <3> QED
      BY <1>5, <1>7
  <2>2. /\ \A j \in 1..Len(s) : thread_next[s[j]] = IF j < Len(s) THEN s[j + 1] ELSE h
        /\ \A j \in 2..Len(s) : s[j] # h
    BY <1>5, <2>1, Zenon DEF IsRing
  <2> HIDE DEF s, h
  <2> QED
    BY <1>5, <1>6, <1>7, <2>2
<1>9. \A j \in Examined(s) : j <= i => state[s[j]] # "ZOMBIE"
  <2> HIDE DEF s
  <2>1. \A j \in Examined(s) : j \in Nat /\ i \in Nat
    BY <1>5, <1>7 DEF Examined
  <2> QED
    BY <1>1, <1>6, <2>1
<1>10. CASE i < Len(s)
  <2>1. w_thread' = s[i + 1] /\ walk' = walk /\ w_task' = w_task
    BY <1>8, <1>10 DEF scan_pass
  <2>2. i + 1 \in Examined(s) /\ s[i + 1] \in AllThreads /\ (i + 1) - 1 = i /\ i + 1 # 1
    <3> HIDE DEF s
    <3> QED
      BY <1>5, <1>7, <1>10 DEF Examined
  <2>3. \A j \in Examined(s) : j < i + 1 => state[s[j]] # "ZOMBIE"
    <3> HIDE DEF s
    <3>1. \A j \in Examined(s) : j \in Nat /\ i \in Nat
      BY <1>5, <1>7 DEF Examined
    <3> QED
      BY <1>9, <3>1
  <2>4. At(T, H, m)'
    <3>1. m \in 1..Len(T) /\ w_task' = T[m]
          /\ \A l \in 1..(m - 1) : \A j \in 1..Len(H[T[l]]) : ~ ZombieAt(T, H, state', l, j)
      BY <1>2, <1>3, <1>4, <2>1 DEF At
    <3>2. w_prev' = IF i + 1 = 1 THEN s[1] ELSE s[(i + 1) - 1]
      BY <1>3, <1>6, <2>2
    <3> QED
      BY <1>3, <2>1, <2>2, <2>3, <3>1, <3>2 DEF At
  <2>5. ScanAt(T, H)'
    BY <1>1, <1>3, <2>4, AtIsScan
  <2> QED
    BY <1>1, <1>3, <1>4, <1>7, <2>1, <2>2, <2>5, WalkedScan
<1>11. CASE ~ i < Len(s)
  <2>1. NextTask
    BY <1>8, <1>11 DEF scan_pass
  <2>2. \A j \in Examined(s) : j <= i
    <3> HIDE DEF s
    <3> QED
      BY <1>5, <1>7, <1>11 DEF Examined
  <2>3. \A j \in Examined(H[T[m]]) : state[H[T[m]][j]] # "ZOMBIE"
    BY <1>9, <2>2
  <2> QED
    BY <1>1, <1>2, <1>3, <1>7, <2>1, <2>3, WalkedNextTask
<1> QED
  BY <1>10, <1>11

\* It unlinks the first zombie.
LEMMA WalkedScanUnlink ==
    ASSUME NEW T, NEW H, Walked(T, H), scan_unlink
    PROVE  \E m \in 1..Len(T) : \E i \in 1..Len(H[T[m]]) :
             /\ FirstZombie(T, H, state, m, i)
             /\ Walked(T, [H EXCEPT ![T[m]] = Unlink(@, i)])'
<1>1. ListsAre(T, H) /\ ListsTypeOK /\ thread_current = Idle /\ state[Idle] = "RUNNING" /\ walk = "scan"
      /\ w_thread # NULL /\ state[w_thread] = "ZOMBIE" /\ Current(H)
  BY ScanIsAt DEF Walked, ListsAre, scan_unlink
<1>2. PICK m : At(T, H, m)
  BY <1>1, ScanIsAt DEF Walked
<1>3. T \in Seq(AllTasks) /\ m \in 1..Len(T) /\ w_task = T[m] /\ w_task \in AllTasks
      /\ H \in [AllTasks -> Seq(AllThreads)]
  <2>1. H \in [AllTasks -> Seq(AllThreads)]
    BY <1>1, Zenon DEF ListsAre
  <2> QED
    BY <1>1, <1>2, <2>1, AtTask, Zenon
<1> DEFINE k == T[m]
           s == H[k]
<1>4. s \in Seq(AllThreads) /\ Len(s) \in Nat /\ k \in AllTasks /\ w_task = k
  BY <1>3
<1>5. PICK i \in Examined(s) : w_thread = s[i] /\ w_prev = (IF i = 1 THEN s[1] ELSE s[i - 1])
                               /\ \A j \in Examined(s) : j < i => state[s[j]] # "ZOMBIE"
  BY <1>1, <1>2, Zenon DEF At
<1>6. i \in 1..Len(s) /\ i \in Nat
  <2> HIDE DEF s
  <2> QED
    BY <1>4, <1>5, ExaminedIs
<1>7. H[IdleTask] = <<Idle>>
  BY <1>1 DEF ListsAre
<1>8. k # IdleTask
  <2> SUFFICES ASSUME k = IdleTask PROVE FALSE
    OBVIOUS
  <2>1. s = <<Idle>>
    BY <1>7
  <2>2. i = 1 /\ s[1] = Idle
    <3> HIDE DEF s
    <3> QED
      BY <1>6, <2>1
  <2> QED
    BY <1>1, <1>5, <2>2
<1> DEFINE G == [H EXCEPT ![k] = Unlink(@, i)]
<1>9. ListsAre(T, G)'
  <2> HIDE DEF k
  <2> QED
    BY <1>1, <1>4, <1>5, <1>8, ThreadUnlinked
<1>10. walk' = "none" /\ w_thread' = NULL /\ state' = state /\ UNCHANGED <<task_current, thread_current>>
  BY DEF scan_unlink, current_vars
<1>11. Current(G)'
  <2>1. PICK j \in 1..Len(H[task_current]) : H[task_current][j] = thread_current
    BY <1>1, Zenon DEF Current
  <2>2. 1 \in 1..Len(H[IdleTask]) /\ H[IdleTask][1] = Idle /\ task_current \in AllTasks /\ IdleTask \in AllTasks
    BY <1>1, <1>7, Nodes DEF ListsTypeOK
  <2>3. task_current = IdleTask
    <3>1. \A a, b \in AllTasks : \A x \in 1..Len(H[a]), y \in 1..Len(H[b]) : H[a][x] = H[b][y] => a = b /\ x = y
      BY <1>1, Zenon DEF ListsAre
    <3> QED
      BY <1>1, <2>1, <2>2, <3>1
  <2>4. G[IdleTask] = H[IdleTask]
    <3> HIDE DEF k
    <3> QED
      BY <1>3, <1>8, <2>2
  <2> HIDE DEF G
  <2> QED
    BY <1>1, <1>10, <2>2, <2>3, <2>4 DEF Current
<1>12. Walked(T, G)'
  <2> HIDE DEF G
  <2> QED
    BY <1>1, <1>9, <1>10, <1>11, Zenon DEF Walked, SearchAt, ScanAt
<1>13. FirstZombie(T, H, state, m, i)
  <2>1. ZombieAt(T, H, state, m, i)
    BY <1>1, <1>5 DEF ZombieAt
  <2>2. ASSUME NEW l \in 1..m, NEW j \in 1..Len(H[T[l]]), ZombieAt(T, H, state, l, j)
        PROVE  l = m /\ i <= j
    <3>1. CASE l # m
      <4>1. l \in 1..(m - 1)
        BY <1>3, <3>1
      <4> QED
        BY <1>2, <2>2, <4>1 DEF At
    <3>2. CASE l = m
      <4>1. j \in Examined(s) /\ state[s[j]] = "ZOMBIE" /\ j \in 1..Len(s)
        BY <2>2, <3>2 DEF ZombieAt
      <4>2. ~ j < i
        BY <1>5, <4>1
      <4> HIDE DEF s
      <4> QED
        BY <1>4, <1>6, <3>2, <4>1, <4>2
    <3> QED
      BY <3>1, <3>2
  <2> QED
    BY <2>1, <2>2 DEF FirstZombie
<1> QED
  BY <1>3, <1>6, <1>12, <1>13, Zenon

\* Every step keeps the inductive invariant.
LEMMA WalkedStep == NInv /\ [ListsNext]_list_vars => NInv'
<1> SUFFICES ASSUME NInv, [ListsNext]_list_vars PROVE NInv'
  OBVIOUS
<1> PICK T, H : Walked(T, H)
  BY DEF NInv
<1>1. CASE \E k \in Tasks : task_create(k) \/ \E t \in Threads : task_create_thread(k, t)
  BY <1>1, WalkedCreate
<1>2. CASE (\E s \in {"BLOCKED", "ZOMBIE"} : stop(s)) \/ (\E t \in AllThreads : wake(t))
  BY <1>2, WalkedState
<1>3. CASE search_start
  BY <1>3, WalkedSearchStart DEF NInv
<1>4. CASE Search
  BY <1>4, WalkedSearchSkip, WalkedSearchAdvance, WalkedSearchFound DEF Search, NInv
<1>5. CASE scan_start
  BY <1>5, WalkedScanStart DEF NInv
<1>6. CASE Scan
  BY <1>6, WalkedScanEnter, WalkedScanPass, WalkedScanUnlink, Zenon DEF Scan, NInv
<1>7. CASE UNCHANGED list_vars
  <2>1. UNCHANGED <<heap, task_current, thread_current, state>> /\ UNCHANGED <<walk, w_task, w_prev, w_thread>>
    BY <1>7 DEF list_vars, heap
  <2>2. ListsAre(T, H)'
    <3>1. ListsTypeOK'
      BY <2>1 DEF Walked, ListsAre, ListsTypeOK, heap
    <3> QED
      BY <2>1, <3>1, ListsSame DEF Walked
  <2>3. Current(H)' /\ SearchAt(T, H)' /\ ScanAt(T, H)'
    BY <2>1, Zenon DEF Walked, Current, SearchAt, Passed, ScanAt
  <2> QED
    BY <2>1, <2>2, <2>3 DEF NInv, Walked
<1> QED
  BY <1>1, <1>2, <1>3, <1>4, <1>5, <1>6, <1>7 DEF ListsNext

\* In every reachable state the pointers go round sequences.
LEMMA AlwaysWalked == ListsSpec => []NInv
BY WalkedInit, WalkedStep, PTL DEF ListsSpec

-----------------------------------------------------------------------------
(* What the code promises. *)

\* ListsIntact holds in every reachable state: the insertions of task_create
\* and task_create_thread and the unlinking of kernel_idle_thread keep every
\* list circular, no thread is in two lists, and following the pointers finds
\* exactly the tasks and threads that exist.
THEOREM ListsStayIntact == ListsSpec => []ListsIntact
<1>1. NInv => ListsIntact
  <2> SUFFICES ASSUME NEW T, NEW H, Walked(T, H) PROVE ListsIntact
    BY DEF NInv
  <2>1. ListsAre(T, H) /\ ListsTypeOK
    BY Zenon DEF Walked, ListsAre
  <2>2. TaskSeq = T /\ ThreadSeq = H
    BY <2>1, ListsSeq
  <2> DEFINE O == RunOrder(T, H)
  <2>3. O \in Seq(AllThreads)
    BY <2>1, OrderAt, Zenon DEF InOrder
  <2>4. Distinct(O) /\ \A t \in AllThreads : thread_next[t] # NULL <=> \E p \in 1..Len(O) : O[p] = t
    BY <2>1, OrderOnce
  <2> HIDE DEF O
  <2>5. IsInjective(O)
    BY <2>3, <2>4 DEF IsInjective, Distinct
  <2>6. Range(O) = {t \in AllThreads : thread_next[t] # NULL}
    BY <2>3, <2>4 DEF Range
  <2>7. Range(T) = {k \in AllTasks : task_next[k] # NULL}
    <3>1. T \in Seq(AllTasks) /\ \A k \in AllTasks : task_next[k] # NULL <=> \E i \in 1..Len(T) : T[i] = k
      BY <2>1 DEF ListsAre
    <3> QED
      BY <3>1 DEF Range
  <2> QED
    BY <2>1, <2>2, <2>5, <2>6, <2>7 DEF ListsIntact, O
<1> QED
  BY <1>1, AlwaysWalked, PTL

\* SearchIsRoundRobin: however the lists have grown and shrunk, the pointer walk
\* of scheduler_schedule, anti-freeze check included, stops only at the thread
\* that comes first in round-robin order, in the list of the task it is at.
THEOREM SearchFindsNext == ListsSpec => SearchIsRoundRobin
<1> DEFINE Body ==
      search_found =>
         /\ FirstReady(RunOrder(TaskSeq, ThreadSeq), thread_current, state, thread_current')
         /\ InList(ThreadSeq[task_current'], thread_current')
<1>1. NInv => Body
  <2> SUFFICES ASSUME NEW T, NEW H, Walked(T, H), search_found
               PROVE  /\ FirstReady(RunOrder(TaskSeq, ThreadSeq), thread_current, state, thread_current')
                      /\ InList(ThreadSeq[task_current'], thread_current')
    BY DEF NInv
  <2>1. ListsAre(T, H) /\ SearchAt(T, H) /\ walk = "search" /\ w_thread # NULL /\ state[w_thread] = "READY"
        /\ thread_current' = w_thread /\ task_current' = w_task
    BY DEF Walked, search_found
  <2>2. TaskSeq = T /\ ThreadSeq = H
    BY <2>1, ListsSeq
  <2>3. PICK P \in Nat : Place(T, H, w_task, w_thread, P) /\ Passed(T, H, P)
    BY <2>1 DEF SearchAt
  <2>4. /\ P + 1 \in 1..Len(RunOrder(T, H)) /\ RunOrder(T, H)[P + 1] = w_thread
        /\ \E i \in 1..Len(H[w_task]) : H[w_task][i] = w_thread
    <3>1. Placed(T, H, w_task, w_thread, P)
      BY <2>1, <2>3, PlaceThread, Zenon
    <3> QED
      BY <3>1, Zenon DEF Placed
  <2>5. FirstReady(RunOrder(T, H), thread_current, state, w_thread)
    BY <2>1, <2>3, <2>4, FoundFirst
  <2>6. InList(H[w_task], w_thread)
    BY <2>4 DEF InList
  <2> QED
    BY <2>1, <2>2, <2>5, <2>6
<1>2. NInv /\ [ListsNext]_list_vars => [Body]_list_vars
  BY <1>1
<1> QED
  BY <1>2, AlwaysWalked, PTL DEF ListsSpec, SearchIsRoundRobin

\* ScanReapsFirst: the pointer walk of kernel_idle_thread, which keeps the
\* previous node to unlink behind it, removes the first zombie it is meant to
\* find and no other node, and ends empty-handed only when there is none.
THEOREM ScanFindsFirst == ListsSpec => ScanReapsFirst
<1> DEFINE Body ==
      walk = "scan" /\ walk' = "none" =>
         \/ \E k \in 1..Len(TaskSeq) : \E i \in 1..Len(ThreadSeq[TaskSeq[k]]) :
              /\ FirstZombie(TaskSeq, ThreadSeq, state, k, i)
              /\ ThreadSeq' = [ThreadSeq EXCEPT ![TaskSeq[k]] = Unlink(@, i)]
         \/ /\ \A k \in 1..Len(TaskSeq) : \A i \in 1..Len(ThreadSeq[TaskSeq[k]]) :
                 ~ ZombieAt(TaskSeq, ThreadSeq, state, k, i)
            /\ UNCHANGED ThreadSeq
<1>1. NInv /\ [ListsNext]_list_vars => Body
  <2> SUFFICES ASSUME NEW T, NEW H, Walked(T, H), [ListsNext]_list_vars, walk = "scan", walk' = "none" PROVE Body
    BY DEF NInv
  <2>1. Scan
    BY DEF ListsNext, list_vars, walkers, task_create, task_create_thread, stop, wake, search_start, Search,
           search_skip, search_advance, search_found, scan_start
  <2>2. ListsAre(T, H)
    BY DEF Walked
  <2>3. TaskSeq = T /\ ThreadSeq = H
    BY <2>2, ListsSeq
  <2>4. CASE scan_unlink
    <3>0. PICK m \in 1..Len(T) : \E i \in 1..Len(H[T[m]]) :
             /\ FirstZombie(T, H, state, m, i)
             /\ Walked(T, [H EXCEPT ![T[m]] = Unlink(@, i)])'
      BY <2>4, WalkedScanUnlink
    <3>1. PICK i \in 1..Len(H[T[m]]) :
             /\ FirstZombie(T, H, state, m, i)
             /\ Walked(T, [H EXCEPT ![T[m]] = Unlink(@, i)])'
      BY <3>0
    <3>2. ThreadSeq' = [H EXCEPT ![T[m]] = Unlink(@, i)]
      <4> DEFINE G == [H EXCEPT ![T[m]] = Unlink(@, i)]
      <4>1. ListsAre(T, G)'
        BY <3>1, Zenon DEF Walked
      <4> HIDE DEF G
      <4>2. ThreadSeq' = G
        BY <4>1, ListsSeqNext
      <4> QED
        BY <4>2 DEF G
    <3> QED
      BY <2>3, <3>1, <3>2, Zenon
  <2>5. CASE scan_enter \/ scan_pass
    <3>1. /\ Walked(T, H)'
          /\ \A l \in 1..Len(T) : \A j \in 1..Len(H[T[l]]) : ~ ZombieAt(T, H, state, l, j)
      BY <2>5, WalkedScanEnter, WalkedScanPass
    <3>2. ThreadSeq' = H
      BY <3>1, ListsSeqNext DEF Walked
    <3> QED
      BY <2>3, <3>1, <3>2
  <2> QED
    BY <2>1, <2>4, <2>5 DEF Scan
<1>2. NInv /\ [ListsNext]_list_vars => [Body]_list_vars
  BY <1>1
<1> QED
  BY <1>2, AlwaysWalked, PTL DEF ListsSpec, ScanReapsFirst

=============================================================================
