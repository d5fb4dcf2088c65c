---------------------------- MODULE BuddyProofs ----------------------------
(***************************************************************************)
(* The arithmetic of buddies, and what freeing and allocating one block    *)
(* does to a set of blocks.                                                *)
(*                                                                         *)
(* The invariant (Good) speaks of blocks: those in the free lists and      *)
(* those that are held.  They are aligned and apart, and a page that is    *)
(* marked free is in the list of its order or hidden inside a block.  The  *)
(* two algorithms are then about one fact, that a block is the union of a  *)
(* part of it and the buddies met on the way up (Chain): freeing replaces  *)
(* the parts by the whole, and allocating the whole by its parts.          *)
(*                                                                         *)
(* The end of the module is about the lists that hold the blocks: the      *)
(* functions of dll.c act on the links of a list as on a sequence.         *)
(***************************************************************************)
EXTENDS Pmm, Dll, FiniteSetTheorems, NaturalsInduction, TLAPS

-----------------------------------------------------------------------------
(* Induction over sets of numbers. *)

\* A set of numbers has a least one.
LEMMA Least ==
    ASSUME NEW T \in SUBSET Nat, T # {}
    PROVE  \E n \in T : \A m \in T : n <= m
<1> DEFINE R == OpToRel(<, Nat)
<1>1. IsWellFoundedOn(R, Nat)
  BY NatLessThanWellFounded, Zenon
<1>2. \A x, y \in Nat : x < y => <<x, y>> \in R
  BY DEF OpToRel
<1> HIDE DEF R
<1>3. PICK x \in T : \A y \in T : ~ (<<y, x>> \in R)
  BY <1>1, WFMin, Zenon
<1>4. ASSUME NEW y \in T PROVE x <= y
  <2>1. x \in Nat /\ y \in Nat /\ ~ (y < x)
    BY <1>2, <1>3, Zenon
  <2> QED
    BY <2>1
<1> QED
  BY <1>4

\* A set of numbers that holds a number and the successors of its elements holds
\* all that follow.
LEMMA Induct ==
    ASSUME NEW T, NEW s \in Nat, s \in T, \A n \in Nat : n >= s /\ n \in T => n + 1 \in T
    PROVE  \A n \in Nat : n >= s => n \in T
<1> DEFINE Missed == {n \in Nat : n >= s /\ n \notin T}
<1> SUFFICES Missed = {}
  OBVIOUS
<1> SUFFICES ASSUME Missed # {} PROVE FALSE
  OBVIOUS
<1>1. PICK n \in Missed : \A m \in Missed : n <= m
  BY Least, Zenon
<1>2. n # s
  OBVIOUS
<1>3. n - 1 \in Nat /\ n - 1 >= s /\ ~ (n <= n - 1)
  BY <1>2
<1>4. n - 1 \in T
  BY <1>1, <1>3
<1> QED
  BY <1>3, <1>4

-----------------------------------------------------------------------------
(* Powers of two. *)

\* The values of 1 << i for i up to n.
Table(n, g) == /\ g \in [0..n -> Nat] /\ g[0] = 1
               /\ \A i \in 1..n : g[i] = 2 * g[i - 1]

\* Two tables agree.
LEMMA SameTable ==
    ASSUME NEW m \in Nat, NEW n \in Nat, m <= n, NEW g, NEW h, Table(m, g), Table(n, h)
    PROVE  \A i \in 0..m : g[i] = h[i]
<1> DEFINE T == {i \in Nat : i <= m => g[i] = h[i]}
<1>1. 0 \in T
  BY DEF Table
<1>2. ASSUME NEW i \in Nat, i \in T PROVE i + 1 \in T
  <2>1. CASE i + 1 <= m
    <3>1. i + 1 \in 1..m /\ i + 1 \in 1..n /\ (i + 1) - 1 = i
      BY <2>1
    <3>2. g[i + 1] = 2 * g[i] /\ h[i + 1] = 2 * h[i]
      BY <3>1 DEF Table
    <3>3. g[i] = h[i]
      BY <1>2, <2>1
    <3> QED
      BY <3>2, <3>3
  <2> QED
    BY <2>1
<1> HIDE DEF T
<1>3. \A i \in Nat : i >= 0 => i \in T
  BY <1>1, <1>2, Induct
<1> QED
  BY <1>3 DEF T

\* There is a table of any length.
LEMMA Tabled == \A n \in Nat : \E g : Table(n, g)
<1> DEFINE T == {n \in Nat : \E g : Table(n, g)}
<1>1. 0 \in T
  <2>1. Table(0, [i \in 0..0 |-> 1])
    BY DEF Table
  <2> QED
    BY <2>1
<1>2. ASSUME NEW n \in Nat, n \in T PROVE n + 1 \in T
  <2>1. PICK g : Table(n, g)
    BY <1>2
  <2> DEFINE h == [i \in 0..(n + 1) |-> IF i = n + 1 THEN 2 * g[n] ELSE g[i]]
  <2>2. \A i \in 0..n : g[i] \in Nat
    BY <2>1 DEF Table
  <2>3. h \in [0..(n + 1) -> Nat] /\ h[0] = 1
    BY <2>1, <2>2 DEF Table
  <2>4. ASSUME NEW i \in 1..(n + 1) PROVE h[i] = 2 * h[i - 1]
    <3>1. CASE i = n + 1
      BY <3>1
    <3>2. CASE i # n + 1
      <4>1. i \in 1..n /\ i - 1 \in 0..(n + 1) /\ i - 1 # n + 1
        BY <3>2
      <4> QED
        BY <2>1, <4>1 DEF Table
    <3> QED
      BY <3>1, <3>2
  <2> HIDE DEF h
  <2>5. Table(n + 1, h)
    BY <2>3, <2>4 DEF Table
  <2> QED
    BY <2>5
<1> HIDE DEF T
<1>3. \A n \in Nat : n >= 0 => n \in T
  BY <1>1, <1>2, Induct
<1> QED
  BY <1>3 DEF T

\* Pow2 is what its definition says.
LEMMA PowIs == Pow2 = [n \in Nat |-> IF n = 0 THEN 1 ELSE 2 * Pow2[n - 1]]
<1> DEFINE G(n) == CHOOSE g : Table(n, g)
           f == [n \in Nat |-> G(n)[n]]
<1>1. \A n \in Nat : Table(n, G(n))
  BY Tabled
<1> HIDE DEF G
<1>2. ASSUME NEW n \in Nat PROVE f[n] = IF n = 0 THEN 1 ELSE 2 * f[n - 1]
  <2>1. CASE n = 0
    BY <1>1, <2>1 DEF Table
  <2>2. CASE n # 0
    <3>1. n - 1 \in Nat /\ n - 1 <= n /\ n \in 1..n /\ n - 1 \in 0..(n - 1)
      BY <2>2
    <3>2. G(n - 1)[n - 1] = G(n)[n - 1]
      BY <1>1, <3>1, SameTable
    <3>3. G(n)[n] = 2 * G(n)[n - 1]
      BY <1>1, <3>1 DEF Table
    <3>4. f[n] = G(n)[n] /\ f[n - 1] = G(n - 1)[n - 1]
      BY <3>1
    <3> QED
      BY <2>2, <3>2, <3>3, <3>4
  <2> QED
    BY <2>1, <2>2
<1>3. f = [n \in Nat |-> IF n = 0 THEN 1 ELSE 2 * f[n - 1]]
  <2>1. DOMAIN f = Nat /\ f = [n \in Nat |-> f[n]]
    OBVIOUS
  <2> HIDE DEF f
  <2> QED
    BY <1>2, <2>1, Zenon
<1> HIDE DEF f
<1> QED
  BY <1>3 DEF Pow2

\* The powers of two, step by step.
LEMMA Pow ==
    /\ Pow2[0] = 1
    /\ \A n \in Nat : Pow2[n] \in Nat /\ Pow2[n] > 0 /\ Pow2[n] > n /\ Pow2[n + 1] = 2 * Pow2[n]
<1>1. ASSUME NEW n \in Nat PROVE Pow2[n + 1] = 2 * Pow2[n]
  <2>1. n + 1 \in Nat /\ n + 1 # 0 /\ (n + 1) - 1 = n
    OBVIOUS
  <2>2. Pow2[n + 1] = IF n + 1 = 0 THEN 1 ELSE 2 * Pow2[(n + 1) - 1]
    BY <2>1, PowIs
  <2> QED
    BY <2>1, <2>2
<1>2. Pow2[0] = 1
  BY PowIs
<1> DEFINE T == {n \in Nat : Pow2[n] \in Nat /\ Pow2[n] > n}
<1>3. 0 \in T
  BY <1>2
<1>4. ASSUME NEW n \in Nat, n \in T PROVE n + 1 \in T
  BY <1>1, <1>4
<1> HIDE DEF T
<1>5. \A n \in Nat : n >= 0 => n \in T
  BY <1>3, <1>4, Induct
<1> QED
  BY <1>1, <1>2, <1>5 DEF T

\* The product of two powers.
LEMMA PowSum == \A m, n \in Nat : Pow2[m + n] = Pow2[m] * Pow2[n]
<1> SUFFICES ASSUME NEW m \in Nat PROVE \A n \in Nat : Pow2[m + n] = Pow2[m] * Pow2[n]
  OBVIOUS
<1> DEFINE T == {n \in Nat : Pow2[m + n] = Pow2[m] * Pow2[n]}
<1>1. 0 \in T
  BY Pow
<1>2. ASSUME NEW n \in Nat, n \in T PROVE n + 1 \in T
  <2>1. Pow2[(m + n) + 1] = 2 * Pow2[m + n] /\ Pow2[n + 1] = 2 * Pow2[n]
    BY Pow
  <2>2. m + (n + 1) = (m + n) + 1
    OBVIOUS
  <2>3. Pow2[m] \in Nat /\ Pow2[n] \in Nat
    BY Pow
  <2>4. Pow2[m + n] = Pow2[m] * Pow2[n]
    BY <1>2
  <2>5. 2 * (Pow2[m] * Pow2[n]) = Pow2[m] * (2 * Pow2[n])
    BY <2>3
  <2> QED
    BY <2>1, <2>2, <2>4, <2>5
<1> HIDE DEF T
<1>3. \A n \in Nat : n >= 0 => n \in T
  BY <1>1, <1>2, Induct
<1> QED
  BY <1>3 DEF T

\* A larger order has at least twice the pages.
LEMMA PowMore == \A i, j \in Nat : i < j => 2 * Pow2[i] <= Pow2[j]
<1> SUFFICES ASSUME NEW i \in Nat, NEW j \in Nat, i < j PROVE 2 * Pow2[i] <= Pow2[j]
  OBVIOUS
<1>1. j - (i + 1) \in Nat /\ (i + 1) + (j - (i + 1)) = j
  OBVIOUS
<1>2. Pow2[j] = Pow2[i + 1] * Pow2[j - (i + 1)]
  BY <1>1, PowSum
<1>3. Pow2[j - (i + 1)] \in Nat /\ Pow2[j - (i + 1)] >= 1 /\ Pow2[i] \in Nat /\ Pow2[i + 1] = 2 * Pow2[i]
  BY <1>1, Pow
<1>4. \A a, b \in Nat : b >= 1 => a <= a * b
  OBVIOUS
<1> QED
  BY <1>2, <1>3, <1>4

-----------------------------------------------------------------------------
(* Aligned blocks. *)

Aligned(p, o) == \E q \in Nat : p = q * Pow2[o]

\* Multiples of a number are at least that number apart.
LEMMA Multiples ==
    ASSUME NEW a \in Nat, NEW b \in Nat, NEW S \in Nat, a < b
    PROVE  a * S + S <= b * S
<1>1. (a + 1) * S = a * S + S
  OBVIOUS
<1>2. PICK c \in Nat : b = (a + 1) + c
  <2>1. b - (a + 1) \in Nat /\ b = (a + 1) + (b - (a + 1))
    OBVIOUS
  <2> QED
    BY <2>1
<1>3. b * S = (a + 1) * S + c * S
  BY <1>2
<1>4. c * S \in Nat /\ a * S \in Nat /\ b * S \in Nat
  OBVIOUS
<1> QED
  BY <1>1, <1>3, <1>4

\* Quotient and remainder.
LEMMA Quotient ==
    ASSUME NEW a \in Nat, NEW r \in Nat, NEW S \in Nat, r < S
    PROVE  (a * S + r) \div S = a /\ (a * S + r) % S = r
OBVIOUS

\* A number is aligned if it has no remainder.
LEMMA AlignedMod ==
    ASSUME NEW p \in Nat, NEW o \in Nat
    PROVE  Aligned(p, o) <=> p % Pow2[o] = 0
<1>1. Pow2[o] \in Nat /\ Pow2[o] > 0
  BY Pow
<1>2. ASSUME NEW q \in Nat, p = q * Pow2[o] PROVE p % Pow2[o] = 0
  <2>1. q * Pow2[o] + 0 = q * Pow2[o]
    BY <1>1
  <2> QED
    BY <1>1, <1>2, <2>1, Quotient
<1>3. ASSUME p % Pow2[o] = 0 PROVE p = (p \div Pow2[o]) * Pow2[o] /\ p \div Pow2[o] \in Nat
  BY <1>1, <1>3
<1> QED
  BY <1>2, <1>3 DEF Aligned

\* An aligned block is aligned for every smaller order.
LEMMA AlignedLess ==
    ASSUME NEW p \in Nat, NEW i \in Nat, NEW j \in Nat, i <= j, Aligned(p, j)
    PROVE  Aligned(p, i)
<1>1. PICK q \in Nat : p = q * Pow2[j]
  BY DEF Aligned
<1>2. j - i \in Nat /\ i + (j - i) = j
  OBVIOUS
<1>3. Pow2[j] = Pow2[i] * Pow2[j - i] /\ Pow2[i] \in Nat /\ Pow2[j - i] \in Nat
  <2>1. Pow2[i + (j - i)] = Pow2[i] * Pow2[j - i]
    BY <1>2, PowSum
  <2> QED
    BY <1>2, <2>1, Pow
<1>4. q * (Pow2[i] * Pow2[j - i]) = (q * Pow2[j - i]) * Pow2[i] /\ q * Pow2[j - i] \in Nat
  BY <1>3
<1> QED
  BY <1>1, <1>3, <1>4 DEF Aligned

\* Two aligned blocks that meet are nested.
LEMMA Nested ==
    ASSUME NEW p \in Nat, NEW i \in Nat, NEW r \in Nat, NEW j \in Nat, i <= j,
           Aligned(p, i), Aligned(r, j), NEW x \in Span(<<p, i>>), x \in Span(<<r, j>>)
    PROVE  Span(<<p, i>>) \subseteq Span(<<r, j>>)
<1>1. PICK q \in Nat : p = q * Pow2[i]
  BY DEF Aligned
<1>2. PICK s \in Nat : r = s * Pow2[i]
  BY AlignedLess DEF Aligned
<1>3. PICK e \in Nat : r + Pow2[j] = e * Pow2[i]
  <2>1. PICK c \in Nat : r = c * Pow2[j]
    BY DEF Aligned
  <2>2. (c + 1) * Pow2[j] = r + Pow2[j] /\ c + 1 \in Nat
    BY <2>1, Pow
  <2>3. Aligned(r + Pow2[j], j) /\ r + Pow2[j] \in Nat
    BY <2>2, Pow DEF Aligned
  <2>4. Aligned(r + Pow2[j], i)
    BY <2>3, AlignedLess
  <2> QED
    BY <2>4 DEF Aligned
<1>4. Pow2[i] \in Nat /\ Pow2[i] > 0 /\ Pow2[j] \in Nat /\ Pow2[j] > 0
  BY Pow
<1>5. /\ x \in Int /\ p <= x /\ x <= p + Pow2[i] - 1
      /\ r <= x /\ x <= r + Pow2[j] - 1
  BY <1>4 DEF Span
<1>6. r <= p
  <2>1. CASE q < s
    <3>1. p + Pow2[i] <= r
      BY <1>1, <1>2, <1>4, <2>1, Multiples
    <3> QED
      BY <1>4, <1>5, <3>1
  <2>2. CASE s < q
    <3>1. r + Pow2[i] <= p
      BY <1>1, <1>2, <1>4, <2>2, Multiples
    <3> QED
      BY <1>4, <3>1
  <2>3. CASE s = q
    BY <1>1, <1>2, <2>3
  <2> QED
    BY <2>1, <2>2, <2>3
<1>7. p + Pow2[i] <= r + Pow2[j]
  <2>1. CASE q < e
    BY <1>1, <1>3, <1>4, <2>1, Multiples, Zenon
  <2>2. CASE e < q
    <3>1. r + Pow2[j] + Pow2[i] <= p
      BY <1>1, <1>3, <1>4, <2>2, Multiples
    <3> QED
      BY <1>4, <1>5, <3>1
  <2>3. CASE e = q
    BY <1>1, <1>3, <1>4, <1>5, <2>3
  <2> QED
    BY <2>1, <2>2, <2>3
<1> QED
  BY <1>4, <1>6, <1>7 DEF Span

\* The buddy of an aligned block: it is the other half of an aligned block of the
\* next order, which starts at the lower of the two.
IsPair(p, b, o) ==
    LET m == IF b < p THEN b ELSE p
    IN  /\ b \in Nat /\ Aligned(b, o) /\ Aligned(m, o + 1)
        /\ (p = m /\ b = m + Pow2[o]) \/ (b = m /\ p = m + Pow2[o])

\* pfn ^ (1 << order).
LEMMA BuddyIs ==
    ASSUME NEW p \in Nat, NEW o \in Nat, Aligned(p, o)
    PROVE  IsPair(p, Buddy(p, o), o) /\ Buddy(Buddy(p, o), o) = p
<1> DEFINE S == Pow2[o]
           b == Buddy(p, o)
<1>1. S \in Nat /\ S > 0 /\ Pow2[o + 1] = 2 * S
  BY Pow
<1>2. PICK q \in Nat : p = q * S
  BY DEF Aligned
<1>3. \A n \in Nat : (n * S) \div S = n
  <2>1. \A n \in Nat : n * S + 0 = n * S
    BY <1>1
  <2> QED
    BY <1>1, <2>1, Quotient
<1>4. b = IF q % 2 = 0 THEN p + S ELSE p - S
  BY <1>2, <1>3 DEF Buddy
<1>5. CASE q % 2 = 0
  <2>1. PICK r \in Nat : q = 2 * r
    BY <1>5
  <2>2. b = p + S /\ b = (q + 1) * S /\ p = r * (2 * S)
    BY <1>1, <1>2, <1>4, <1>5, <2>1
  <2>3. b \div S = q + 1 /\ (q + 1) % 2 # 0
    BY <1>3, <1>5, <2>2
  <2>4. Buddy(b, o) = p
    BY <1>1, <2>2, <2>3 DEF Buddy
  <2> HIDE DEF S, b
  <2>5. b \in Nat /\ ~ (b < p)
    BY <1>1, <2>2
  <2>6. Aligned(b, o) /\ Aligned(p, o + 1)
    BY <1>1, <2>2 DEF Aligned, S
  <2>7. IsPair(p, b, o)
    BY <2>2, <2>5, <2>6 DEF IsPair, S
  <2> QED
    BY <2>4, <2>7 DEF b
<1>6. CASE q % 2 # 0
  <2>1. PICK r \in Nat : q = 2 * r + 1
    BY <1>6
  <2>2. b = p - S /\ b = (2 * r) * S /\ b = r * (2 * S) /\ p = b + S
    BY <1>1, <1>2, <1>4, <1>6, <2>1
  <2>3. b \div S = 2 * r /\ (2 * r) % 2 = 0
    BY <1>3, <2>2
  <2>4. Buddy(b, o) = p
    BY <1>1, <2>2, <2>3 DEF Buddy
  <2> HIDE DEF S, b
  <2>5. b \in Nat /\ b < p
    BY <1>1, <2>2
  <2>6. Aligned(b, o) /\ Aligned(b, o + 1)
    <3>1. 2 * r \in Nat
      OBVIOUS
    <3> QED
      BY <1>1, <2>2, <3>1 DEF Aligned, S
  <2>7. IsPair(p, b, o)
    BY <2>2, <2>5, <2>6 DEF IsPair, S
  <2> QED
    BY <2>4, <2>7 DEF b
<1> QED
  BY <1>5, <1>6

\* The buddy of the first part of a larger block comes after it.
LEMMA BuddyAfter ==
    ASSUME NEW p \in Nat, NEW o \in Nat, Aligned(p, o + 1)
    PROVE  Buddy(p, o) = p + Pow2[o]
<1>1. Pow2[o] \in Nat /\ Pow2[o] > 0 /\ Pow2[o + 1] = 2 * Pow2[o]
  BY Pow
<1>2. PICK r \in Nat : p = r * Pow2[o + 1]
  BY DEF Aligned
<1>3. p = (2 * r) * Pow2[o] + 0 /\ 2 * r \in Nat
  BY <1>1, <1>2
<1>4. p \div Pow2[o] = 2 * r
  BY <1>1, <1>3, Quotient, Zenon
<1>5. (2 * r) % 2 = 0
  OBVIOUS
<1> QED
  BY <1>4, <1>5 DEF Buddy

\* Two halves make a block.
LEMMA Halves ==
    ASSUME NEW p \in Nat, NEW b, NEW o \in Nat, IsPair(p, b, o)
    PROVE  LET m == IF b < p THEN b ELSE p
           IN  /\ Span(<<m, o + 1>>) = Span(<<p, o>>) \cup Span(<<b, o>>)
               /\ Span(<<p, o>>) \cap Span(<<b, o>>) = {}
<1> DEFINE m == IF b < p THEN b ELSE p
<1>1. Pow2[o] \in Nat /\ Pow2[o] > 0 /\ Pow2[o + 1] = 2 * Pow2[o]
  BY Pow
<1>2. m \in Nat /\ ((p = m /\ b = m + Pow2[o]) \/ (b = m /\ p = m + Pow2[o]))
  BY DEF IsPair
<1> HIDE DEF m
<1>3. /\ Span(<<m, o + 1>>) = m..(m + 2 * Pow2[o] - 1)
      /\ Span(<<m, o>>) = m..(m + Pow2[o] - 1)
      /\ Span(<<m + Pow2[o], o>>) = (m + Pow2[o])..(m + Pow2[o] + Pow2[o] - 1)
  BY <1>1 DEF Span
<1>4. \A s \in Nat : /\ m..(m + 2 * s - 1) = (m..(m + s - 1)) \cup ((m + s)..(m + s + s - 1))
                     /\ (m..(m + s - 1)) \cap ((m + s)..(m + s + s - 1)) = {}
  BY <1>2
<1>5. /\ Span(<<m, o + 1>>) = Span(<<m, o>>) \cup Span(<<m + Pow2[o], o>>)
      /\ Span(<<m, o>>) \cap Span(<<m + Pow2[o], o>>) = {}
  BY <1>1, <1>3, <1>4, Zenon
<1>6. /\ Span(<<m, o + 1>>) = Span(<<p, o>>) \cup Span(<<b, o>>)
      /\ Span(<<p, o>>) \cap Span(<<b, o>>) = {}
  BY <1>2, <1>5
<1> QED
  BY <1>6 DEF m

\* The block that a block is part of, order by order: the lower one of the block
\* and its buddy, as in the loop of pmm_free_pages.
LEMMA ManagerFirst ==
    ASSUME NEW p \in Nat, NEW o \in Nat, Aligned(p, o)
    PROVE  Manager(p, o, o) = p
<1>1. Pow2[o] \in Nat /\ Pow2[o] > 0 /\ Pow2[o - o] = 1
  BY Pow
<1>2. PICK q \in Nat : p = q * Pow2[o] + 0
  <2>1. \A q \in Nat : q * Pow2[o] = q * Pow2[o] + 0
    BY <1>1
  <2> QED
    BY <2>1 DEF Aligned
<1>3. p \div Pow2[o] = q
  BY <1>1, <1>2, Quotient
<1>4. q % 1 = 0 /\ 0 * Pow2[o] = 0
  BY <1>1
<1> QED
  BY <1>1, <1>3, <1>4 DEF Manager

\* A remainder after a doubling of the divisor.
LEMMA Doubled ==
    ASSUME NEW q \in Nat, NEW N \in Nat, N > 0
    PROVE  /\ q = (q \div N) * N + (q % N) /\ q \div N \in Nat /\ q % N \in Nat /\ q % N < N
           /\ q % (2 * N) = IF (q \div N) % 2 = 0 THEN q % N ELSE (q % N) + N
<1> DEFINE a == q \div N
           r == q % N
<1>1. q = a * N + r /\ a \in Nat /\ r \in Nat /\ r < N
  OBVIOUS
<1> HIDE DEF a, r
<1>2. CASE a % 2 = 0
  <2>1. PICK c \in Nat : a = 2 * c
    BY <1>1, <1>2
  <2>2. q = c * (2 * N) + r /\ r < 2 * N /\ 2 * N \in Nat
    BY <1>1, <2>1
  <2>3. \A M \in Nat : r < M => (c * M + r) % M = r
    BY <1>1, <2>2, Quotient
  <2>4. q % (2 * N) = r
    BY <2>2, <2>3
  <2> QED
    BY <1>1, <1>2, <2>4 DEF a, r
<1>3. CASE a % 2 # 0
  <2>1. PICK c \in Nat : a = 2 * c + 1
    BY <1>1, <1>3
  <2>2. q = c * (2 * N) + (r + N) /\ r + N < 2 * N /\ 2 * N \in Nat /\ r + N \in Nat
    BY <1>1, <2>1
  <2>3. \A M \in Nat : r + N < M => (c * M + (r + N)) % M = r + N
    BY <1>1, <2>2, Quotient
  <2>4. q % (2 * N) = r + N
    BY <2>2, <2>3
  <2> QED
    BY <1>1, <1>3, <2>4 DEF a, r
<1> QED
  BY <1>2, <1>3

\* One turn of the loop.
LEMMA ManagerNext ==
    ASSUME NEW p \in Nat, NEW o \in Nat, Aligned(p, o), NEW k \in Nat, k >= o
    PROVE  /\ Manager(p, o, k) \in Nat /\ Aligned(Manager(p, o, k), k)
           /\ Manager(p, o, k + 1) = IF Buddy(Manager(p, o, k), k) < Manager(p, o, k)
                                     THEN Buddy(Manager(p, o, k), k) ELSE Manager(p, o, k)
<1> DEFINE S == Pow2[o]
           n == k - o
           N == Pow2[n]
<1>1. n \in Nat /\ o + n = k /\ (k + 1) - o = n + 1
  OBVIOUS
<1>2. S \in Nat /\ S > 0 /\ N \in Nat /\ N > 0 /\ Pow2[n + 1] = 2 * N
  BY <1>1, Pow
<1>3. Pow2[k] = S * N
  <2>1. Pow2[o + n] = Pow2[o] * Pow2[n]
    BY <1>1, PowSum
  <2> QED
    BY <1>1, <2>1
<1>4. PICK q \in Nat : p = q * S
  BY DEF Aligned
<1>5. p \div S = q
  <2>1. p = q * S + 0
    BY <1>2, <1>4
  <2> QED
    BY <1>2, <2>1, Quotient
<1> DEFINE a == q \div N
           r == q % N
           m == Manager(p, o, k)
           d == Manager(p, o, k + 1)
<1>6. /\ q = a * N + r /\ a \in Nat /\ r \in Nat
      /\ q % (2 * N) = IF a % 2 = 0 THEN r ELSE r + N
  BY <1>2, Doubled, Zenon
<1>7. m = p - r * S
  BY <1>5 DEF Manager
<1>8. d = p - (q % (2 * N)) * S
  BY <1>1, <1>2, <1>5 DEF Manager
<1>9. Buddy(m, k) = IF (m \div Pow2[k]) % 2 = 0 THEN m + Pow2[k] ELSE m - Pow2[k]
  BY DEF Buddy
<1> HIDE DEF S, N, n, a, r, m, d
<1>10. m = a * (S * N) /\ m \in Nat /\ S * N \in Nat /\ S * N > 0
  <2>1. p = (a * N) * S + r * S
    BY <1>2, <1>4, <1>6
  <2>2. m = (a * N) * S
    BY <1>2, <1>6, <1>7, <2>1
  <2>3. (a * N) * S = a * (S * N)
    BY <1>2, <1>6
  <2> QED
    BY <1>2, <1>6, <2>2, <2>3
<1>11. m \div Pow2[k] = a
  <2>1. m = a * (S * N) + 0
    BY <1>6, <1>10
  <2>2. \A M \in Nat : 0 < M => (a * M + 0) \div M = a
    BY <1>6, Quotient
  <2> QED
    BY <1>3, <1>10, <2>1, <2>2
<1>12. Aligned(m, k)
  BY <1>3, <1>6, <1>10 DEF Aligned
<1>13. d = IF Buddy(m, k) < m THEN Buddy(m, k) ELSE m
  <2>1. CASE a % 2 = 0
    <3>1. d = m
      BY <1>6, <1>7, <1>8, <2>1
    <3>2. Buddy(m, k) = m + S * N
      BY <1>3, <1>9, <1>11, <2>1
    <3> QED
      BY <1>10, <3>1, <3>2
  <2>2. CASE a % 2 # 0
    <3>1. (r + N) * S = r * S + S * N
      BY <1>2, <1>6
    <3>2. d = m - S * N
      BY <1>2, <1>4, <1>6, <1>7, <1>8, <2>2, <3>1
    <3>3. Buddy(m, k) = m - S * N
      BY <1>3, <1>9, <1>11, <2>2
    <3> QED
      BY <1>10, <3>2, <3>3
  <2> QED
    BY <2>1, <2>2
<1> QED
  BY <1>10, <1>12, <1>13 DEF m, d

\* The buddy met at an order on the way up.
Met(p, o, j) == Buddy(Manager(p, o, j), j)

\* One turn of the loop, as a union of blocks.
LEMMA OneUp ==
    ASSUME NEW p \in Nat, NEW o \in Nat, Aligned(p, o), NEW k \in Nat, k >= o
    PROVE  /\ Met(p, o, k) \in Nat /\ Aligned(Met(p, o, k), k)
           /\ Manager(p, o, k + 1) \in {Manager(p, o, k), Met(p, o, k)}
           /\ Met(p, o, k) # Manager(p, o, k)
           /\ Span(<<Manager(p, o, k + 1), k + 1>>) = Span(<<Manager(p, o, k), k>>) \cup Span(<<Met(p, o, k), k>>)
           /\ Span(<<Manager(p, o, k), k>>) \cap Span(<<Met(p, o, k), k>>) = {}
<1> DEFINE m == Manager(p, o, k)
           b == Met(p, o, k)
<1>1. m \in Nat /\ Aligned(m, k) /\ Manager(p, o, k + 1) = IF b < m THEN b ELSE m
  BY ManagerNext DEF Met
<1>2. b = Buddy(m, k)
  BY DEF Met
<1> HIDE DEF m, b
<1>3. IsPair(m, b, k)
  BY <1>1, <1>2, BuddyIs
<1>4. b \in Nat /\ Aligned(b, k) /\ b # m
  <2>1. Pow2[k] \in Nat /\ Pow2[k] > 0
    BY Pow
  <2> QED
    BY <1>1, <1>3, <2>1 DEF IsPair
<1>5. /\ Span(<<Manager(p, o, k + 1), k + 1>>) = Span(<<m, k>>) \cup Span(<<b, k>>)
      /\ Span(<<m, k>>) \cap Span(<<b, k>>) = {}
  BY <1>1, <1>3, Halves
<1> QED
  BY <1>1, <1>4, <1>5 DEF m, b

\* A block is one part of it and the buddies met on the way up from there.
Parts(p, o, k) ==
    /\ Span(<<Manager(p, o, k), k>>) = Span(<<p, o>>) \cup UNION {Span(<<Met(p, o, j), j>>) : j \in o..(k - 1)}
    /\ Manager(p, o, k) \in {p} \cup {Met(p, o, j) : j \in o..(k - 1)}

\* The loop of pmm_free_pages, and the one of pmm_alloc_pages backwards.
LEMMA Chain ==
    ASSUME NEW p \in Nat, NEW o \in Nat, Aligned(p, o), NEW k \in Nat, k >= o
    PROVE  Parts(p, o, k)
<1> DEFINE T == {n \in Nat : Parts(p, o, n)}
<1>1. o \in T
  <2>1. o..(o - 1) = {}
    OBVIOUS
  <2>2. Manager(p, o, o) = p
    BY ManagerFirst
  <2> QED
    BY <2>1, <2>2, Zenon DEF Parts
<1>2. ASSUME NEW n \in Nat, n >= o, n \in T PROVE n + 1 \in T
  <2> DEFINE met(j) == Span(<<Met(p, o, j), j>>)
             all(i) == {met(j) : j \in o..(i - 1)}
             up(i) == {Met(p, o, j) : j \in o..(i - 1)}
  <2>1. /\ Span(<<Manager(p, o, n), n>>) = Span(<<p, o>>) \cup UNION all(n)
        /\ Manager(p, o, n) \in {p} \cup up(n)
    BY <1>2 DEF Parts
  <2>2. /\ Span(<<Manager(p, o, n + 1), n + 1>>) = Span(<<Manager(p, o, n), n>>) \cup met(n)
        /\ Manager(p, o, n + 1) \in {Manager(p, o, n), Met(p, o, n)}
    BY <1>2, OneUp
  <2>3. o..((n + 1) - 1) = (o..(n - 1)) \cup {n}
    BY <1>2
  <2>4. all(n + 1) = all(n) \cup {met(n)} /\ up(n + 1) = up(n) \cup {Met(p, o, n)}
    <3> HIDE DEF met
    <3> QED
      BY <2>3
  <2> HIDE DEF met, all, up
  <2>5. /\ Span(<<Manager(p, o, n + 1), n + 1>>) = Span(<<p, o>>) \cup UNION all(n + 1)
        /\ Manager(p, o, n + 1) \in {p} \cup up(n + 1)
    BY <2>1, <2>2, <2>4
  <2> QED
    BY <2>5 DEF Parts, met, all, up
<1> HIDE DEF T
<1>3. \A n \in Nat : n >= o => n \in T
  BY <1>1, <1>2, Induct
<1> QED
  BY <1>3 DEF T

\* The parts are apart.
LEMMA PartsApart ==
    ASSUME NEW p \in Nat, NEW o \in Nat, Aligned(p, o), NEW j \in Nat, j >= o
    PROVE  /\ Span(<<p, o>>) \cap Span(<<Met(p, o, j), j>>) = {}
           /\ \A i \in o..(j - 1) : Span(<<Met(p, o, i), i>>) \cap Span(<<Met(p, o, j), j>>) = {}
<1>1. Span(<<Manager(p, o, j), j>>) \cap Span(<<Met(p, o, j), j>>) = {}
  BY OneUp, Zenon
<1>2. Span(<<Manager(p, o, j), j>>) = Span(<<p, o>>) \cup UNION {Span(<<Met(p, o, i), i>>) : i \in o..(j - 1)}
  BY Chain DEF Parts
<1> QED
  BY <1>1, <1>2

\* A block splits at its own address: no buddy comes before it.
LEMMA ManagerStays ==
    ASSUME NEW p \in Nat, NEW o \in Nat, NEW k \in Nat, o <= k, Aligned(p, k)
    PROVE  /\ Aligned(p, o)
           /\ \A j \in o..k : Manager(p, o, j) = p
           /\ \A j \in o..(k - 1) : Met(p, o, j) = Buddy(p, j) /\ Buddy(p, j) = p + Pow2[j]
<1>1. Aligned(p, o)
  BY AlignedLess
<1>2. ASSUME NEW j \in Nat, j < k PROVE Buddy(p, j) = p + Pow2[j]
  <2>1. Aligned(p, j + 1)
    BY <1>2, AlignedLess
  <2> QED
    BY <2>1, BuddyAfter
<1> DEFINE T == {j \in Nat : j <= k => Manager(p, o, j) = p}
<1>3. o \in T
  BY <1>1, ManagerFirst
<1>4. ASSUME NEW j \in Nat, j >= o, j \in T PROVE j + 1 \in T
  <2>1. SUFFICES ASSUME j + 1 <= k PROVE Manager(p, o, j + 1) = p
    OBVIOUS
  <2>2. Manager(p, o, j) = p
    BY <1>4, <2>1
  <2>3. Manager(p, o, j + 1) = IF Buddy(p, j) < p THEN Buddy(p, j) ELSE p
    BY <1>1, <1>4, <2>2, ManagerNext
  <2>4. Buddy(p, j) = p + Pow2[j] /\ Pow2[j] \in Nat
    BY <1>2, <2>1, Pow
  <2> QED
    BY <2>3, <2>4
<1> HIDE DEF T
<1>5. \A j \in Nat : j >= o => j \in T
  BY <1>3, <1>4, Induct
<1>6. \A j \in o..k : Manager(p, o, j) = p
  BY <1>5 DEF T
<1>7. ASSUME NEW j \in o..(k - 1) PROVE Met(p, o, j) = Buddy(p, j) /\ Buddy(p, j) = p + Pow2[j]
  <2>1. j \in Nat /\ j < k /\ j \in o..k
    OBVIOUS
  <2> QED
    BY <1>2, <1>6, <2>1 DEF Met
<1> QED
  BY <1>1, <1>6, <1>7

\* A block starts in its span.
LEMMA StartsInside ==
    ASSUME NEW p \in Nat, NEW o \in Nat
    PROVE  p \in Span(<<p, o>>) /\ Span(<<p, o>>) \subseteq Nat /\ (o = 0 => Span(<<p, o>>) = {p})
<1>1. Pow2[o] \in Nat /\ Pow2[o] > 0 /\ Pow2[0] = 1
  BY Pow
<1> QED
  BY <1>1 DEF Span

-----------------------------------------------------------------------------
(* The invariant of the allocator, on its pages, the sets of its free blocks *)
(* by order, and the blocks that are held.                                   *)

PageRec == [flags : {"FREE", "USED", "RESERVED"}, ref_count : 0..(Pow2[Width] - 1), order : Orders]

FreeSet(F) == UNION {{<<p, o>> : p \in F[o]} : o \in Orders}
Blocks(F, held) == FreeSet(F) \cup held
PagesOf(B) == UNION {Span(b) : b \in B}

Types(page, F, held) ==
    /\ DOMAIN page \subseteq Nat
    /\ page \in [DOMAIN page -> PageRec]
    /\ F \in [Orders -> SUBSET DOMAIN page]
    /\ held \subseteq (DOMAIN page) \X Orders

\* A block in a list has the flags and the order of that list, a held one is not free.
Marked(page, F, held) ==
    /\ \A o \in Orders : \A p \in F[o] : page[p].flags = "FREE" /\ page[p].order = o
    /\ \A b \in held : page[b[1]].flags # "FREE"

Placed(P, B) ==
    /\ \A b \in B : Aligned(b[1], b[2]) /\ Span(b) \subseteq P
    /\ \A b, c \in B : b # c => Span(b) \cap Span(c) = {}

\* A page that is marked free is in its list, or inside a block, with order 0.
Honest(page, F, held) ==
    \A p \in DOMAIN page : page[p].flags = "FREE" =>
        \/ p \in F[page[p].order]
        \/ page[p].order = 0 /\ \E b \in Blocks(F, held) : b[2] # 0 /\ p \in Span(b)

\* Two buddies are never both free.
Coalescent(F) ==
    \A o \in Orders : o # PMM_MAX_ORDER - 1 => \A p \in F[o] : Buddy(p, o) \notin F[o]

Good(page, F, held) ==
    /\ Types(page, F, held)
    /\ Marked(page, F, held)
    /\ Placed(DOMAIN page, Blocks(F, held))
    /\ Honest(page, F, held)
    /\ Coalescent(F)

\* The orders are numbers.
LEMMA OrderFacts == \A o \in Orders : o \in Nat /\ o <= PMM_MAX_ORDER - 1
BY SizesAssumption DEF Orders

\* The elements of FreeSet.
LEMMA InFreeSet ==
    ASSUME NEW F, NEW b
    PROVE  b \in FreeSet(F) <=> \E o \in Orders : \E p \in F[o] : b = <<p, o>>
BY DEF FreeSet

\* What is known of a block.
LEMMA BlockFacts ==
    ASSUME NEW page, NEW F, NEW held, Good(page, F, held), NEW b \in Blocks(F, held)
    PROVE  /\ b = <<b[1], b[2]>> /\ b[1] \in DOMAIN page /\ b[1] \in Nat /\ b[2] \in Orders /\ b[2] \in Nat
           /\ Aligned(b[1], b[2]) /\ Span(b) \subseteq DOMAIN page /\ b[1] \in Span(b)
<1>1. b = <<b[1], b[2]>> /\ b[1] \in DOMAIN page /\ b[2] \in Orders
  <2>1. CASE b \in held
    <3>1. b \in (DOMAIN page) \X Orders
      BY <2>1 DEF Good, Types
    <3> QED
      BY <3>1
  <2>2. CASE b \in FreeSet(F)
    <3>1. PICK o \in Orders : \E p \in F[o] : b = <<p, o>>
      BY <2>2, InFreeSet
    <3>2. PICK p \in F[o] : b = <<p, o>>
      BY <3>1
    <3>3. F[o] \subseteq DOMAIN page
      BY DEF Good, Types
    <3> QED
      BY <3>2, <3>3
  <2> QED
    BY <2>1, <2>2 DEF Blocks
<1>2. b[1] \in Nat /\ b[2] \in Nat
  BY <1>1, OrderFacts DEF Good, Types
<1>3. Aligned(b[1], b[2]) /\ Span(b) \subseteq DOMAIN page
  BY DEF Good, Placed
<1>4. b[1] \in Span(b)
  BY <1>1, <1>2, StartsInside
<1> QED
  BY <1>1, <1>2, <1>3, <1>4

\* Blocks that share a page are the same.
LEMMA SameBlock ==
    ASSUME NEW page, NEW F, NEW held, Good(page, F, held),
           NEW b \in Blocks(F, held), NEW c \in Blocks(F, held), NEW x \in Span(b), x \in Span(c)
    PROVE  b = c
BY DEF Good, Placed

\* A free block, and a held one.
LEMMA FreeFacts ==
    ASSUME NEW page, NEW F, NEW held, Good(page, F, held), NEW o \in Orders, NEW p \in F[o]
    PROVE  /\ <<p, o>> \in Blocks(F, held) /\ p \in DOMAIN page /\ p \in Nat /\ Aligned(p, o)
           /\ page[p].flags = "FREE" /\ page[p].order = o
<1>1. <<p, o>> \in Blocks(F, held)
  BY InFreeSet DEF Blocks
<1>2. p \in DOMAIN page /\ p \in Nat /\ Aligned(p, o)
  <2> DEFINE b == <<p, o>>
  <2>1. b[1] = p /\ b[2] = o
    OBVIOUS
  <2> HIDE DEF b
  <2>2. b[1] \in DOMAIN page /\ b[1] \in Nat /\ Aligned(b[1], b[2])
    BY <1>1, BlockFacts DEF b
  <2> QED
    BY <2>1, <2>2
<1> QED
  BY <1>1, <1>2 DEF Good, Marked

-----------------------------------------------------------------------------
(* Freeing a block. *)

\* The buddies that pmm_free_pages merges are in their lists: the flags and the order it
\* looks at are true.  A page inside a block is never the buddy of another block.
LEMMA BuddyListed ==
    ASSUME NEW page, NEW F, NEW held, Good(page, F, held), NEW p, NEW o, <<p, o>> \in Blocks(F, held),
           NEW j \in Orders, j >= o, Met(p, o, j) \in DOMAIN page,
           page[Met(p, o, j)].flags = "FREE", page[Met(p, o, j)].order = j
    PROVE  Met(p, o, j) \in F[j]
<1> DEFINE b == <<p, o>>
           m == Met(p, o, j)
<1>1. b \in Blocks(F, held) /\ b[1] = p /\ b[2] = o
  OBVIOUS
<1> HIDE DEF b
<1>2. p \in Nat /\ o \in Nat /\ Aligned(p, o) /\ p \in Span(b) /\ j \in Nat
  BY <1>1, BlockFacts, OrderFacts
<1>3. CASE m \in F[j]
  BY <1>3
<1>4. CASE j = 0 /\ \E c \in Blocks(F, held) : c[2] # 0 /\ m \in Span(c)
  <2>1. PICK c \in Blocks(F, held) : c[2] # 0 /\ m \in Span(c)
    BY <1>4
  <2>2. j = 0 /\ o = 0
    BY <1>2, <1>4
  <2>3. c = <<c[1], c[2]>> /\ c[1] \in Nat /\ c[2] \in Nat /\ Aligned(c[1], c[2])
    BY BlockFacts
  <2> DEFINE w == Manager(p, o, j + 1)
  <2>4. /\ m \in Nat /\ w \in Nat /\ Aligned(w, j + 1)
        /\ Span(<<w, j + 1>>) = Span(<<Manager(p, o, j), j>>) \cup Span(<<m, j>>)
    <3>1. m \in Nat /\ Span(<<w, j + 1>>) = Span(<<Manager(p, o, j), j>>) \cup Span(<<m, j>>)
      BY <1>2, OneUp
    <3>2. j + 1 \in Nat /\ j + 1 >= o
      BY <1>2
    <3> QED
      BY <1>2, <3>1, <3>2, ManagerNext
  <2>5. Manager(p, o, j) = p
    BY <1>2, <2>2, ManagerFirst
  <2> HIDE DEF m, w
  <2>6. m \in Span(<<w, j + 1>>) /\ p \in Span(<<w, j + 1>>)
    BY <1>2, <2>4, <2>5, StartsInside
  <2>7. j + 1 <= c[2] /\ j + 1 \in Nat
    BY <2>1, <2>2, <2>3
  <2>8. p \in Span(c)
    <3>1. m \in Span(<<c[1], c[2]>>)
      BY <2>1, <2>3
    <3>2. Span(<<w, j + 1>>) \subseteq Span(<<c[1], c[2]>>)
      BY <2>3, <2>4, <2>6, <2>7, <3>1, Nested
    <3> QED
      BY <2>3, <2>6, <3>2
  <2>9. c = b
    BY <1>1, <1>2, <2>8, SameBlock
  <2> QED
    BY <1>1, <2>1, <2>2, <2>9
<1> QED
  BY <1>3, <1>4 DEF Good, Honest

\* The pages and the free blocks after a block of order k was put together.
MergedPages_(page, p, o, k) ==
    [q \in DOMAIN page |->
        IF q = Manager(p, o, k) THEN [flags |-> "FREE", ref_count |-> 0, order |-> k]
        ELSE IF q \in {Met(p, o, j) : j \in o..(k - 1)} THEN [page[q] EXCEPT !.order = 0]
        ELSE page[q]]
MergedFree(F, p, o, k) ==
    [j \in Orders |-> IF j \in o..(k - 1) THEN F[j] \ {Met(p, o, j)}
                      ELSE IF j = k THEN F[j] \cup {Manager(p, o, k)}
                      ELSE F[j]]

\* The block that is freed, and the buddies that it is merged with.
Gone(p, o, k) == {<<p, o>>} \cup {<<Met(p, o, j), j>> : j \in o..(k - 1)}

\* Where pmm_free_pages stops.
Stops(page, F, p, o, k) ==
    /\ k \in Orders /\ k >= o
    /\ \A j \in o..(k - 1) : Met(p, o, j) \in F[j]
    /\ k # PMM_MAX_ORDER - 1 => Met(p, o, k) \notin F[k]

\* The facts about a merge that the parts of the invariant need.
MergeFacts(page, F, held, p, o, k) ==
    LET M == Manager(p, o, k)
        R == Gone(p, o, k)
    IN  /\ p \in DOMAIN page /\ p \in Nat /\ o \in Orders /\ o \in Nat /\ k \in Nat /\ Aligned(p, o)
        /\ page[p].flags # "FREE"
        /\ R \subseteq Blocks(F, held)
        /\ M \in Nat /\ M \in DOMAIN page /\ Aligned(M, k)
        /\ Span(<<M, k>>) = PagesOf(R)
        /\ M = p \/ \E j \in o..(k - 1) : M = Met(p, o, j)
        /\ \A j \in o..(k - 1) : /\ j \in Orders /\ Met(p, o, j) \in DOMAIN page
                                 /\ page[Met(p, o, j)].flags = "FREE" /\ page[Met(p, o, j)].order = j

\* A held block is merged with buddies that are free and apart from it.
LEMMA MergeIs ==
    ASSUME NEW page, NEW F, NEW held, Good(page, F, held), NEW p, NEW o, <<p, o>> \in held,
           NEW k, Stops(page, F, p, o, k)
    PROVE  MergeFacts(page, F, held, p, o, k)
<1> DEFINE b == <<p, o>>
           M == Manager(p, o, k)
           R == Gone(p, o, k)
<1>1. b \in Blocks(F, held) /\ b[1] = p /\ b[2] = o
  BY DEF Blocks
<1>2. k \in Orders /\ k >= o /\ k \in Nat
  BY OrderFacts DEF Stops
<1> HIDE DEF b
<1>3. p \in DOMAIN page /\ p \in Nat /\ o \in Orders /\ o \in Nat /\ Aligned(p, o) /\ Span(b) \subseteq DOMAIN page
  BY <1>1, BlockFacts
<1>4. page[p].flags # "FREE"
  BY <1>1 DEF Good, Marked, b
<1>5. ASSUME NEW j \in o..(k - 1)
      PROVE  /\ j \in Orders /\ <<Met(p, o, j), j>> \in Blocks(F, held)
             /\ Met(p, o, j) \in DOMAIN page
             /\ page[Met(p, o, j)].flags = "FREE" /\ page[Met(p, o, j)].order = j
  <2>1. j \in Orders
    BY <1>2, <1>3, SizesAssumption DEF Orders
  <2>2. Met(p, o, j) \in F[j]
    BY DEF Stops
  <2> QED
    BY <2>1, <2>2, FreeFacts
<1>6. R \subseteq Blocks(F, held)
  BY <1>1, <1>5 DEF Gone, b
<1>7. Parts(p, o, k)
  BY <1>2, <1>3, Chain
<1>8. Span(<<M, k>>) = PagesOf(R)
  <2>1. PagesOf(R) = Span(<<p, o>>) \cup UNION {Span(<<Met(p, o, j), j>>) : j \in o..(k - 1)}
    BY Zenon DEF PagesOf, Gone
  <2> QED
    BY <1>7, <2>1 DEF Parts
<1>9. M = p \/ \E j \in o..(k - 1) : M = Met(p, o, j)
  BY <1>7 DEF Parts
<1>10. M \in DOMAIN page
  BY <1>3, <1>5, <1>9, Zenon
<1>11. M \in Nat /\ Aligned(M, k)
  BY <1>2, <1>3, ManagerNext
<1> QED
  BY <1>2, <1>3, <1>4, <1>5, <1>6, <1>8, <1>9, <1>10, <1>11, Zenon DEF MergeFacts

\* The blocks afterwards.
MergedBlocks(F, held, p, o, k) ==
    /\ FreeSet(MergedFree(F, p, o, k)) = (FreeSet(F) \ Gone(p, o, k)) \cup {<<Manager(p, o, k), k>>}
    /\ Blocks(MergedFree(F, p, o, k), held \ {<<p, o>>})
         = (Blocks(F, held) \ Gone(p, o, k)) \cup {<<Manager(p, o, k), k>>}

\* The free lists of a merge hold the whole instead of its parts.
LEMMA MergeFree ==
    ASSUME NEW page, NEW F, NEW held, Good(page, F, held), NEW p, NEW o, <<p, o>> \in held,
           NEW k, Stops(page, F, p, o, k)
    PROVE  MergedBlocks(F, held, p, o, k)
<1> DEFINE G == MergedFree(F, p, o, k)
           M == Manager(p, o, k)
           R == Gone(p, o, k)
<1>1. MergeFacts(page, F, held, p, o, k)
  BY MergeIs
<1>2. k \in Orders /\ o \in Nat /\ k \in Nat /\ k >= o /\ page[p].flags # "FREE"
  BY <1>1 DEF MergeFacts, Stops
<1>3. \A j \in o..(k - 1) : j \in Orders /\ page[Met(p, o, j)].flags = "FREE"
  BY <1>1 DEF MergeFacts
<1>4. \A j \in Orders : p \notin F[j]
  BY <1>2 DEF Good, Marked
<1>5. \A j \in Orders : G[j] = IF j \in o..(k - 1) THEN F[j] \ {Met(p, o, j)}
                               ELSE IF j = k THEN F[j] \cup {M} ELSE F[j]
  BY DEF MergedFree
<1>6. \A c : c \in R <=> c = <<p, o>> \/ \E j \in o..(k - 1) : c = <<Met(p, o, j), j>>
  BY DEF Gone
<1> HIDE DEF G, M, R
<1>7. ASSUME NEW c \in FreeSet(G) PROVE c \in (FreeSet(F) \ R) \cup {<<M, k>>}
  <2>1. PICK j \in Orders : \E x \in G[j] : c = <<x, j>>
    BY InFreeSet
  <2>2. PICK x \in G[j] : c = <<x, j>>
    BY <2>1
  <2>3. CASE c = <<M, k>>
    BY <2>3
  <2>4. CASE c # <<M, k>>
    <3>1. x \in F[j] /\ (j \in o..(k - 1) => x # Met(p, o, j))
      BY <1>2, <1>5, <2>2, <2>4, Zenon
    <3>2. c \in FreeSet(F)
      BY <2>2, <3>1, InFreeSet
    <3>3. c \notin R
      BY <1>4, <1>6, <2>2, <3>1
    <3> QED
      BY <3>2, <3>3
  <2> QED
    BY <2>3, <2>4
<1>8. ASSUME NEW c \in FreeSet(F), c \notin R PROVE c \in FreeSet(G)
  <2>1. PICK j \in Orders : \E x \in F[j] : c = <<x, j>>
    BY InFreeSet
  <2>2. PICK x \in F[j] : c = <<x, j>>
    BY <2>1
  <2>3. x \in G[j]
    BY <1>5, <1>6, <1>8, <2>2, Zenon
  <2> QED
    BY <2>2, <2>3, InFreeSet
<1>9. <<M, k>> \in FreeSet(G)
  <2>1. k \notin o..(k - 1)
    BY <1>2
  <2>2. M \in G[k]
    BY <1>2, <1>5, <2>1, Zenon
  <2> QED
    BY <1>2, <2>2, InFreeSet
<1>10. FreeSet(G) = (FreeSet(F) \ R) \cup {<<M, k>>}
  BY <1>7, <1>8, <1>9
<1>11. ASSUME NEW c \in held, c # <<p, o>> PROVE c \notin R
  <2>1. page[c[1]].flags # "FREE"
    BY DEF Good, Marked
  <2> QED
    BY <1>3, <1>6, <1>11, <2>1
<1>12. <<p, o>> \in R
  BY <1>6
<1>13. Blocks(G, held \ {<<p, o>>}) = (Blocks(F, held) \ R) \cup {<<M, k>>}
  BY <1>10, <1>11, <1>12 DEF Blocks
<1> QED
  BY <1>10, <1>13 DEF G, M, R, MergedBlocks

\* Freeing a block keeps the invariant; no other held block changes.
LEMMA MergeGood ==
    ASSUME NEW page, NEW F, NEW held, Good(page, F, held), NEW p, NEW o, <<p, o>> \in held,
           NEW k, Stops(page, F, p, o, k)
    PROVE  /\ Good(MergedPages_(page, p, o, k), MergedFree(F, p, o, k), held \ {<<p, o>>})
           /\ \A c \in held \ {<<p, o>>} : MergedPages_(page, p, o, k)[c[1]] = page[c[1]]
<1> DEFINE G == MergedFree(F, p, o, k)
           M == Manager(p, o, k)
           R == Gone(p, o, k)
           met == {Met(p, o, j) : j \in o..(k - 1)}
           new == MergedPages_(page, p, o, k)
           P == DOMAIN page
           left == held \ {<<p, o>>}
           B == Blocks(F, held)
           C == Blocks(G, left)
<1>1. MergeFacts(page, F, held, p, o, k)
  BY MergeIs
<1>2. /\ p \in P /\ p \in Nat /\ o \in Orders /\ o \in Nat /\ k \in Nat /\ k \in Orders /\ k >= o
      /\ page[p].flags # "FREE" /\ R \subseteq B /\ M \in Nat /\ M \in P /\ Aligned(M, k)
      /\ Span(<<M, k>>) = PagesOf(R) /\ (M = p \/ M \in met)
  BY <1>1 DEF MergeFacts, Stops
<1>3. \A j \in o..(k - 1) : /\ j \in Orders /\ Met(p, o, j) \in P /\ <<Met(p, o, j), j>> \in R
                            /\ page[Met(p, o, j)].flags = "FREE" /\ page[Met(p, o, j)].order = j
  BY <1>1 DEF MergeFacts, Gone
<1>4. C = (B \ R) \cup {<<M, k>>}
  BY MergeFree DEF MergedBlocks
<1>5. /\ DOMAIN new = P /\ new = [q \in P |-> new[q]]
      /\ \A q \in P : new[q] = IF q = M THEN [flags |-> "FREE", ref_count |-> 0, order |-> k]
                               ELSE IF q \in met THEN [page[q] EXCEPT !.order = 0] ELSE page[q]
  BY DEF MergedPages_
<1>6. /\ \A j \in Orders : G[j] = IF j \in o..(k - 1) THEN F[j] \ {Met(p, o, j)}
                                  ELSE IF j = k THEN F[j] \cup {M} ELSE F[j]
      /\ G = [j \in Orders |-> G[j]]
  BY DEF MergedFree
<1>7. \A q \in met : q \in P /\ page[q].flags = "FREE"
  BY <1>3, Zenon
<1>8. \A q \in P : page[q] \in PageRec
  BY DEF Good, Types
<1>9. <<p, o>> \in R /\ <<p, o>> \in B
  BY <1>2 DEF Gone
<1> HIDE DEF G, M, R, met, new, P, left, B, C
<1>10. Types(new, G, left)
  <2>1. [flags |-> "FREE", ref_count |-> 0, order |-> k] \in PageRec
    <3>1. Pow2[Width] \in Nat /\ Pow2[Width] > 0
      BY Pow, SizesAssumption
    <3> QED
      BY <1>2, <3>1 DEF PageRec
  <2>2. ASSUME NEW q \in P PROVE new[q] \in PageRec
    <3>1. [page[q] EXCEPT !.order = 0] \in PageRec
      <4>1. 0 \in Orders
        BY SizesAssumption DEF Orders
      <4> QED
        BY <1>8, <4>1 DEF PageRec
    <3> QED
      BY <1>5, <1>8, <2>1, <3>1
  <2>3. new \in [P -> PageRec]
    BY <1>5, <2>2
  <2>4. P \subseteq Nat /\ \A j \in Orders : F[j] \subseteq P
    BY DEF Good, Types, P
  <2>5. \A j \in Orders : G[j] \subseteq P
    BY <1>2, <1>6, <2>4
  <2>6. G \in [Orders -> SUBSET P]
    BY <1>6, <2>5
  <2>7. left \subseteq P \X Orders
    BY DEF Good, Types, P, left
  <2> QED
    BY <1>5, <2>3, <2>4, <2>6, <2>7 DEF Types
<1>11. ASSUME NEW c \in left PROVE c[1] \in P /\ c[1] # M /\ c[1] \notin met /\ page[c[1]].flags # "FREE"
  <2>1. c \in held /\ c # <<p, o>> /\ c \in B
    BY DEF left, B, Blocks
  <2>2. page[c[1]].flags # "FREE"
    BY <2>1 DEF Good, Marked
  <2>3. c[1] \in P /\ c[1] \in Span(c)
    BY <2>1, BlockFacts DEF B, P
  <2>4. c[1] # p
    <3>1. p \in Span(<<p, o>>)
      BY <1>2, StartsInside
    <3>2. c[1] = p => c = <<p, o>>
      BY <1>9, <2>1, <2>3, <3>1, SameBlock DEF B
    <3> QED
      BY <2>1, <3>2
  <2> QED
    BY <1>2, <1>7, <2>2, <2>3, <2>4
<1>12. \A c \in left : new[c[1]] = page[c[1]]
  BY <1>5, <1>11
<1>13. Marked(new, G, left)
  <2>1. ASSUME NEW j \in Orders, NEW x \in G[j] PROVE new[x].flags = "FREE" /\ new[x].order = j
    <3>1. CASE j = k /\ x = M
      BY <1>2, <1>5, <3>1
    <3>2. CASE ~ (j = k /\ x = M)
      <4>1. x \in F[j] /\ (j \in o..(k - 1) => x # Met(p, o, j))
        BY <1>6, <3>2
      <4>2. x \in P /\ page[x].flags = "FREE" /\ page[x].order = j
        <5>1. F[j] \subseteq P
          BY DEF Good, Types, P
        <5> QED
          BY <4>1, <5>1 DEF Good, Marked
      <4>3. x \notin met
        BY <1>3, <4>1, <4>2, Zenon DEF met
      <4>4. x # M
        BY <1>2, <4>2, <4>3
      <4> QED
        BY <1>5, <4>2, <4>3, <4>4
    <3> QED
      BY <3>1, <3>2
  <2> QED
    BY <1>11, <1>12, <2>1 DEF Marked
<1>14. Placed(P, C)
  <2>1. /\ \A b \in B : Aligned(b[1], b[2]) /\ Span(b) \subseteq P
        /\ \A b, c \in B : b # c => Span(b) \cap Span(c) = {}
    BY DEF Good, Placed, B, P
  <2>2. PagesOf(R) \subseteq P
    BY <1>2, <2>1 DEF PagesOf
  <2>3. ASSUME NEW c \in B, c \notin R PROVE Span(c) \cap Span(<<M, k>>) = {}
    <3>1. \A d \in R : Span(c) \cap Span(d) = {}
      BY <1>2, <2>1, <2>3
    <3> QED
      BY <1>2, <3>1 DEF PagesOf
  <2>4. Aligned(<<M, k>>[1], <<M, k>>[2]) /\ Span(<<M, k>>) \subseteq P
    BY <1>2, <2>2
  <2>5. \A b \in C : Aligned(b[1], b[2]) /\ Span(b) \subseteq P
    BY <1>4, <2>1, <2>4
  <2>6. \A b, c \in C : b # c => Span(b) \cap Span(c) = {}
    BY <1>4, <2>1, <2>3
  <2> QED
    BY <2>5, <2>6 DEF Placed
<1>15. Honest(new, G, left)
  <2> SUFFICES ASSUME NEW q \in P, new[q].flags = "FREE"
               PROVE  \/ q \in G[new[q].order]
                      \/ new[q].order = 0 /\ \E b \in C : b[2] # 0 /\ q \in Span(b)
    BY <1>5 DEF Honest, C
  <2>0. <<M, k>> \in C /\ <<M, k>>[2] = k
    BY <1>4
  <2>1. CASE q = M
    <3>1. k \notin o..(k - 1)
      BY <1>2
    <3>2. M \in G[k]
      BY <1>2, <1>6, <3>1
    <3> QED
      BY <1>5, <2>1, <3>2
  <2>2. CASE q # M /\ q \in met
    <3>1. PICK j \in o..(k - 1) : q = Met(p, o, j)
      BY <2>2 DEF met
    <3>2. k # 0
      BY <1>2
    <3>3. q \in Span(<<q, j>>) /\ <<q, j>> \in R
      BY <1>2, <1>3, <1>7, <2>2, <3>1, StartsInside DEF Good, Types, P
    <3>4. q \in Span(<<M, k>>)
      BY <1>2, <3>3 DEF PagesOf
    <3>5. new[q].order = 0
      <4>1. [page[q] EXCEPT !.order = 0].order = 0
        BY <1>8 DEF PageRec
      <4> QED
        BY <1>5, <2>2, <4>1, Zenon
    <3> QED
      BY <2>0, <3>2, <3>4, <3>5
  <2>3. CASE q # M /\ q \notin met
    <3>1. new[q] = page[q]
      BY <1>5, <2>3
    <3>2. \/ q \in F[page[q].order]
          \/ page[q].order = 0 /\ \E b \in B : b[2] # 0 /\ q \in Span(b)
      BY <3>1 DEF Good, Honest, B, P
    <3>3. CASE q \in F[page[q].order]
      <4>1. page[q].order \in Orders
        BY <1>8 DEF PageRec
      <4>2. \A j \in o..(k - 1) : q # Met(p, o, j)
        BY <2>3 DEF met
      <4> QED
        BY <1>6, <3>1, <3>3, <4>1, <4>2
    <3>4. CASE page[q].order = 0 /\ \E b \in B : b[2] # 0 /\ q \in Span(b)
      <4>1. PICK b \in B : b[2] # 0 /\ q \in Span(b)
        BY <3>4
      <4>2. CASE b \notin R
        BY <1>4, <3>1, <3>4, <4>1, <4>2
      <4>3. CASE b \in R
        <5>1. q \in Span(<<M, k>>)
          BY <1>2, <4>1, <4>3 DEF PagesOf
        <5>2. b[2] <= k /\ b[2] \in Nat
          BY <1>2, <4>3 DEF R, Gone
        <5>3. k # 0
          BY <1>2, <4>1, <5>2
        <5> QED
          BY <2>0, <3>1, <3>4, <5>1, <5>3
      <4> QED
        BY <4>2, <4>3
    <3> QED
      BY <3>2, <3>3, <3>4
  <2> QED
    BY <2>1, <2>2, <2>3
<1>16. Coalescent(G)
  <2> SUFFICES ASSUME NEW j \in Orders, j # PMM_MAX_ORDER - 1, NEW x \in G[j], Buddy(x, j) \in G[j]
               PROVE  FALSE
    BY DEF Coalescent
  <2>1. \A y \in F[j] : Buddy(y, j) \notin F[j]
    BY DEF Good, Coalescent
  <2>2. j = k
    BY <1>6, <2>1
  <2>3. G[k] = F[k] \cup {M}
    BY <1>2, <1>6
  <2>4. Buddy(M, k) \notin F[k]
    BY <2>2 DEF Stops, Met, M
  <2>5. Buddy(M, k) # M /\ Buddy(Buddy(M, k), k) = M
    <3>1. IsPair(M, Buddy(M, k), k) /\ Buddy(Buddy(M, k), k) = M
      BY <1>2, BuddyIs
    <3>2. Pow2[k] \in Nat /\ Pow2[k] > 0
      BY <1>2, Pow
    <3> QED
      BY <1>2, <3>1, <3>2 DEF IsPair
  <2>6. x \in F[k] /\ Buddy(x, k) = M
    BY <2>1, <2>2, <2>3, <2>4, <2>5
  <2>7. Buddy(Buddy(x, k), k) = x
    BY <1>2, <2>6, FreeFacts, BuddyIs, Zenon
  <2> QED
    BY <2>4, <2>6, <2>7
<1>17. Good(new, G, left)
  BY <1>5, <1>10, <1>13, <1>14, <1>15, <1>16 DEF Good, C
<1> QED
  BY <1>12, <1>17 DEF new, G, left

\* The pages of the block that was freed are free, and no other changes sides.
LEMMA MergePages ==
    ASSUME NEW page, NEW F, NEW held, Good(page, F, held), NEW p, NEW o, <<p, o>> \in held,
           NEW k, Stops(page, F, p, o, k)
    PROVE  PagesOf(FreeSet(MergedFree(F, p, o, k))) = PagesOf(FreeSet(F)) \cup Span(<<p, o>>)
<1>0. MergedBlocks(F, held, p, o, k)
  BY MergeFree
<1> DEFINE R == Gone(p, o, k)
           n == <<Manager(p, o, k), k>>
<1>1. FreeSet(MergedFree(F, p, o, k)) = (FreeSet(F) \ R) \cup {n}
  BY <1>0 DEF MergedBlocks
<1>2. Span(n) = PagesOf(R)
  BY MergeIs DEF MergeFacts
<1>3. <<p, o>> \in R
  BY DEF Gone
<1>4. \A c \in R : c = <<p, o>> \/ c \in FreeSet(F)
  <2>1. ASSUME NEW j \in o..(k - 1) PROVE <<Met(p, o, j), j>> \in FreeSet(F)
    <3>1. j \in Orders
      BY MergeIs, Zenon DEF MergeFacts
    <3>2. Met(p, o, j) \in F[j]
      BY DEF Stops
    <3> QED
      BY <3>1, <3>2, InFreeSet
  <2> QED
    BY <2>1 DEF Gone
<1> HIDE DEF R, n
<1> QED
  BY <1>1, <1>2, <1>3, <1>4 DEF PagesOf

-----------------------------------------------------------------------------
(* Allocating a block. *)

\* The pages and the free blocks after a block of order k was split down to order o.
SplitPages(page, t, o, k) ==
    [q \in DOMAIN page |->
        IF q = t THEN [flags |-> "USED", ref_count |-> 1, order |-> o]
        ELSE IF q \in {Buddy(t, j) : j \in o..(k - 1)}
        THEN [flags |-> "FREE", ref_count |-> 0, order |-> CHOOSE j \in o..(k - 1) : Buddy(t, j) = q]
        ELSE page[q]]
SplitFree(F, t, o, k) ==
    [j \in Orders |-> IF j \in o..(k - 1) THEN F[j] \cup {Buddy(t, j)}
                      ELSE IF j = k THEN F[j] \ {t}
                      ELSE F[j]]

\* The parts of the block: the one that is kept and the halves that are not needed.
Pieces(t, o, k) == {<<t, o>>} \cup {<<Buddy(t, j), j>> : j \in o..(k - 1)}

\* The facts about a split that the parts of the invariant need.
SplitFacts(page, F, held, t, o, k) ==
    /\ t \in DOMAIN page /\ t \in Nat /\ o \in Nat /\ k \in Nat /\ Aligned(t, k) /\ Aligned(t, o)
    /\ page[t].flags = "FREE"
    /\ <<t, k>> \in Blocks(F, held) /\ t \in Span(<<t, k>>)
    /\ Span(<<t, k>>) = PagesOf(Pieces(t, o, k))
    /\ \A b, c \in Pieces(t, o, k) : b # c => Span(b) \cap Span(c) = {}
    /\ \A j \in o..(k - 1) : /\ j \in Orders /\ j \in Nat /\ Buddy(t, j) \in Nat /\ Buddy(t, j) # t
                             /\ Aligned(Buddy(t, j), j) /\ Buddy(t, j) \in Span(<<t, k>>)
                             /\ Buddy(Buddy(t, j), j) = t
                             /\ (CHOOSE i \in o..(k - 1) : Buddy(t, i) = Buddy(t, j)) = j

\* A free block is the union of what is kept of it and the halves that are not.
LEMMA SplitIs ==
    ASSUME NEW page, NEW F, NEW held, Good(page, F, held),
           NEW o \in Orders, NEW k \in Orders, o <= k, NEW t \in F[k]
    PROVE  SplitFacts(page, F, held, t, o, k)
<1>1. /\ <<t, k>> \in Blocks(F, held) /\ t \in DOMAIN page /\ t \in Nat /\ Aligned(t, k)
      /\ page[t].flags = "FREE"
  BY FreeFacts
<1>2. o \in Nat /\ k \in Nat
  BY OrderFacts
<1>3. /\ Aligned(t, o) /\ Manager(t, o, k) = t
      /\ \A j \in o..(k - 1) : Met(t, o, j) = Buddy(t, j) /\ Buddy(t, j) = t + Pow2[j]
  <2>1. k \in o..k
    BY <1>2
  <2> QED
    BY <1>1, <1>2, <2>1, ManagerStays
<1>4. t \in Span(<<t, k>>)
  BY <1>1, <1>2, StartsInside
<1>5. Span(<<t, k>>) = PagesOf(Pieces(t, o, k))
  <2>1. Span(<<t, k>>) = Span(<<t, o>>) \cup UNION {Span(<<Met(t, o, j), j>>) : j \in o..(k - 1)}
    BY <1>1, <1>2, <1>3, Chain DEF Parts
  <2>2. {Span(<<Met(t, o, j), j>>) : j \in o..(k - 1)} = {Span(<<Buddy(t, j), j>>) : j \in o..(k - 1)}
    BY <1>3, Zenon
  <2>3. PagesOf(Pieces(t, o, k)) = Span(<<t, o>>) \cup UNION {Span(<<Buddy(t, j), j>>) : j \in o..(k - 1)}
    BY Zenon DEF PagesOf, Pieces
  <2> QED
    BY <2>1, <2>2, <2>3, Zenon
<1>6. ASSUME NEW j \in o..(k - 1)
      PROVE  /\ j \in Orders /\ j \in Nat /\ Buddy(t, j) \in Nat /\ Buddy(t, j) # t
             /\ Aligned(Buddy(t, j), j) /\ Buddy(t, j) \in Span(<<Buddy(t, j), j>>)
             /\ Buddy(t, j) \in Span(<<t, k>>)
             /\ Buddy(Buddy(t, j), j) = t
             /\ (CHOOSE i \in o..(k - 1) : Buddy(t, i) = Buddy(t, j)) = j
  <2>1. j \in Orders /\ j \in Nat
    BY <1>2, SizesAssumption DEF Orders
  <2>2. Pow2[j] \in Nat /\ Pow2[j] > 0
    BY <2>1, Pow
  <2>3. Buddy(t, j) \in Nat /\ Buddy(t, j) # t
    BY <1>1, <1>3, <2>2
  <2>4. Aligned(Buddy(t, j), j) /\ Buddy(Buddy(t, j), j) = t
    <3>1. Aligned(t, j)
      BY <1>1, <1>2, <2>1, AlignedLess
    <3> QED
      BY <1>1, <2>1, <3>1, BuddyIs DEF IsPair
  <2>5. Buddy(t, j) \in Span(<<Buddy(t, j), j>>)
    BY <2>1, <2>3, StartsInside
  <2>6. Buddy(t, j) \in Span(<<t, k>>)
    BY <1>5, <2>5 DEF PagesOf, Pieces
  <2>7. ASSUME NEW i \in o..(k - 1), Buddy(t, i) = Buddy(t, j) PROVE i = j
    <3>0. i \in Nat /\ Pow2[i] \in Nat /\ Pow2[i] > 0
      BY <1>2, Pow
    <3>1. Pow2[i] = Pow2[j]
      BY <1>1, <1>3, <2>2, <2>7, <3>0
    <3>2. ~ (i < j) /\ ~ (j < i)
      BY <2>1, <2>2, <3>0, <3>1, PowMore
    <3> QED
      BY <2>1, <3>0, <3>2
  <2>8. (CHOOSE i \in o..(k - 1) : Buddy(t, i) = Buddy(t, j)) = j
    BY <2>7
  <2> QED
    BY <2>1, <2>3, <2>4, <2>5, <2>6, <2>8
<1>7. ASSUME NEW b \in Pieces(t, o, k), NEW c \in Pieces(t, o, k), b # c PROVE Span(b) \cap Span(c) = {}
  <2>1. \A j \in o..(k - 1) : Span(<<t, o>>) \cap Span(<<Buddy(t, j), j>>) = {}
    BY <1>1, <1>2, <1>3, PartsApart
  <2>2. \A j \in o..(k - 1) : \A i \in o..(j - 1) : Span(<<Buddy(t, i), i>>) \cap Span(<<Buddy(t, j), j>>) = {}
    <3>1. ASSUME NEW j \in o..(k - 1), NEW i \in o..(j - 1)
          PROVE  Span(<<Met(t, o, i), i>>) \cap Span(<<Met(t, o, j), j>>) = {} /\ i \in o..(k - 1)
      <4>1. j \in Nat /\ j >= o /\ i \in o..(k - 1)
        BY <1>2
      <4> QED
        BY <1>1, <1>2, <1>3, <4>1, PartsApart, Zenon
    <3> QED
      BY <1>3, <3>1, Zenon
  <2>3. CASE b = <<t, o>>
    BY <1>7, <2>1, <2>3 DEF Pieces
  <2>4. CASE c = <<t, o>>
    BY <1>7, <2>1, <2>4 DEF Pieces
  <2>5. CASE b # <<t, o>> /\ c # <<t, o>>
    <3>1. PICK i \in o..(k - 1) : b = <<Buddy(t, i), i>>
      BY <2>5 DEF Pieces
    <3>2. PICK j \in o..(k - 1) : c = <<Buddy(t, j), j>>
      BY <2>5 DEF Pieces
    <3>3. i # j
      BY <1>7, <3>1, <3>2
    <3>4. i \in o..(j - 1) \/ j \in o..(i - 1)
      BY <1>2, <3>3
    <3> QED
      BY <2>2, <3>1, <3>2, <3>4
  <2> QED
    BY <2>3, <2>4, <2>5
<1> QED
  BY <1>1, <1>2, <1>3, <1>4, <1>5, <1>6, <1>7, Zenon DEF SplitFacts

\* The blocks afterwards.
SplitBlocks(F, held, t, o, k) ==
    /\ FreeSet(SplitFree(F, t, o, k)) = (FreeSet(F) \ {<<t, k>>}) \cup (Pieces(t, o, k) \ {<<t, o>>})
    /\ Blocks(SplitFree(F, t, o, k), held \cup {<<t, o>>})
         = (Blocks(F, held) \ {<<t, k>>}) \cup Pieces(t, o, k)

\* The free lists of a split hold the halves instead of the whole.
LEMMA SplitFreeIs ==
    ASSUME NEW page, NEW F, NEW held, Good(page, F, held),
           NEW o \in Orders, NEW k \in Orders, o <= k, NEW t \in F[k]
    PROVE  SplitBlocks(F, held, t, o, k)
<1> DEFINE G == SplitFree(F, t, o, k)
           whole == <<t, k>>
           kept == <<t, o>>
           rest == {<<Buddy(t, j), j>> : j \in o..(k - 1)}
<1>1. SplitFacts(page, F, held, t, o, k)
  BY SplitIs
<1>2. o \in Nat /\ k \in Nat /\ page[t].flags = "FREE"
  BY <1>1 DEF SplitFacts
<1>3. \A j \in o..(k - 1) : j \in Orders /\ j # k /\ Buddy(t, j) # t
  BY <1>1, <1>2 DEF SplitFacts
<1>4. \A j \in Orders : G[j] = IF j \in o..(k - 1) THEN F[j] \cup {Buddy(t, j)}
                               ELSE IF j = k THEN F[j] \ {t} ELSE F[j]
  BY DEF SplitFree
<1>5. Pieces(t, o, k) = {kept} \cup rest /\ kept \notin rest
  BY <1>3 DEF Pieces
<1>6. \A c : c \in rest <=> \E j \in o..(k - 1) : c = <<Buddy(t, j), j>>
  OBVIOUS
<1> HIDE DEF G, rest
<1>7. ASSUME NEW c \in FreeSet(G) PROVE c \in (FreeSet(F) \ {whole}) \cup rest
  <2>1. PICK j \in Orders : \E x \in G[j] : c = <<x, j>>
    BY InFreeSet
  <2>2. PICK x \in G[j] : c = <<x, j>>
    BY <2>1
  <2>3. CASE c \in rest
    BY <2>3
  <2>4. CASE c \notin rest
    <3>1. x \in F[j] /\ (j = k => x # t)
      BY <1>2, <1>3, <1>4, <1>6, <2>2, <2>4, Zenon
    <3>2. c \in FreeSet(F)
      BY <2>2, <3>1, InFreeSet
    <3> QED
      BY <2>2, <3>1, <3>2
  <2> QED
    BY <2>3, <2>4
<1>8. ASSUME NEW c \in FreeSet(F), c # whole PROVE c \in FreeSet(G)
  <2>1. PICK j \in Orders : \E x \in F[j] : c = <<x, j>>
    BY InFreeSet
  <2>2. PICK x \in F[j] : c = <<x, j>>
    BY <2>1
  <2>3. x \in G[j]
    BY <1>4, <1>8, <2>2, Zenon
  <2> QED
    BY <2>2, <2>3, InFreeSet
<1>9. ASSUME NEW c \in rest PROVE c \in FreeSet(G)
  <2>1. PICK j \in o..(k - 1) : c = <<Buddy(t, j), j>>
    BY <1>6
  <2>2. j \in Orders /\ Buddy(t, j) \in G[j]
    BY <1>3, <1>4, Zenon
  <2> QED
    BY <2>1, <2>2, InFreeSet
<1>10. FreeSet(G) = (FreeSet(F) \ {whole}) \cup rest
  <2>1. whole \notin FreeSet(G)
    <3>1. k \notin o..(k - 1)
      BY <1>2
    <3>2. t \notin G[k]
      BY <1>4, <3>1, Zenon
    <3> QED
      BY <3>2, InFreeSet
  <2> QED
    BY <1>7, <1>8, <1>9, <2>1
<1>11. whole \notin held
  BY <1>2 DEF Good, Marked
<1>12. Blocks(G, held \cup {kept}) = (Blocks(F, held) \ {whole}) \cup ({kept} \cup rest)
  <2> HIDE DEF whole, kept
  <2> QED
    BY <1>10, <1>11 DEF Blocks
<1>13. FreeSet(G) = (FreeSet(F) \ {whole}) \cup (Pieces(t, o, k) \ {kept})
  <2> HIDE DEF whole, kept
  <2> QED
    BY <1>5, <1>10
<1> QED
  BY <1>5, <1>12, <1>13, Zenon DEF SplitBlocks, G

\* Allocating a block keeps the invariant; no held block changes.
LEMMA SplitGood ==
    ASSUME NEW page, NEW F, NEW held, Good(page, F, held),
           NEW o \in Orders, NEW k \in Orders, o <= k, NEW t \in F[k]
    PROVE  /\ Good(SplitPages(page, t, o, k), SplitFree(F, t, o, k), held \cup {<<t, o>>})
           /\ \A c \in held : c[1] # t /\ SplitPages(page, t, o, k)[c[1]] = page[c[1]]
<1> DEFINE G == SplitFree(F, t, o, k)
           whole == <<t, k>>
           kept == <<t, o>>
           Q == Pieces(t, o, k)
           halves == {Buddy(t, j) : j \in o..(k - 1)}
           new == SplitPages(page, t, o, k)
           P == DOMAIN page
           more == held \cup {<<t, o>>}
           B == Blocks(F, held)
           C == Blocks(G, more)
           used == [flags |-> "USED", ref_count |-> 1, order |-> o]
           half(j) == [flags |-> "FREE", ref_count |-> 0, order |-> j]
<1>1. SplitFacts(page, F, held, t, o, k)
  BY SplitIs
<1>2. /\ t \in P /\ t \in Nat /\ o \in Nat /\ k \in Nat /\ Aligned(t, k) /\ Aligned(t, o) /\ page[t].flags = "FREE"
      /\ whole \in B /\ t \in Span(whole) /\ Span(whole) = PagesOf(Q)
      /\ \A b, c \in Q : b # c => Span(b) \cap Span(c) = {}
  BY <1>1 DEF SplitFacts
<1>3. \A j \in o..(k - 1) : /\ j \in Orders /\ j \in Nat /\ Buddy(t, j) \in Nat /\ Buddy(t, j) # t
                            /\ Aligned(Buddy(t, j), j) /\ Buddy(t, j) \in Span(whole)
                            /\ Buddy(Buddy(t, j), j) = t
                            /\ (CHOOSE i \in o..(k - 1) : Buddy(t, i) = Buddy(t, j)) = j
  BY <1>1 DEF SplitFacts
<1>4. C = (B \ {whole}) \cup Q
  BY SplitFreeIs DEF SplitBlocks
<1>5. /\ DOMAIN new = P /\ new = [q \in P |-> new[q]] /\ new[t] = used
      /\ \A j \in o..(k - 1) : Buddy(t, j) \in P => new[Buddy(t, j)] = half(j)
      /\ \A q \in P : q # t /\ q \notin halves => new[q] = page[q]
  <2>1. /\ DOMAIN new = P /\ new = [q \in P |-> new[q]]
        /\ \A q \in P : new[q] = IF q = t THEN used
                                 ELSE IF q \in halves THEN half(CHOOSE j \in o..(k - 1) : Buddy(t, j) = q)
                                 ELSE page[q]
    BY DEF SplitPages
  <2> HIDE DEF new, P, used, half
  <2> QED
    BY <1>2, <1>3, <2>1
<1>6. /\ \A j \in Orders : G[j] = IF j \in o..(k - 1) THEN F[j] \cup {Buddy(t, j)}
                                  ELSE IF j = k THEN F[j] \ {t} ELSE F[j]
      /\ G = [j \in Orders |-> G[j]]
  BY DEF SplitFree
<1>7. \A q \in P : page[q] \in PageRec
  BY DEF Good, Types
<1>8. \A c : c \in Q <=> c = kept \/ \E j \in o..(k - 1) : c = <<Buddy(t, j), j>>
  BY DEF Pieces
<1>9. Span(whole) \subseteq P /\ P \subseteq Nat
  BY <1>2 DEF Good, Placed, Types
<1>10. halves \subseteq P
  BY <1>3, <1>9
<1>11. used \in PageRec /\ used.flags = "USED" /\ \A j \in Orders : half(j) \in PageRec /\ half(j).flags = "FREE" /\ half(j).order = j
  <2>1. Pow2[Width] \in Nat /\ Pow2[Width] > 1
    BY Pow, SizesAssumption
  <2> QED
    BY <2>1 DEF PageRec
<1> HIDE DEF G, Q, halves, new, P, more, B, C, used, half
<1>12. Types(new, G, more)
  <2>1. ASSUME NEW q \in P PROVE new[q] \in PageRec
    <3>1. CASE q = t
      BY <1>5, <1>11, <3>1
    <3>2. CASE q # t /\ q \in halves
      <4>1. PICK j \in o..(k - 1) : q = Buddy(t, j)
        BY <3>2 DEF halves
      <4> QED
        BY <1>3, <1>5, <1>11, <4>1
    <3>3. CASE q # t /\ q \notin halves
      BY <1>5, <1>7, <3>3
    <3> QED
      BY <3>1, <3>2, <3>3
  <2>2. new \in [P -> PageRec]
    BY <1>5, <2>1
  <2>3. \A j \in Orders : F[j] \subseteq P
    BY DEF Good, Types, P
  <2>4. \A j \in Orders : G[j] \subseteq P
    BY <1>3, <1>6, <1>9, <2>3
  <2>5. G \in [Orders -> SUBSET P]
    BY <1>6, <2>4
  <2>6. more \subseteq P \X Orders
    BY <1>2 DEF Good, Types, P, more
  <2> QED
    BY <1>5, <1>9, <2>2, <2>5, <2>6 DEF Types
<1>13. ASSUME NEW c \in B, c # whole PROVE c[1] \in P /\ c[1] \in Span(c) /\ c[1] # t /\ c[1] \notin halves
  <2>1. c[1] \in P /\ c[1] \in Span(c)
    BY BlockFacts DEF B, P
  <2>2. c[1] \notin Span(whole)
    BY <1>2, <1>13, <2>1, SameBlock DEF B
  <2> QED
    BY <1>2, <1>3, <2>1, <2>2 DEF halves
<1>14. whole \notin held /\ held \subseteq B
  BY <1>2 DEF Good, Marked, B, Blocks
<1>15. \A c \in held : c[1] # t /\ new[c[1]] = page[c[1]]
  <2> SUFFICES ASSUME NEW c \in held PROVE c[1] # t /\ new[c[1]] = page[c[1]]
    OBVIOUS
  <2>1. c \in B /\ c # whole
    BY <1>14
  <2> QED
    BY <1>5, <1>13, <2>1
<1>16. Marked(new, G, more)
  <2>1. ASSUME NEW j \in Orders, NEW x \in G[j] PROVE new[x].flags = "FREE" /\ new[x].order = j
    <3>1. CASE j \in o..(k - 1) /\ x = Buddy(t, j)
      BY <1>3, <1>5, <1>9, <1>11, <3>1
    <3>2. CASE ~ (j \in o..(k - 1) /\ x = Buddy(t, j))
      <4>1. x \in F[j] /\ (j = k => x # t)
        BY <1>2, <1>6, <3>2
      <4>2. <<x, j>> \in B /\ page[x].flags = "FREE" /\ page[x].order = j
        BY <4>1, FreeFacts DEF B
      <4>3. <<x, j>> # whole /\ <<x, j>>[1] = x
        BY <4>1
      <4>4. x \in P /\ x # t /\ x \notin halves
        <5> HIDE DEF whole
        <5> DEFINE c == <<x, j>>
        <5> HIDE DEF c
        <5>1. c \in B /\ c # whole /\ c[1] = x
          BY <4>2, <4>3 DEF c
        <5> QED
          BY <1>13, <5>1
      <4> QED
        BY <1>5, <4>2, <4>4
    <3> QED
      BY <3>1, <3>2
  <2>2. \A c \in held : page[c[1]].flags # "FREE"
    BY DEF Good, Marked
  <2>3. new[t].flags # "FREE"
    BY <1>5, <1>11
  <2>4. \A c \in more : new[c[1]].flags # "FREE"
    BY <1>15, <2>2, <2>3 DEF more
  <2> QED
    BY <2>1, <2>4 DEF Marked
<1>17. Placed(P, C)
  <2>1. /\ \A b \in B : Aligned(b[1], b[2]) /\ Span(b) \subseteq P
        /\ \A b, c \in B : b # c => Span(b) \cap Span(c) = {}
    BY DEF Good, Placed, B, P
  <2>2. \A b \in Q : Span(b) \subseteq Span(whole)
    BY <1>2 DEF PagesOf
  <2>3. \A b \in Q : Aligned(b[1], b[2])
    BY <1>2, <1>3, <1>8
  <2> HIDE DEF whole
  <2>4. \A b \in C : Aligned(b[1], b[2]) /\ Span(b) \subseteq P
    BY <1>2, <1>4, <2>1, <2>2, <2>3
  <2>5. \A b \in Q, c \in B : c # whole => Span(b) \cap Span(c) = {}
    BY <1>2, <2>1, <2>2
  <2>6. \A b, c \in C : b # c => Span(b) \cap Span(c) = {}
    BY <1>2, <1>4, <2>1, <2>5
  <2> QED
    BY <2>4, <2>6 DEF Placed
<1>18. Honest(new, G, more)
  <2> SUFFICES ASSUME NEW q \in P, new[q].flags = "FREE"
               PROVE  \/ q \in G[new[q].order]
                      \/ new[q].order = 0 /\ \E b \in C : b[2] # 0 /\ q \in Span(b)
    BY <1>5 DEF Honest, C
  <2>1. q # t
    BY <1>5, <1>11
  <2>2. CASE q \in halves
    <3>1. PICK j \in o..(k - 1) : q = Buddy(t, j)
      BY <2>2 DEF halves
    <3>2. new[q].order = j /\ j \in Orders
      BY <1>3, <1>5, <1>11, <3>1
    <3>3. q \in G[j]
      BY <1>6, <3>1, <3>2
    <3> QED
      BY <3>2, <3>3
  <2>3. CASE q \notin halves
    <3>1. new[q] = page[q]
      BY <1>5, <2>1, <2>3
    <3>2. \/ q \in F[page[q].order]
          \/ page[q].order = 0 /\ \E b \in B : b[2] # 0 /\ q \in Span(b)
      BY <3>1 DEF Good, Honest, B, P
    <3>3. CASE q \in F[page[q].order]
      <4>1. page[q].order \in Orders
        BY <1>7 DEF PageRec
      <4> QED
        BY <1>6, <2>1, <3>1, <3>3, <4>1
    <3>4. CASE page[q].order = 0 /\ \E b \in B : b[2] # 0 /\ q \in Span(b)
      <4>1. PICK b \in B : b[2] # 0 /\ q \in Span(b)
        BY <3>4
      <4>2. CASE b # whole
        BY <1>4, <3>1, <3>4, <4>1, <4>2
      <4>3. CASE b = whole
        <5>1. PICK c \in Q : q \in Span(c)
          BY <1>2, <4>1, <4>3 DEF PagesOf
        <5>2. c[2] # 0
          <6>1. SUFFICES ASSUME c[2] = 0 PROVE FALSE
            OBVIOUS
          <6>2. c[1] \in {t} \cup halves /\ c[1] \in Nat
            BY <1>2, <1>3, <1>8 DEF halves
          <6>3. Pow2[0] = 1
            BY Pow
          <6>4. Span(c) = c[1]..(c[1] + 1 - 1)
            BY <6>1, <6>3 DEF Span
          <6>5. q = c[1]
            BY <5>1, <6>2, <6>4
          <6> QED
            BY <2>1, <2>3, <6>2, <6>5
        <5> QED
          BY <1>4, <3>1, <3>4, <5>1, <5>2
      <4> QED
        BY <4>2, <4>3
    <3> QED
      BY <3>2, <3>3, <3>4
  <2> QED
    BY <2>2, <2>3
<1>19. Coalescent(G)
  <2> SUFFICES ASSUME NEW j \in Orders, j # PMM_MAX_ORDER - 1, NEW x \in G[j], Buddy(x, j) \in G[j]
               PROVE  FALSE
    BY DEF Coalescent
  <2>1. \A y \in F[j] : Buddy(y, j) \notin F[j]
    BY DEF Good, Coalescent
  <2>2. j \in o..(k - 1)
    BY <1>6, <2>1
  <2>3. G[j] = F[j] \cup {Buddy(t, j)} /\ j # k /\ j \in Nat
    BY <1>2, <1>6, <2>2
  <2>4. t \notin F[j]
    <3>1. t \in F[j] => page[t].order = j
      BY DEF Good, Marked
    <3>2. page[t].order = k
      BY DEF Good, Marked
    <3> QED
      BY <2>3, <3>1, <3>2
  <2>5. Buddy(t, j) # t /\ Buddy(Buddy(t, j), j) = t
    BY <1>3, <2>2
  <2>6. x # Buddy(t, j)
    BY <2>3, <2>4, <2>5
  <2>7. x \in F[j] /\ Buddy(x, j) = Buddy(t, j)
    BY <2>1, <2>3, <2>6
  <2>8. Buddy(Buddy(x, j), j) = x
    BY <2>3, <2>7, FreeFacts, BuddyIs, Zenon
  <2> QED
    BY <2>4, <2>5, <2>7, <2>8
<1>20. Good(new, G, more)
  BY <1>5, <1>12, <1>16, <1>17, <1>18, <1>19 DEF Good, C
<1> QED
  BY <1>15, <1>20 DEF new, G, more

\* The pages of the block that was allocated are no longer free, and no other changes sides.
LEMMA SplitLeaves ==
    ASSUME NEW page, NEW F, NEW held, Good(page, F, held),
           NEW o \in Orders, NEW k \in Orders, o <= k, NEW t \in F[k]
    PROVE  /\ PagesOf(FreeSet(F)) = PagesOf(FreeSet(SplitFree(F, t, o, k))) \cup Span(<<t, o>>)
           /\ PagesOf(FreeSet(SplitFree(F, t, o, k))) \cap Span(<<t, o>>) = {}
<1> DEFINE Q == Pieces(t, o, k)
           whole == <<t, k>>
           kept == <<t, o>>
           G == FreeSet(SplitFree(F, t, o, k))
<1>0. SplitBlocks(F, held, t, o, k)
  BY SplitFreeIs
<1>1. G = (FreeSet(F) \ {whole}) \cup (Q \ {kept})
  BY <1>0 DEF SplitBlocks
<1>2. Span(whole) = PagesOf(Q) /\ \A b, c \in Q : b # c => Span(b) \cap Span(c) = {}
  BY SplitIs DEF SplitFacts
<1>3. kept \in Q
  BY DEF Pieces
<1>4. whole \in FreeSet(F)
  BY InFreeSet
<1>5. \A b, c \in FreeSet(F) : b # c => Span(b) \cap Span(c) = {}
  BY DEF Good, Placed, Blocks
<1> HIDE DEF Q, whole, kept, G
<1>6. PagesOf(FreeSet(F)) = PagesOf(G) \cup Span(kept)
  BY <1>1, <1>2, <1>3, <1>4 DEF PagesOf
<1>7. PagesOf(G) \cap Span(kept) = {}
  <2>1. Span(kept) \subseteq Span(whole)
    BY <1>2, <1>3 DEF PagesOf
  <2>2. \A b \in G : Span(b) \cap Span(kept) = {}
    BY <1>1, <1>2, <1>3, <1>4, <1>5, <2>1
  <2> QED
    BY <2>2 DEF PagesOf
<1> QED
  BY <1>6, <1>7 DEF kept, G

-----------------------------------------------------------------------------
(* The functions of dll.c. *)


\* A node of a list knows its neighbours.
LEMMA Neighbours ==
    ASSUME NEW Nodes, NEW head \in Nodes, NEW l \in Links(Nodes), NEW s,
           Elements(Nodes, head, s), IsList(l, head, s)
    PROVE  /\ Len(s) \in Nat
           /\ \A i \in 0..Len(s) + 1 : At(head, s, i) \in Nodes
           /\ \A i, j \in 0..Len(s) : At(head, s, i) = At(head, s, j) => i = j
           /\ \A i \in 1..Len(s) : At(head, s, i) = s[i] /\ s[i] # head
           /\ At(head, s, 0) = head /\ At(head, s, Len(s) + 1) = head
<1>1. Len(s) \in Nat /\ s \in Seq(Nodes \ {head})
  BY DEF Elements
<1>2. \A i \in 1..Len(s) : s[i] \in Nodes /\ s[i] # head
  BY <1>1
<1> QED
  BY <1>1, <1>2 DEF At, Elements

\* dll_init makes an empty list.
THEOREM DllInit ==
    ASSUME NEW Nodes, NEW head \in Nodes, NEW l \in Links(Nodes)
    PROVE  IsList(dll_init(l, head), head, <<>>)
BY DEF Links, IsList, At, dll_init

\* dll_empty is true of the empty list and of no other.
THEOREM DllEmpty ==
    ASSUME NEW Nodes, NEW head \in Nodes, NEW l \in Links(Nodes), NEW s,
           Elements(Nodes, head, s), IsList(l, head, s)
    PROVE  dll_empty(l, head) <=> s = <<>>
<1>1. Len(s) \in Nat /\ s \in Seq(Nodes \ {head})
  BY DEF Elements
<1>2. CASE s = <<>>
  BY <1>1, <1>2 DEF IsList, At, dll_empty
<1>3. CASE s # <<>>
  <2>1. Len(s) >= 1 /\ s[1] # head
    BY <1>1, <1>3
  <2>2. l.next[head] = s[1]
    <3>1. l.next[At(head, s, 0)] = At(head, s, 0 + 1)
      BY <1>1 DEF IsList
    <3>2. At(head, s, 0) = head /\ At(head, s, 0 + 1) = s[1]
      BY <1>1, <2>1 DEF At
    <3> QED
      BY <3>1, <3>2
  <2> QED
    BY <1>3, <2>1, <2>2 DEF dll_empty
<1> QED
  BY <1>2, <1>3

\* dll_delete takes the i-th element out of the list and leaves the rest in order.
THEOREM DllDelete ==
    ASSUME NEW Nodes, NEW head \in Nodes, NEW l \in Links(Nodes), NEW s,
           Elements(Nodes, head, s), IsList(l, head, s), NEW i \in 1..Len(s)
    PROVE  IsList(dll_delete(l, s[i]), head, Removed(s, i))
<1> DEFINE d == dll_delete(l, s[i])
           r == Removed(s, i)
           A(k) == At(head, s, k)
           B(k) == At(head, r, k)
<1>1. /\ Len(s) \in Nat
      /\ \A k \in 0..Len(s) + 1 : A(k) \in Nodes
      /\ \A j, k \in 0..Len(s) : A(j) = A(k) => j = k
      /\ A(0) = head /\ A(Len(s) + 1) = head
      /\ A(i) = s[i]
  BY Neighbours
<1>2. Len(r) = Len(s) - 1
  BY <1>1 DEF Removed
<1>3. \A k \in 0..Len(s) : B(k) = IF k < i THEN A(k) ELSE A(k + 1)
  BY <1>1, <1>2 DEF Removed, At
<1>4. \A k \in 0..Len(s) : l.next[A(k)] = A(k + 1) /\ l.prev[A(k + 1)] = A(k)
  BY DEF IsList
<1>5. l.prev[s[i]] = A(i - 1) /\ l.next[s[i]] = A(i + 1)
  <2>1. i - 1 \in 0..Len(s) /\ i \in 0..Len(s) /\ (i - 1) + 1 = i
    BY <1>1
  <2>2. l.next[A(i)] = A(i + 1) /\ l.prev[A((i - 1) + 1)] = A(i - 1)
    BY <1>4, <2>1
  <2> QED
    BY <1>1, <2>1, <2>2
<1>6. /\ d.next = [l.next EXCEPT ![A(i - 1)] = A(i + 1)]
      /\ d.prev = [l.prev EXCEPT ![A(i + 1)] = A(i - 1)]
  BY <1>5 DEF dll_delete
<1>7. l.next \in [Nodes -> Nodes] /\ l.prev \in [Nodes -> Nodes]
  BY DEF Links
<1>8. ASSUME NEW k \in 0..Len(r)
      PROVE  d.next[B(k)] = B(k + 1) /\ d.prev[B(k + 1)] = B(k)
  <2>1. CASE k = i - 1
    <3>1. B(k) = A(i - 1) /\ B(k + 1) = A(i + 1)
      BY <1>1, <1>2, <1>3, <2>1
    <3> QED
      BY <1>1, <1>6, <1>7, <3>1, <2>1
  <2>2. CASE k < i - 1
    <3>1. B(k) = A(k) /\ B(k + 1) = A(k + 1)
      BY <1>1, <1>2, <1>3, <2>2
    <3>2. A(k) # A(i - 1) /\ A(k + 1) # A(i + 1)
      BY <1>1, <1>2, <2>2
    <3> QED
      BY <1>1, <1>2, <1>4, <1>6, <1>7, <3>1, <3>2, <2>2, SMTT(20)
  <2>3. CASE k > i - 1
    <3>1. B(k) = A(k + 1) /\ B(k + 1) = A(k + 2)
      BY <1>1, <1>2, <1>3, <2>3
    <3>2. A(k + 1) # A(i - 1) /\ A(k + 2) # A(i + 1)
      BY <1>1, <1>2, <2>3
    <3> QED
      BY <1>1, <1>2, <1>4, <1>6, <1>7, <3>1, <3>2, <2>3, SMTT(20)
  <2> QED
    BY <1>2, <2>1, <2>2, <2>3, SMTT(20)
<1> QED
  BY <1>8 DEF IsList

\* _dll_add puts a node that is not in the list between two neighbours.
LEMMA DllAdd ==
    ASSUME NEW Nodes, NEW head \in Nodes, NEW l \in Links(Nodes), NEW s,
           Elements(Nodes, head, s), IsList(l, head, s),
           NEW new \in Nodes \ {head}, \A j \in 1..Len(s) : s[j] # new,
           NEW i \in 1..Len(s) + 1
    PROVE  IsList(dll_add(l, new, At(head, s, i - 1), At(head, s, i)), head, Inserted(s, i, new))
<1> DEFINE A(k) == At(head, s, k)
           d == dll_add(l, new, A(i - 1), A(i))
           r == Inserted(s, i, new)
           B(k) == At(head, r, k)
<1>1. /\ Len(s) \in Nat
      /\ \A k \in 0..Len(s) + 1 : A(k) \in Nodes
      /\ \A j, k \in 0..Len(s) : A(j) = A(k) => j = k
      /\ A(0) = head /\ A(Len(s) + 1) = head
  BY Neighbours
<1>2. Len(r) = Len(s) + 1
  BY <1>1 DEF Inserted
<1>3. \A k \in 0..Len(s) + 2 : B(k) = IF k < i THEN A(k) ELSE IF k = i THEN new ELSE A(k - 1)
  BY <1>1, <1>2 DEF Inserted, At
<1>4. \A k \in 0..Len(s) : l.next[A(k)] = A(k + 1) /\ l.prev[A(k + 1)] = A(k)
  BY DEF IsList
<1>5. \A k \in 0..Len(s) + 1 : A(k) # new
  BY <1>1 DEF At
<1>6. /\ d.next = [l.next EXCEPT ![A(i - 1)] = new, ![new] = A(i)]
      /\ d.prev = [l.prev EXCEPT ![new] = A(i - 1), ![A(i)] = new]
  BY DEF dll_add
<1>7. l.next \in [Nodes -> Nodes] /\ l.prev \in [Nodes -> Nodes]
  BY DEF Links
<1>8. A(i - 1) \in Nodes /\ A(i) \in Nodes /\ A(i - 1) # new /\ A(i) # new
  BY <1>1, <1>5
<1>9. ASSUME NEW k \in 0..Len(r)
      PROVE  d.next[B(k)] = B(k + 1) /\ d.prev[B(k + 1)] = B(k)
  <2>1. CASE k = i - 1
    <3>1. B(k) = A(i - 1) /\ B(k + 1) = new
      BY <1>1, <1>2, <1>3, <2>1
    <3> QED
      BY <1>6, <1>7, <1>8, <3>1
  <2>2. CASE k = i
    <3>1. B(k) = new /\ B(k + 1) = A(i)
      BY <1>1, <1>2, <1>3, <2>2
    <3> QED
      BY <1>6, <1>7, <1>8, <3>1
  <2>3. CASE k < i - 1
    <3>1. B(k) = A(k) /\ B(k + 1) = A(k + 1)
      BY <1>1, <1>2, <1>3, <2>3
    <3>2. A(k) # A(i - 1) /\ A(k + 1) # A(i) /\ A(k) # new /\ A(k + 1) # new
      BY <1>1, <1>2, <1>5, <2>3
    <3>3. k \in 0..Len(s) /\ A(k) \in Nodes /\ A(k + 1) \in Nodes
      BY <1>1, <2>3
    <3> QED
      BY <1>4, <1>6, <1>7, <3>1, <3>2, <3>3, SMTT(20)
  <2>4. CASE k > i
    <3>1. B(k) = A(k - 1) /\ B(k + 1) = A(k)
      BY <1>1, <1>2, <1>3, <2>4
    <3>2. A(k - 1) # A(i - 1) /\ A(k) # A(i) /\ A(k - 1) # new /\ A(k) # new
      BY <1>1, <1>2, <1>5, <2>4
    <3>3. k - 1 \in 0..Len(s) /\ (k - 1) + 1 = k /\ A(k - 1) \in Nodes /\ A(k) \in Nodes
      BY <1>1, <1>2, <2>4
    <3>4. l.next[A(k - 1)] = A(k) /\ l.prev[A(k)] = A(k - 1)
      BY <1>4, <3>3
    <3> QED
      BY <1>6, <1>7, <3>1, <3>2, <3>3, <3>4
  <2> HIDE DEF A, B, d, r
  <2>5. k = i - 1 \/ k = i \/ k < i - 1 \/ k > i
    BY <1>1, <1>2
  <2> QED
    BY <2>1, <2>2, <2>3, <2>4, <2>5, Zenon
<1> QED
  BY <1>9 DEF IsList

\* dll_add_after and dll_add_before on the head of a list put a node in front of
\* its first and behind its last element.
THEOREM DllAddEnds ==
    ASSUME NEW Nodes, NEW head \in Nodes, NEW l \in Links(Nodes), NEW s,
           Elements(Nodes, head, s), IsList(l, head, s),
           NEW new \in Nodes \ {head}, \A j \in 1..Len(s) : s[j] # new
    PROVE  /\ IsList(dll_add_after(l, head, new), head, Inserted(s, 1, new))
           /\ IsList(dll_add_before(l, head, new), head, Inserted(s, Len(s) + 1, new))
<1>1. Len(s) \in Nat /\ At(head, s, 0) = head /\ At(head, s, Len(s) + 1) = head
  BY Neighbours
<1>2. \A k \in 0..Len(s) : /\ l.next[At(head, s, k)] = At(head, s, k + 1)
                           /\ l.prev[At(head, s, k + 1)] = At(head, s, k)
  BY DEF IsList
<1>3. 0 \in 0..Len(s) /\ Len(s) \in 0..Len(s) /\ 1 - 1 = 0 /\ 0 + 1 = 1 /\ (Len(s) + 1) - 1 = Len(s)
  BY <1>1
<1>4. l.next[head] = At(head, s, 1) /\ l.prev[head] = At(head, s, Len(s))
  BY <1>1, <1>2, <1>3
<1>5. /\ IsList(dll_add(l, new, At(head, s, 1 - 1), At(head, s, 1)), head, Inserted(s, 1, new))
      /\ IsList(dll_add(l, new, At(head, s, (Len(s) + 1) - 1), At(head, s, Len(s) + 1)), head,
                Inserted(s, Len(s) + 1, new))
  <2>1. 1 \in 1..Len(s) + 1 /\ Len(s) + 1 \in 1..Len(s) + 1
    BY <1>1
  <2> QED
    BY <2>1, DllAdd
<1> QED
  BY <1>1, <1>3, <1>4, <1>5 DEF dll_add_after, dll_add_before

\* All of it: the list functions act on every list as on the sequence it stands
\* for, for any number of nodes.
THEOREM ListsAreSequences ==
    ASSUME NEW Nodes, NEW head \in Nodes
    PROVE  \A l \in Links(Nodes) : \A s : Elements(Nodes, head, s) /\ IsList(l, head, s) =>
              ActsOnSequence(Nodes, head, l, s)
<1> SUFFICES ASSUME NEW l \in Links(Nodes), NEW s, Elements(Nodes, head, s), IsList(l, head, s)
             PROVE  ActsOnSequence(Nodes, head, l, s)
  OBVIOUS
<1>1. dll_empty(l, head) <=> s = <<>>
  BY DllEmpty
<1>2. \A i \in 1..Len(s) : IsList(dll_delete(l, s[i]), head, Removed(s, i))
  BY DllDelete
<1>3. \A new \in Nodes \ {head} : (\A j \in 1..Len(s) : s[j] # new) =>
          /\ IsList(dll_add_after(l, head, new), head, Inserted(s, 1, new))
          /\ IsList(dll_add_before(l, head, new), head, Inserted(s, Len(s) + 1, new))
  BY DllAddEnds
<1> QED
  BY <1>1, <1>2, <1>3 DEF ActsOnSequence

=============================================================================
