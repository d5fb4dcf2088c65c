----------------------------- MODULE PmmProofs -----------------------------
(***************************************************************************)
(* The buddy allocator hands out no page twice and loses none, trusts only *)
(* flags that tell the truth, and fails only when there is no room: for    *)
(* any memory map, any number of orders and any sizes.  BuddyProofs has    *)
(* the algorithm on sets of blocks; here are the lists, the counters, the  *)
(* users of the blocks and pmm_init.                                       *)
(***************************************************************************)
EXTENDS BuddyProofs

-----------------------------------------------------------------------------
(* The free lists. *)

\* A list of elements of S that holds those of X, each once.
ListOf(list, S, X) ==
    /\ list \in Seq(S) /\ Range(list) = X
    /\ \A i, j \in 1..Len(list) : list[i] = list[j] => i = j

\* The elements of a list, by position.
LEMMA InList ==
    ASSUME NEW S, NEW list \in Seq(S)
    PROVE  /\ DOMAIN list = 1..Len(list) /\ Len(list) \in Nat
           /\ \A x : x \in Range(list) <=> \E i \in 1..Len(list) : x = list[i]
BY DEF Range

\* dll_insert_after of the head.
LEMMA Pushed ==
    ASSUME NEW S, NEW X, NEW list, ListOf(list, S, X), NEW x \in S, x \notin X
    PROVE  ListOf(<<x>> \o list, S, X \cup {x})
<1> DEFINE new == <<x>> \o list
<1>1. list \in Seq(S) /\ \A i, j \in 1..Len(list) : list[i] = list[j] => i = j
  BY DEF ListOf
<1>2. \A y : y \in X <=> \E i \in 1..Len(list) : y = list[i]
  BY <1>1, InList DEF ListOf
<1>3. Len(list) \in Nat /\ new \in Seq(S) /\ Len(new) = Len(list) + 1 /\ new[1] = x
  BY <1>1
<1>4. \A i \in 1..Len(list) : new[i + 1] = list[i]
  BY <1>1
<1>5. \A y : y \in Range(new) <=> \E i \in 1..Len(new) : y = new[i]
  BY <1>3, InList, Zenon
<1> HIDE DEF new
<1>6. \A i \in 1..Len(new) : i = 1 \/ (i - 1 \in 1..Len(list) /\ new[i] = list[i - 1])
  BY <1>3, <1>4
<1>7. Range(new) = X \cup {x}
  <2>1. ASSUME NEW y \in Range(new) PROVE y \in X \cup {x}
    BY <1>2, <1>3, <1>5, <1>6
  <2>2. ASSUME NEW y \in X PROVE y \in Range(new)
    <3>1. PICK i \in 1..Len(list) : y = list[i]
      BY <1>2
    <3>2. i + 1 \in 1..Len(new) /\ new[i + 1] = y
      BY <1>3, <1>4, <3>1
    <3> QED
      BY <1>5, <3>2
  <2>3. x \in Range(new)
    BY <1>3, <1>5
  <2> QED
    BY <2>1, <2>2, <2>3
<1>8. ASSUME NEW i \in 1..Len(new), NEW j \in 1..Len(new), new[i] = new[j] PROVE i = j
  <2>1. \A h \in 1..Len(list) : list[h] # x
    BY <1>2
  <2>2. CASE i = 1 \/ j = 1
    BY <1>3, <1>6, <1>8, <2>1, <2>2
  <2>3. CASE i # 1 /\ j # 1
    <3>1. i - 1 = j - 1
      BY <1>1, <1>6, <1>8, <2>3
    <3> QED
      BY <1>3, <3>1
  <2> QED
    BY <2>2, <2>3
<1> QED
  BY <1>3, <1>7, <1>8 DEF ListOf, new

\* The block that pmm_alloc_pages takes is the first of its list.
LEMMA Popped ==
    ASSUME NEW S, NEW X, NEW list, ListOf(list, S, X), list # <<>>
    PROVE  Head(list) \in X /\ ListOf(Tail(list), S, X \ {Head(list)})
<1> DEFINE new == Tail(list)
           x == Head(list)
<1>1. list \in Seq(S) /\ \A i, j \in 1..Len(list) : list[i] = list[j] => i = j
  BY DEF ListOf
<1>2. \A y : y \in X <=> \E i \in 1..Len(list) : y = list[i]
  BY <1>1, InList DEF ListOf
<1>3. Len(list) \in Nat /\ Len(list) > 0 /\ new \in Seq(S) /\ Len(new) = Len(list) - 1 /\ x = list[1]
  BY <1>1
<1>4. \A i \in 1..Len(new) : new[i] = list[i + 1] /\ i + 1 \in 1..Len(list)
  BY <1>1, <1>3
<1>5. \A y : y \in Range(new) <=> \E i \in 1..Len(new) : y = new[i]
  BY <1>3, InList, Zenon
<1> HIDE DEF new, x
<1>6. Range(new) = X \ {x}
  <2>1. ASSUME NEW y \in Range(new) PROVE y \in X /\ y # x
    <3>1. PICK i \in 1..Len(new) : y = new[i]
      BY <1>5
    <3>2. i + 1 # 1 /\ y = list[i + 1] /\ i + 1 \in 1..Len(list) /\ 1 \in 1..Len(list)
      BY <1>3, <1>4, <3>1
    <3> QED
      BY <1>1, <1>2, <1>3, <3>2
  <2>2. ASSUME NEW y \in X, y # x PROVE y \in Range(new)
    <3>1. PICK i \in 1..Len(list) : y = list[i]
      BY <1>2
    <3>2. i # 1
      BY <1>3, <2>2, <3>1
    <3>3. i - 1 \in 1..Len(new) /\ (i - 1) + 1 = i
      BY <1>3, <3>2
    <3>4. new[i - 1] = y
      BY <1>4, <3>1, <3>3
    <3> QED
      BY <1>5, <3>3, <3>4
  <2> QED
    BY <2>1, <2>2
<1>7. ASSUME NEW i \in 1..Len(new), NEW j \in 1..Len(new), new[i] = new[j] PROVE i = j
  <2>1. i + 1 = j + 1
    BY <1>1, <1>4, <1>7
  <2> QED
    BY <1>3, <2>1
<1>8. x \in X
  BY <1>2, <1>3
<1> QED
  BY <1>3, <1>6, <1>7, <1>8 DEF ListOf, new, x

\* dll_delete of a buddy.
LEMMA Unlinked ==
    ASSUME NEW S, NEW X, NEW list, ListOf(list, S, X), NEW x \in X
    PROVE  ListOf(UnlinkBlock(list, x), S, X \ {x})
<1> DEFINE n == Len(list)
           at == CHOOSE i \in 1..Len(list) : list[i] = x
           new == UnlinkBlock(list, x)
<1>1. list \in Seq(S) /\ \A i, j \in 1..n : list[i] = list[j] => i = j
  BY DEF ListOf
<1>2. \A y : y \in X <=> \E i \in 1..n : y = list[i]
  BY <1>1, InList DEF ListOf
<1>3. n \in Nat /\ \A i \in 1..n : list[i] \in S
  BY <1>1
<1>4. at \in 1..n /\ list[at] = x
  BY <1>2
<1>5. new = [j \in 1..(n - 1) |-> IF j < at THEN list[j] ELSE list[j + 1]]
  BY DEF UnlinkBlock
<1> HIDE DEF n, at
<1>6. n - 1 \in Nat
  BY <1>3, <1>4
<1>7. new \in [1..(n - 1) -> S]
  <2>1. ASSUME NEW j \in 1..(n - 1) PROVE (IF j < at THEN list[j] ELSE list[j + 1]) \in S
    <3>1. j \in 1..n /\ j + 1 \in 1..n
      BY <1>3
    <3> QED
      BY <1>3, <3>1
  <2> QED
    BY <1>5, <2>1
<1>8. \A j \in 1..(n - 1) : new[j] = IF j < at THEN list[j] ELSE list[j + 1]
  BY <1>5
<1> HIDE DEF new
<1>9. new \in Seq(S) /\ Len(new) = n - 1
  BY <1>6, <1>7
<1>10. \A y : y \in Range(new) <=> \E i \in 1..(n - 1) : y = new[i]
  BY <1>9, InList
<1>11. \A i \in 1..(n - 1) : /\ i < at => i \in 1..n /\ new[i] = list[i] /\ i # at
                             /\ ~ i < at => i + 1 \in 1..n /\ new[i] = list[i + 1] /\ i + 1 # at
  BY <1>3, <1>4, <1>8
<1>12. Range(new) = X \ {x}
  <2>1. ASSUME NEW y \in Range(new) PROVE y \in X /\ y # x
    <3>1. PICK i \in 1..(n - 1) : y = new[i]
      BY <1>10
    <3>2. \E j \in 1..n : j # at /\ y = list[j]
      BY <1>11, <3>1
    <3> QED
      BY <1>1, <1>2, <1>4, <3>2
  <2>2. ASSUME NEW y \in X, y # x PROVE y \in Range(new)
    <3>1. PICK i \in 1..n : y = list[i]
      BY <1>2
    <3>2. i # at
      BY <1>4, <2>2, <3>1
    <3>3. CASE i < at
      <4>1. i \in 1..(n - 1)
        BY <1>3, <1>4, <3>3
      <4> QED
        BY <1>8, <1>10, <3>1, <3>3, <4>1
    <3>4. CASE i > at
      <4>1. i - 1 \in 1..(n - 1) /\ ~ (i - 1 < at) /\ (i - 1) + 1 = i
        BY <1>3, <1>4, <3>4
      <4>2. new[i - 1] = y
        BY <1>8, <3>1, <4>1
      <4> QED
        BY <1>10, <4>1, <4>2
    <3> QED
      BY <1>3, <1>4, <3>2, <3>3, <3>4
  <2> QED
    BY <2>1, <2>2
<1>13. ASSUME NEW i \in 1..(n - 1), NEW j \in 1..(n - 1), new[i] = new[j] PROVE i = j
  <2> DEFINE f(h) == IF h < at THEN h ELSE h + 1
  <2>1. f(i) \in 1..n /\ f(j) \in 1..n /\ new[i] = list[f(i)] /\ new[j] = list[f(j)]
    BY <1>11
  <2>2. f(i) = f(j)
    <3> HIDE DEF f
    <3> QED
      BY <1>1, <1>13, <2>1, Zenon
  <2> QED
    BY <1>3, <1>4, <2>2
<1> QED
  BY <1>9, <1>12, <1>13 DEF ListOf, new

-----------------------------------------------------------------------------
(* The operations on the allocator. *)

FreeMap(a) == [o \in Orders |-> Range(a.free_areas[o])]

Listed(a) ==
    /\ a.free_areas = [o \in Orders |-> a.free_areas[o]]
    /\ \A o \in Orders : ListOf(a.free_areas[o], DOMAIN a.page, Range(a.free_areas[o]))
Counted(a) ==
    /\ a.nr_free \in [Orders -> 0..(Pow2[Width] - 1)]
    /\ a.used_pages \in 0..(Pow2[Width] - 1)

\* The invariant of the allocator, whose users hold the blocks of held.
Allocator(a, held) == Good(a.page, FreeMap(a), held) /\ Listed(a) /\ Counted(a)

\* The counters stay within their width.
LEMMA UnsignedIs == \A n \in Int : Unsigned(n) \in 0..(Pow2[Width] - 1)
<1>1. Pow2[Width] \in Nat /\ Pow2[Width] > 0
  BY Pow, SizesAssumption
<1> HIDE DEF Pow2
<1>2. \A M \in Nat : M > 0 => \A n \in Int : n % M \in 0..(M - 1)
  OBVIOUS
<1> QED
  BY <1>1, <1>2 DEF Unsigned

\* pmm_free_pages stops at the first order at which the buddy is not in the list.
LEMMA CoalescedIs ==
    ASSUME NEW a, NEW held, Good(a.page, FreeMap(a), held), NEW p, NEW o, <<p, o>> \in held
    PROVE  Stops(a.page, FreeMap(a), p, o, Coalesced(a, p, o))
<1> DEFINE F == FreeMap(a)
           k == Coalesced(a, p, o)
           Can(j) == CanMerge(a, Met(p, o, j), j)
           top == PMM_MAX_ORDER - 1
           R(h) == (\A j \in o..(h - 1) : Can(j)) /\ (h = top \/ ~ Can(h))
           T == {h \in o..top : h = top \/ ~ Can(h)}
<1>1. o \in Orders /\ o \in Nat /\ top \in Nat /\ o <= top
  <2>1. o \in Orders
    BY DEF Good, Types
  <2> QED
    BY <2>1, SizesAssumption DEF Orders
<1>2. k = CHOOSE h \in o..top : R(h)
  BY DEF Coalesced, Met
<1> HIDE DEF k, Can, top
<1>3. T \in SUBSET Nat /\ top \in T
  BY <1>1
<1>4. PICK h \in T : \A m \in T : h <= m
  BY <1>3, Least, Zenon
<1>5. \A j \in o..(h - 1) : Can(j)
  BY <1>1, <1>4
<1>6. k \in o..top /\ R(k)
  BY <1>2, <1>4, <1>5
<1>7. \A j \in o..top : j \in Orders /\ j >= o
  BY <1>1 DEF Orders, top
<1>8. ASSUME NEW j \in o..top PROVE Can(j) <=> Met(p, o, j) \in F[j]
  <2>1. ASSUME Can(j) PROVE Met(p, o, j) \in F[j]
    <3>1. <<p, o>> \in Blocks(F, held)
      BY DEF Blocks
    <3> QED
      BY <1>7, <2>1, <3>1, BuddyListed DEF Can, CanMerge
  <2>2. ASSUME Met(p, o, j) \in F[j] PROVE Can(j)
    <3>1. j \in Orders
      BY <1>7
    <3>2. \A x \in F[j] : x \in DOMAIN a.page /\ a.page[x].flags = "FREE" /\ a.page[x].order = j
      <4>1. Types(a.page, F, held) /\ Marked(a.page, F, held)
        BY DEF Good
      <4> HIDE DEF F
      <4> QED
        BY <3>1, <4>1 DEF Types, Marked
    <3> QED
      BY <2>2, <3>2 DEF Can, CanMerge
  <2> QED
    BY <2>1, <2>2
<1> HIDE DEF F
<1>9. \A j \in o..(k - 1) : Met(p, o, j) \in F[j]
  BY <1>1, <1>6, <1>8
<1>10. k # top => Met(p, o, k) \notin F[k]
  BY <1>6, <1>8
<1> QED
  BY <1>6, <1>7, <1>9, <1>10 DEF Stops, k, F, top

\* What pmm_free_pages does to the pages and the lists.
Freed(a, b, held, p, o) ==
    LET k == Coalesced(a, p, o)
    IN  /\ Stops(a.page, FreeMap(a), p, o, k)
        /\ b.page = MergedPages_(a.page, p, o, k)
        /\ FreeMap(b) = MergedFree(FreeMap(a), p, o, k)
        /\ DOMAIN b.page = DOMAIN a.page
        /\ Allocator(b, held \ {<<p, o>>})
        /\ \A c \in held \ {<<p, o>>} : b.page[c[1]] = a.page[c[1]]
        /\ PagesOf(FreeSet(FreeMap(b))) = PagesOf(FreeSet(FreeMap(a))) \cup Span(<<p, o>>)
        /\ \A q \in DOMAIN a.page : b.page[q].flags = "USED" => a.page[q].flags = "USED"

\* pmm_free_pages of a held block keeps the invariant.
LEMMA FreeIs ==
    ASSUME NEW a, NEW held, Allocator(a, held), NEW p, NEW o, <<p, o>> \in held
    PROVE  Freed(a, pmm_free_pages(a, p, o), held, p, o)
<1> DEFINE F == FreeMap(a)
           k == Coalesced(a, p, o)
           b == pmm_free_pages(a, p, o)
           M == Manager(p, o, k)
           P == DOMAIN a.page
<1>1. Good(a.page, F, held) /\ Stops(a.page, F, p, o, k)
  BY CoalescedIs DEF Allocator
<1>2. MergeFacts(a.page, F, held, p, o, k)
  BY <1>1, MergeIs
<1>3. b.page = MergedPages_(a.page, p, o, k) /\ DOMAIN b.page = P
  BY DEF pmm_free_pages, MergedPages_, Met
<1>4. /\ b.free_areas = [j \in Orders |-> b.free_areas[j]]
      /\ \A j \in Orders : b.free_areas[j] = IF j \in o..(k - 1) THEN UnlinkBlock(a.free_areas[j], Met(p, o, j))
                                             ELSE IF j = k THEN <<M>> \o a.free_areas[j]
                                             ELSE a.free_areas[j]
  BY DEF pmm_free_pages, Met
<1>5. /\ b.nr_free = [j \in Orders |-> IF j \in o..(k - 1) THEN Unsigned(a.nr_free[j] - 1)
                                       ELSE IF j = k THEN Unsigned(a.nr_free[j] + 1)
                                       ELSE a.nr_free[j]]
      /\ b.used_pages = Unsigned(a.used_pages - Pow2[k])
  BY DEF pmm_free_pages
<1>6. \A j \in Orders : F[j] = Range(a.free_areas[j]) /\ ListOf(a.free_areas[j], P, F[j])
  BY DEF FreeMap, Allocator, Listed
<1>7. k \in Orders /\ k \in Nat /\ M \in P /\ \A j \in o..(k - 1) : Met(p, o, j) \in F[j]
  BY <1>1, <1>2 DEF Stops, MergeFacts
<1>8. M \notin F[k]
  <2>1. M = p \/ \E j \in o..(k - 1) : M = Met(p, o, j)
    BY <1>2 DEF MergeFacts
  <2>2. a.page[p].flags # "FREE"
    BY <1>2 DEF MergeFacts
  <2>3. \A j \in o..(k - 1) : a.page[Met(p, o, j)].order = j /\ j # k
    BY <1>2, <1>7 DEF MergeFacts
  <2>4. M \in F[k] => a.page[M].flags = "FREE" /\ a.page[M].order = k
    BY <1>1, <1>7, Zenon DEF Good, Marked
  <2> QED
    BY <2>1, <2>2, <2>3, <2>4
<1> HIDE DEF F, k, b, M, P
<1>9. ASSUME NEW j \in Orders PROVE ListOf(b.free_areas[j], P, MergedFree(F, p, o, k)[j])
  <2>1. MergedFree(F, p, o, k)[j] = IF j \in o..(k - 1) THEN F[j] \ {Met(p, o, j)}
                                    ELSE IF j = k THEN F[j] \cup {M} ELSE F[j]
    BY DEF MergedFree, M
  <2>2. CASE j \in o..(k - 1)
    <3>1. ListOf(UnlinkBlock(a.free_areas[j], Met(p, o, j)), P, F[j] \ {Met(p, o, j)})
      BY <1>6, <1>7, <2>2, Unlinked
    <3> QED
      BY <1>4, <2>1, <2>2, <3>1
  <2>3. CASE j \notin o..(k - 1) /\ j = k
    <3>1. ListOf(<<M>> \o a.free_areas[j], P, F[j] \cup {M})
      BY <1>6, <1>7, <1>8, <2>3, Pushed
    <3> QED
      BY <1>4, <2>1, <2>3, <3>1
  <2>4. CASE j \notin o..(k - 1) /\ j # k
    BY <1>4, <1>6, <2>1, <2>4
  <2> QED
    BY <2>2, <2>3, <2>4
<1>10. FreeMap(b) = MergedFree(F, p, o, k)
  <2>1. \A j \in Orders : Range(b.free_areas[j]) = MergedFree(F, p, o, k)[j]
    BY <1>9 DEF ListOf
  <2> QED
    BY <2>1 DEF FreeMap, MergedFree
<1>11. Listed(b)
  <2>1. \A j \in Orders : Range(b.free_areas[j]) = MergedFree(F, p, o, k)[j]
    BY <1>9 DEF ListOf
  <2> QED
    BY <1>3, <1>4, <1>9, <2>1 DEF Listed
<1>12. Counted(b)
  <2>1. a.used_pages \in Int /\ \A j \in Orders : a.nr_free[j] \in 0..(Pow2[Width] - 1) /\ a.nr_free[j] \in Int
    BY DEF Allocator, Counted
  <2>2. Pow2[k] \in Nat
    BY <1>7, Pow
  <2>3. b.used_pages \in 0..(Pow2[Width] - 1)
    BY <1>5, <2>1, <2>2, UnsignedIs
  <2>4. \A j \in Orders : /\ Unsigned(a.nr_free[j] - 1) \in 0..(Pow2[Width] - 1)
                          /\ Unsigned(a.nr_free[j] + 1) \in 0..(Pow2[Width] - 1)
    BY <2>1, UnsignedIs
  <2> HIDE DEF Unsigned, Pow2
  <2>5. b.nr_free \in [Orders -> 0..(Pow2[Width] - 1)]
    BY <1>5, <2>1, <2>4
  <2> QED
    BY <2>3, <2>5 DEF Counted
<1>13. /\ Good(b.page, FreeMap(b), held \ {<<p, o>>})
       /\ \A c \in held \ {<<p, o>>} : b.page[c[1]] = a.page[c[1]]
  BY <1>1, <1>3, <1>10, MergeGood
<1>14. PagesOf(FreeSet(FreeMap(b))) = PagesOf(FreeSet(F)) \cup Span(<<p, o>>)
  BY <1>1, <1>10, MergePages
<1>15. Allocator(b, held \ {<<p, o>>})
  BY <1>11, <1>12, <1>13 DEF Allocator
<1>16. ASSUME NEW q \in P, b.page[q].flags = "USED" PROVE a.page[q].flags = "USED"
  <2>1. a.page[q] \in PageRec
    BY <1>1 DEF Good, Types, P
  <2>2. b.page[q] = IF q = M THEN [flags |-> "FREE", ref_count |-> 0, order |-> k]
                    ELSE IF q \in {Met(p, o, j) : j \in o..(k - 1)} THEN [a.page[q] EXCEPT !.order = 0]
                    ELSE a.page[q]
    BY <1>3 DEF MergedPages_, M, P
  <2>3. [a.page[q] EXCEPT !.order = 0].flags = a.page[q].flags
    BY <2>1 DEF PageRec
  <2> QED
    BY <1>16, <2>2, <2>3
<1> QED
  BY <1>1, <1>3, <1>10, <1>13, <1>14, <1>15, <1>16 DEF Freed, F, k, P, b

\* What pmm_alloc_pages does to the pages and the lists: it takes the first block t.
Allocated(a, b, held, o) ==
    LET t == Taken(a, o)
    IN  /\ t \in DOMAIN a.page
        /\ DOMAIN b.page = DOMAIN a.page
        /\ b.page[t] = [flags |-> "USED", ref_count |-> 1, order |-> o]
        /\ Allocator(b, held \cup {<<t, o>>})
        /\ \A c \in held : c[1] # t /\ b.page[c[1]] = a.page[c[1]]
        /\ PagesOf(FreeSet(FreeMap(a))) = PagesOf(FreeSet(FreeMap(b))) \cup Span(<<t, o>>)
        /\ PagesOf(FreeSet(FreeMap(b))) \cap Span(<<t, o>>) = {}
        /\ \A q \in DOMAIN a.page : b.page[q].flags = "USED" => q = t \/ a.page[q].flags = "USED"

\* pmm_alloc_pages keeps the invariant.
LEMMA AllocIs ==
    ASSUME NEW a, NEW held, Allocator(a, held), NEW o \in Orders, Available(a, o) # {}
    PROVE  Allocated(a, pmm_alloc_pages(a, o), held, o)
<1> DEFINE F == FreeMap(a)
           k == Min(Available(a, o))
           t == Taken(a, o)
           b == pmm_alloc_pages(a, o)
           P == DOMAIN a.page
<1>1. Good(a.page, F, held)
  BY DEF Allocator
<1>2. o \in Nat /\ PMM_MAX_ORDER - 1 \in Nat /\ Available(a, o) \in SUBSET Nat
  BY OrderFacts, SizesAssumption DEF Available
<1>3. k \in Available(a, o)
  <2>1. PICK n \in Available(a, o) : \A m \in Available(a, o) : n <= m
    BY <1>2, Least
  <2> QED
    BY <2>1 DEF Min
<1>4. k \in Orders /\ k \in Nat /\ o <= k /\ a.free_areas[k] # <<>>
  BY <1>2, <1>3 DEF Available, Orders
<1>5. \A j \in Orders : F[j] = Range(a.free_areas[j]) /\ ListOf(a.free_areas[j], P, F[j])
  BY DEF FreeMap, Allocator, Listed
<1>6. b.page = SplitPages(a.page, t, o, k) /\ DOMAIN b.page = P /\ t = Head(a.free_areas[k])
  BY DEF pmm_alloc_pages, SplitPages, Taken
<1>7. /\ b.free_areas = [j \in Orders |-> b.free_areas[j]]
      /\ \A j \in Orders : b.free_areas[j] = IF j \in o..(k - 1) THEN <<Buddy(t, j)>> \o a.free_areas[j]
                                             ELSE IF j = k THEN Tail(a.free_areas[j])
                                             ELSE a.free_areas[j]
  BY DEF pmm_alloc_pages
<1>8. /\ b.nr_free = [j \in Orders |-> IF j \in o..(k - 1) THEN Unsigned(a.nr_free[j] + 1)
                                       ELSE IF j = k THEN Unsigned(a.nr_free[j] - 1)
                                       ELSE a.nr_free[j]]
      /\ b.used_pages = Unsigned(a.used_pages + Pow2[o])
  BY DEF pmm_alloc_pages
<1> HIDE DEF F, k, b, t, P
<1>9. t \in F[k] /\ ListOf(Tail(a.free_areas[k]), P, F[k] \ {t})
  BY <1>4, <1>5, <1>6, Popped, Zenon
<1>10. SplitFacts(a.page, F, held, t, o, k)
  BY <1>1, <1>4, <1>9, SplitIs
<1>11. ASSUME NEW j \in o..(k - 1) PROVE j \in Orders /\ Buddy(t, j) \in P /\ Buddy(t, j) \notin F[j] /\ j # k
  <2>1. j \in Orders /\ j # k /\ Buddy(t, j) \in Span(<<t, k>>) /\ <<t, k>> \in Blocks(F, held)
    BY <1>10, <1>2, <1>4 DEF SplitFacts
  <2>2. Buddy(t, j) \in P
    BY <1>1, <2>1 DEF Good, Placed, P
  <2>3. ASSUME Buddy(t, j) \in F[j] PROVE FALSE
    <3>1. <<Buddy(t, j), j>> \in Blocks(F, held) /\ Buddy(t, j) \in Nat /\ j \in Nat
      BY <1>1, <2>1, <2>3, FreeFacts, OrderFacts
    <3>2. Buddy(t, j) \in Span(<<Buddy(t, j), j>>)
      BY <3>1, StartsInside
    <3>3. <<Buddy(t, j), j>> = <<t, k>>
      BY <1>1, <2>1, <3>1, <3>2, SameBlock
    <3> QED
      BY <2>1, <3>3
  <2> QED
    BY <2>1, <2>2, <2>3
<1>12. ASSUME NEW j \in Orders PROVE ListOf(b.free_areas[j], P, SplitFree(F, t, o, k)[j])
  <2>1. SplitFree(F, t, o, k)[j] = IF j \in o..(k - 1) THEN F[j] \cup {Buddy(t, j)}
                                   ELSE IF j = k THEN F[j] \ {t} ELSE F[j]
    BY DEF SplitFree
  <2>2. CASE j \in o..(k - 1)
    <3>1. ListOf(<<Buddy(t, j)>> \o a.free_areas[j], P, F[j] \cup {Buddy(t, j)})
      BY <1>5, <1>11, <2>2, Pushed
    <3> QED
      BY <1>7, <2>1, <2>2, <3>1
  <2>3. CASE j \notin o..(k - 1) /\ j = k
    BY <1>7, <1>9, <2>1, <2>3, Zenon
  <2>4. CASE j \notin o..(k - 1) /\ j # k
    BY <1>5, <1>7, <2>1, <2>4, Zenon
  <2> QED
    BY <2>2, <2>3, <2>4
<1>13. \A j \in Orders : Range(b.free_areas[j]) = SplitFree(F, t, o, k)[j]
  BY <1>12 DEF ListOf
<1>14. FreeMap(b) = SplitFree(F, t, o, k)
  BY <1>13, Zenon DEF FreeMap, SplitFree
<1>15. Listed(b)
  BY <1>6, <1>7, <1>12, <1>13 DEF Listed
<1>16. Counted(b)
  <2>1. a.used_pages \in Int /\ \A j \in Orders : a.nr_free[j] \in 0..(Pow2[Width] - 1) /\ a.nr_free[j] \in Int
    BY DEF Allocator, Counted
  <2>2. Pow2[o] \in Nat
    BY <1>2, Pow
  <2>3. b.used_pages \in 0..(Pow2[Width] - 1)
    BY <1>8, <2>1, <2>2, UnsignedIs
  <2>4. \A j \in Orders : /\ Unsigned(a.nr_free[j] - 1) \in 0..(Pow2[Width] - 1)
                          /\ Unsigned(a.nr_free[j] + 1) \in 0..(Pow2[Width] - 1)
    BY <2>1, UnsignedIs
  <2>5. b.nr_free \in [Orders -> 0..(Pow2[Width] - 1)]
    BY <1>8, <2>1, <2>4
  <2> QED
    BY <2>3, <2>5 DEF Counted
<1>17. /\ Good(b.page, FreeMap(b), held \cup {<<t, o>>})
       /\ \A c \in held : c[1] # t /\ b.page[c[1]] = a.page[c[1]]
  BY <1>1, <1>4, <1>6, <1>9, <1>14, SplitGood
<1>18. /\ PagesOf(FreeSet(F)) = PagesOf(FreeSet(FreeMap(b))) \cup Span(<<t, o>>)
       /\ PagesOf(FreeSet(FreeMap(b))) \cap Span(<<t, o>>) = {}
  BY <1>1, <1>4, <1>9, <1>14, SplitLeaves
<1>19. Allocator(b, held \cup {<<t, o>>})
  BY <1>15, <1>16, <1>17 DEF Allocator
<1>20. t \in P /\ b.page[t] = [flags |-> "USED", ref_count |-> 1, order |-> o]
  <2>1. t \in P
    BY <1>10 DEF SplitFacts, P
  <2> QED
    BY <1>6, <2>1 DEF SplitPages, P
<1>21. \A q \in P : b.page[q].flags = "USED" => q = t \/ a.page[q].flags = "USED"
  BY <1>6 DEF SplitPages, P
<1> QED
  BY <1>6, <1>17, <1>18, <1>19, <1>20, <1>21, Zenon DEF Allocated, F, k, P, b, t

\* The order of a request is a number.
LEMMA OrderIs == \A size \in Nat : pmm_get_order_from_size(size) \in Nat
<1> SUFFICES ASSUME NEW size \in Nat PROVE pmm_get_order_from_size(size) \in Nat
  OBVIOUS
<1> DEFINE n == NumPages(size)
           T == {o \in Nat : Pow2[o] >= n}
<1>1. n \in Nat /\ n <= size
  <2> DEFINE S == PMM_PAGE_SIZE
  <2>1. S \in Nat /\ S > 0
    BY SizesAssumption
  <2>2. \A M \in Nat : M > 0 => /\ (size + M - 1) \div M \in Nat
                                /\ ((size + M - 1) \div M) * M <= size + M - 1
    BY Quotient
  <2>3. n \in Nat /\ n * S <= size + S - 1
    BY <2>1, <2>2 DEF NumPages
  <2> HIDE DEF n, S
  <2>4. ASSUME n >= size + 1 PROVE FALSE
    <3>1. PICK d \in Nat : n = size + 1 + d
      <4>1. n - size - 1 \in Nat /\ n = size + 1 + (n - size - 1)
        BY <2>3, <2>4
      <4> QED
        BY <4>1, Zenon
    <3>2. n * S = size * S + S + d * S /\ size * S >= size /\ d * S >= 0
      BY <2>1, <3>1
    <3> QED
      BY <2>1, <2>3, <3>2
  <2> QED
    BY <2>3, <2>4
<1> HIDE DEF n
<1>2. size \in T
  BY <1>1, Pow
<1>3. PICK o \in T : \A m \in T : o <= m
  BY <1>2, Least, Zenon
<1>4. o \in 0..size /\ Pow2[o] >= n
  BY <1>2, <1>3
<1>5. \A j \in 0..(o - 1) : Pow2[j] < n
  <2> SUFFICES ASSUME NEW j \in 0..(o - 1) PROVE Pow2[j] < n
    OBVIOUS
  <2>1. j \in Nat /\ ~ (o <= j) /\ Pow2[j] \in Nat
    BY <1>4, Pow
  <2> QED
    BY <1>1, <1>3, <2>1
<1>6. pmm_get_order_from_size(size) \in 0..size
  BY <1>4, <1>5 DEF pmm_get_order_from_size, n
<1> QED
  BY <1>6

\* A page that is marked free is in a block.
LEMMA FreeCovered ==
    ASSUME NEW page, NEW F, NEW held, Good(page, F, held), NEW q \in DOMAIN page, page[q].flags = "FREE"
    PROVE  q \in PagesOf(Blocks(F, held))
<1>1. CASE q \in F[page[q].order]
  <2>1. page[q].order \in Orders /\ q \in Nat
    BY DEF Good, Types, PageRec
  <2>2. <<q, page[q].order>> \in Blocks(F, held) /\ q \in Span(<<q, page[q].order>>)
    BY <1>1, <2>1, FreeFacts, StartsInside, OrderFacts
  <2> QED
    BY <2>2 DEF PagesOf
<1>2. CASE \E b \in Blocks(F, held) : b[2] # 0 /\ q \in Span(b)
  BY <1>2 DEF PagesOf
<1> QED
  BY <1>1, <1>2 DEF Good, Honest

\* Only the flags and the order of a page matter to the lists.
LEMMA SameMarks ==
    ASSUME NEW page, NEW F, NEW held, Good(page, F, held), NEW new \in [DOMAIN page -> PageRec],
           \A q \in DOMAIN page : new[q].flags = page[q].flags /\ new[q].order = page[q].order
    PROVE  Good(new, F, held)
<1> DEFINE P == DOMAIN page
<1>1. DOMAIN new = P
  OBVIOUS
<1>2. /\ Types(page, F, held) /\ Marked(page, F, held) /\ Placed(P, Blocks(F, held))
      /\ Honest(page, F, held) /\ Coalescent(F)
  BY DEF Good
<1>3. Types(new, F, held)
  BY <1>1, <1>2 DEF Types
<1>4. /\ \A o \in Orders : F[o] \subseteq P
      /\ \A b \in held : b[1] \in P
  BY <1>2 DEF Types
<1>5. Marked(new, F, held)
  BY <1>2, <1>4 DEF Marked
<1>6. Honest(new, F, held)
  BY <1>1, <1>2 DEF Honest
<1> QED
  BY <1>1, <1>2, <1>3, <1>5, <1>6 DEF Good

\* A block of pages that are in no other can be held.
LEMMA HoldMore ==
    ASSUME NEW page, NEW F, NEW held, Good(page, F, held), NEW p \in DOMAIN page, NEW o \in Orders,
           Aligned(p, o), Span(<<p, o>>) \subseteq DOMAIN page,
           Span(<<p, o>>) \cap PagesOf(Blocks(F, held)) = {}
    PROVE  Good(page, F, held \cup {<<p, o>>})
<1> DEFINE P == DOMAIN page
           b == <<p, o>>
           B == Blocks(F, held)
           C == Blocks(F, held \cup {b})
<1>1. /\ Types(page, F, held) /\ Marked(page, F, held) /\ Placed(P, B)
      /\ Honest(page, F, held) /\ Coalescent(F)
  BY DEF Good
<1>2. b[1] = p /\ b[2] = o
  OBVIOUS
<1>3. C = B \cup {b}
  BY DEF Blocks
<1>4. p \in Span(b)
  BY <1>1, OrderFacts, StartsInside DEF Types
<1>5. page[p].flags # "FREE"
  BY <1>4, FreeCovered
<1>6. Types(page, F, held \cup {b})
  BY <1>1 DEF Types
<1>7. Marked(page, F, held \cup {b})
  BY <1>1, <1>2, <1>5 DEF Marked
<1>8. Placed(P, C)
  <2>1. \A c \in B : Span(c) \cap Span(b) = {}
    BY DEF PagesOf
  <2> HIDE DEF b, B, C
  <2>2. Aligned(b[1], b[2]) /\ Span(b) \subseteq P
    BY <1>2 DEF b
  <2> QED
    BY <1>1, <1>3, <2>1, <2>2 DEF Placed
<1>9. Honest(page, F, held \cup {b})
  <2> HIDE DEF b, B, C
  <2> QED
    BY <1>1, <1>3, Zenon DEF Honest, B, C
<1> QED
  BY <1>1, <1>6, <1>7, <1>8, <1>9 DEF Good

-----------------------------------------------------------------------------
(* The invariant. *)

Users == {q \in Pages : refs[q] > 0} \cup dropped
Covered == PagesOf(Blocks(FreeMap(pmm), HeldBlocks))

\* The memory map is sorted, and its pages have a struct pmm_page.
MapInv ==
    /\ memmap \in Seq(Entry)
    /\ \A i, j \in 1..Len(memmap) : i < j /\ memmap[i].type = "usable" =>
           memmap[i].base + memmap[i].length <= memmap[j].base
    /\ \A i \in 1..Len(memmap) : memmap[i].type = "usable" =>
           \A p \in Nat : p < EndPage(memmap[i]) => p \in Pages
    /\ IsFiniteSet(Pages)

\* Nothing is allocated before pmm_init returns.
BootInv ==
    /\ entry \in Nat /\ entry > 0 /\ current_page \in Nat
    /\ entry <= Len(memmap) => /\ current_page >= FirstPage(memmap[entry])
                               /\ Users = {}

PInv ==
    /\ MapInv /\ BootInv
    /\ Allocator(pmm, HeldBlocks)
    /\ refs \in [Pages -> 0..MaxRefs] /\ dropped \subseteq Pages
    /\ CountsAreRight
    /\ \A p \in Pages : pmm.page[p].flags = "USED" => p \in Covered
    /\ \A p \in Pages : p \in Covered <=> Usable(p)

\* The blocks of the lists, and the blocks that are held.
LEMMA BlocksAre ==
    /\ FreeBlocks = FreeSet(FreeMap(pmm))
    /\ FreePages = PagesOf(FreeSet(FreeMap(pmm)))
    /\ \A c : c \in HeldBlocks <=> \E p \in Users : c = <<p, pmm.page[p].order>>
<1>1. FreeBlocks = FreeSet(FreeMap(pmm))
  BY DEF FreeBlocks, FreeSet, FreeMap
<1> QED
  BY <1>1 DEF FreePages, PagesOf, HeldBlocks, Users

\* Division by the size of a page.
LEMMA PageNumbers ==
    ASSUME NEW b \in Nat, NEW p \in Nat
    PROVE  /\ NumPages(b) \in Nat /\ b \div PMM_PAGE_SIZE \in Nat
           /\ NumPages(b) <= p <=> b <= p * PMM_PAGE_SIZE
           /\ p <= b \div PMM_PAGE_SIZE <=> p * PMM_PAGE_SIZE <= b
<1>1. PMM_PAGE_SIZE \in Nat /\ PMM_PAGE_SIZE > 0
  BY SizesAssumption
<1> SUFFICES ASSUME NEW S \in Nat, S > 0
             PROVE  /\ (b + S - 1) \div S \in Nat /\ b \div S \in Nat
                    /\ (b + S - 1) \div S <= p <=> b <= p * S
                    /\ p <= b \div S <=> p * S <= b
  BY <1>1 DEF NumPages
<1> QED
  OBVIOUS

-----------------------------------------------------------------------------
(* Each step keeps the invariant. *)

\* A step that keeps the map of the boot loader and the pages covered by blocks.
LEMMA SameMap ==
    ASSUME PInv, UNCHANGED boot, entry > Len(memmap), Pages' = Pages, Covered' = Covered
    PROVE  MapInv' /\ BootInv' /\ (\A p \in Pages : p \in Covered <=> Usable(p))'
<1>1. memmap' = memmap /\ entry' = entry /\ current_page' = current_page
  BY DEF boot
<1>2. MapInv'
  BY <1>1 DEF PInv, MapInv
<1>3. BootInv'
  <2>1. Len(memmap) \in Nat /\ entry \in Nat
    BY DEF PInv, MapInv, BootInv
  <2>2. ~ (entry <= Len(memmap))
    BY <2>1
  <2> QED
    BY <1>1, <2>2 DEF PInv, BootInv
<1>4. \A p : Usable(p)' <=> Usable(p)
  BY <1>1 DEF Usable
<1> QED
  BY <1>2, <1>3, <1>4 DEF PInv

\* A held block.
LEMMA UserFacts ==
    ASSUME PInv, NEW p \in Users
    PROVE  /\ p \in Pages /\ p \in Nat /\ pmm.page[p].flags = "USED" /\ pmm.page[p].order \in Orders
           /\ <<p, pmm.page[p].order>> \in HeldBlocks
           /\ pmm.page[p].ref_count = refs[p] /\ refs[p] \in 0..MaxRefs
           /\ p \in dropped <=> refs[p] = 0
<1>1. p \in Pages /\ refs[p] \in 0..MaxRefs /\ MaxRefs \in Nat
  BY SizesAssumption DEF PInv, Users
<1>2. <<p, pmm.page[p].order>> \in HeldBlocks
  BY BlocksAre
<1>3. p \in Nat /\ pmm.page[p].order \in Orders
  BY <1>1 DEF PInv, Allocator, Good, Types, PageRec, Pages
<1>4. pmm.page[p].flags = "USED" /\ pmm.page[p].ref_count = refs[p] /\ (p \in dropped <=> refs[p] = 0)
  BY <1>1 DEF PInv, CountsAreRight, Users
<1> QED
  BY <1>1, <1>2, <1>3, <1>4

\* A page at which no held block starts has no user and is not about to be freed.
LEMMA UsersOf ==
    ASSUME PInv, NEW p \in Pages, p \notin Users
    PROVE  refs[p] = 0 /\ p \notin dropped
BY SizesAssumption DEF PInv, Users

\* A user frees its block, or the lock was released before a block is freed.
LEMMA FreeStep ==
    ASSUME PInv, UNCHANGED boot, entry > Len(memmap), NEW p \in Users,
           pmm' = pmm_free_pages(pmm, p, pmm.page[p].order),
           refs' = [refs EXCEPT ![p] = 0], dropped' = dropped \ {p}
    PROVE  PInv'
<1> DEFINE o == pmm.page[p].order
           c == <<p, pmm.page[p].order>>
           F == FreeMap(pmm)
<1>1. p \in Pages /\ c \in HeldBlocks
  BY UserFacts
<1>2. Freed(pmm, pmm', HeldBlocks, p, o)
  BY <1>1, FreeIs DEF PInv
<1>3. /\ Pages' = Pages /\ Allocator(pmm', HeldBlocks \ {c})
      /\ \A d \in HeldBlocks \ {c} : pmm'.page[d[1]] = pmm.page[d[1]]
      /\ PagesOf(FreeSet(FreeMap(pmm'))) = PagesOf(FreeSet(F)) \cup Span(c)
      /\ \A q \in Pages : pmm'.page[q].flags = "USED" => pmm.page[q].flags = "USED"
  BY <1>2, Zenon DEF Freed, Pages
<1>4. refs \in [Pages -> 0..MaxRefs] /\ MaxRefs \in Nat /\ dropped \subseteq Pages
  BY SizesAssumption DEF PInv
<1>5. refs' \in [Pages -> 0..MaxRefs] /\ \A q \in Pages : refs'[q] = IF q = p THEN 0 ELSE refs[q]
  <2>1. refs' = [q \in Pages |-> IF q = p THEN 0 ELSE refs[q]]
    BY <1>4, Zenon
  <2>2. 0 \in 0..MaxRefs
    BY <1>4
  <2> QED
    BY <1>4, <2>1, <2>2, Zenon
<1>6. Users' = Users \ {p}
  BY <1>1, <1>3, <1>4, <1>5 DEF Users
<1>7. \A q \in Users \ {p} : pmm'.page[q] = pmm.page[q]
  <2> SUFFICES ASSUME NEW q \in Users \ {p} PROVE pmm'.page[q] = pmm.page[q]
    OBVIOUS
  <2> DEFINE d == <<q, pmm.page[q].order>>
  <2>1. d \in HeldBlocks /\ d # c /\ d[1] = q
    BY UserFacts
  <2> HIDE DEF d, c
  <2> QED
    BY <1>3, <2>1
<1>8. HeldBlocks' = HeldBlocks \ {c}
  <2>1. \A d : d \in HeldBlocks' <=> \E q \in Users' : d = <<q, pmm'.page[q].order>>
    BY BlocksAre DEF HeldBlocks, Users
  <2>2. \A d : d \in HeldBlocks <=> \E q \in Users : d = <<q, pmm.page[q].order>>
    BY BlocksAre
  <2> QED
    BY <1>6, <1>7, <2>1, <2>2
<1> HIDE DEF c, F, o
<1>9. Covered' = Covered
  BY <1>1, <1>3, <1>8 DEF Covered, F, Blocks, PagesOf
<1>10. CountsAreRight'
  <2>1. ASSUME NEW q \in Pages, refs'[q] > 0
        PROVE  pmm'.page[q].flags = "USED" /\ pmm'.page[q].ref_count = refs'[q]
    <3>1. q # p /\ q \in Users /\ refs'[q] = refs[q]
      BY <1>4, <1>5, <2>1 DEF Users
    <3> QED
      BY <1>7, <3>1, UserFacts, Zenon
  <2>2. ASSUME NEW q \in dropped'
        PROVE  refs'[q] = 0 /\ pmm'.page[q].flags = "USED" /\ pmm'.page[q].ref_count = 0
    <3>1. q # p /\ q \in Users /\ q \in Pages /\ q \in dropped
      BY <1>4, <2>2 DEF Users
    <3>2. refs[q] = 0 /\ pmm.page[q].flags = "USED" /\ pmm.page[q].ref_count = 0
      BY <3>1 DEF PInv, CountsAreRight
    <3> QED
      BY <1>5, <1>7, <3>1, <3>2
  <2> QED
    BY <1>3, <2>1, <2>2, Zenon DEF CountsAreRight
<1>11. MapInv' /\ BootInv' /\ (\A q \in Pages : q \in Covered <=> Usable(q))'
  BY <1>3, <1>9, SameMap
<1>12. \A q \in Pages : pmm'.page[q].flags = "USED" => q \in Covered
  BY <1>3 DEF PInv
<1>13. Allocator(pmm', HeldBlocks') /\ dropped' \subseteq Pages
  BY <1>3, <1>4, <1>8
<1> QED
  BY <1>3, <1>5, <1>9, <1>10, <1>11, <1>12, <1>13 DEF PInv

\* A block is allocated.
LEMMA AllocStep ==
    ASSUME PInv, UNCHANGED boot, entry > Len(memmap), NEW size \in PmmSizes, pmm_alloc(size)
    PROVE  PInv'
<1> DEFINE o == pmm_get_order_from_size(size)
           t == Taken(pmm, o)
           c == <<t, o>>
           F == FreeMap(pmm)
<1>1. o \in Orders /\ Available(pmm, o) # {}
  <2>1. o \in Nat /\ o < PMM_MAX_ORDER /\ PMM_MAX_ORDER \in Nat
    BY OrderIs, SizesAssumption DEF pmm_alloc
  <2>2. o \in 0..(PMM_MAX_ORDER - 1)
    <3> HIDE DEF o
    <3> QED
      BY <2>1
  <2> QED
    BY <2>2 DEF pmm_alloc, Orders
<1>2. pmm' = pmm_alloc_pages(pmm, o) /\ refs' = [refs EXCEPT ![t] = @ + 1] /\ dropped' = dropped
  BY DEF pmm_alloc
<1> HIDE DEF o
<1>3. Allocated(pmm, pmm', HeldBlocks, o)
  BY <1>1, <1>2, AllocIs DEF PInv
<1>4. /\ t \in Pages /\ Pages' = Pages /\ Allocator(pmm', HeldBlocks \cup {c})
      /\ pmm'.page[t] = [flags |-> "USED", ref_count |-> 1, order |-> o]
      /\ \A d \in HeldBlocks : d[1] # t /\ pmm'.page[d[1]] = pmm.page[d[1]]
      /\ PagesOf(FreeSet(F)) = PagesOf(FreeSet(FreeMap(pmm'))) \cup Span(c)
      /\ \A q \in Pages : pmm'.page[q].flags = "USED" => q = t \/ pmm.page[q].flags = "USED"
  BY <1>3 DEF Allocated, Pages
<1> HIDE DEF t
<1>5. \A q \in Users : q # t /\ pmm'.page[q] = pmm.page[q]
  <2> SUFFICES ASSUME NEW q \in Users PROVE q # t /\ pmm'.page[q] = pmm.page[q]
    OBVIOUS
  <2> DEFINE d == <<q, pmm.page[q].order>>
  <2>1. d \in HeldBlocks /\ d[1] = q
    BY UserFacts
  <2> HIDE DEF d
  <2> QED
    BY <1>4, <2>1, Zenon
<1>6. refs \in [Pages -> 0..MaxRefs] /\ MaxRefs \in Nat /\ MaxRefs > 0 /\ dropped \subseteq Pages
  BY SizesAssumption DEF PInv
<1>7. refs[t] = 0
  BY <1>4, <1>5, UsersOf
<1>8. refs' \in [Pages -> 0..MaxRefs] /\ \A q \in Pages : refs'[q] = IF q = t THEN 1 ELSE refs[q]
  BY <1>2, <1>4, <1>6, <1>7
<1>9. Users' = Users \cup {t}
  BY <1>2, <1>4, <1>6, <1>8 DEF Users
<1>10. HeldBlocks' = HeldBlocks \cup {c}
  <2>1. \A d : d \in HeldBlocks' <=> \E q \in Users' : d = <<q, pmm'.page[q].order>>
    BY BlocksAre DEF HeldBlocks, Users
  <2>2. \A d : d \in HeldBlocks <=> \E q \in Users : d = <<q, pmm.page[q].order>>
    BY BlocksAre
  <2>3. pmm'.page[t].order = o
    BY <1>4
  <2> QED
    BY <1>5, <1>9, <2>1, <2>2, <2>3
<1>11. t \in Span(c)
  <2>1. t \in Nat
    BY <1>4, Zenon DEF PInv, Allocator, Good, Types, Pages
  <2> QED
    BY <1>1, <2>1, OrderFacts, StartsInside
<1> HIDE DEF c, F
<1>12. Covered' = Covered
  BY <1>4, <1>10 DEF Covered, F, Blocks, PagesOf
<1>13. CountsAreRight'
  <2>1. ASSUME NEW q \in Pages, refs'[q] > 0
        PROVE  pmm'.page[q].flags = "USED" /\ pmm'.page[q].ref_count = refs'[q]
    <3>1. CASE q = t
      BY <1>4, <1>8, <3>1
    <3>2. CASE q # t
      <4>1. q \in Users /\ refs'[q] = refs[q]
        BY <1>8, <2>1, <3>2 DEF Users
      <4> QED
        BY <1>5, <4>1, UserFacts, Zenon
    <3> QED
      BY <3>1, <3>2
  <2>2. ASSUME NEW q \in dropped
        PROVE  refs'[q] = 0 /\ pmm'.page[q].flags = "USED" /\ pmm'.page[q].ref_count = 0
    <3>1. q \in Users /\ q \in Pages
      BY <1>6 DEF Users
    <3>2. refs[q] = 0 /\ pmm.page[q].flags = "USED" /\ pmm.page[q].ref_count = 0
      BY DEF PInv, CountsAreRight
    <3> QED
      BY <1>5, <1>8, <3>1, <3>2
  <2> QED
    BY <1>2, <1>4, <2>1, <2>2 DEF CountsAreRight
<1>14. MapInv' /\ BootInv' /\ (\A q \in Pages : q \in Covered <=> Usable(q))'
  BY <1>4, <1>12, SameMap
<1>15. \A q \in Pages : pmm'.page[q].flags = "USED" => q \in Covered
  <2>1. t \in Covered
    BY <1>4, <1>11 DEF Covered, F, Blocks, PagesOf
  <2> QED
    BY <1>4, <2>1 DEF PInv
<1>16. Allocator(pmm', HeldBlocks') /\ dropped' \subseteq Pages
  BY <1>2, <1>4, <1>6, <1>10, Zenon
<1> QED
  BY <1>4, <1>8, <1>12, <1>13, <1>14, <1>15, <1>16, Zenon DEF PInv

\* Only the reference count of a block changes.
LEMMA CountStep ==
    ASSUME PInv, UNCHANGED boot, entry > Len(memmap), NEW p \in Users,
           NEW n \in 0..MaxRefs,
           pmm' = [pmm EXCEPT !.page[p].ref_count = n],
           refs' = [refs EXCEPT ![p] = n],
           dropped' = IF n = 0 THEN dropped \cup {p} ELSE dropped \ {p}
    PROVE  PInv'
<1> DEFINE new == pmm'.page
<1>1. p \in Pages /\ pmm.page[p].flags = "USED"
  BY UserFacts, Zenon
<1>2. Good(pmm.page, FreeMap(pmm), HeldBlocks) /\ Listed(pmm) /\ Counted(pmm)
  BY DEF PInv, Allocator
<1>3. pmm.page \in [Pages -> PageRec]
  BY <1>2 DEF Good, Types, Pages
<1>4. /\ new = [pmm.page EXCEPT ![p].ref_count = n]
      /\ pmm'.free_areas = pmm.free_areas /\ pmm'.nr_free = pmm.nr_free
      /\ pmm'.used_pages = pmm.used_pages
  OBVIOUS
<1>5. n \in 0..(Pow2[Width] - 1) /\ MaxRefs \in Nat
  BY Pow, SizesAssumption
<1>6. /\ new \in [Pages -> PageRec] /\ Pages' = Pages
      /\ \A q \in Pages : new[q].flags = pmm.page[q].flags /\ new[q].order = pmm.page[q].order
      /\ \A q \in Pages : new[q].ref_count = IF q = p THEN n ELSE pmm.page[q].ref_count
  <2>1. new = [q \in Pages |-> IF q = p THEN [pmm.page[q] EXCEPT !.ref_count = n] ELSE pmm.page[q]]
    BY <1>1, <1>3, <1>4
  <2>2. \A r \in PageRec : /\ [r EXCEPT !.ref_count = n] \in PageRec
                           /\ [r EXCEPT !.ref_count = n].flags = r.flags
                           /\ [r EXCEPT !.ref_count = n].order = r.order
                           /\ [r EXCEPT !.ref_count = n].ref_count = n
    BY <1>5 DEF PageRec
  <2> HIDE DEF new
  <2>3. \A q \in Pages : pmm.page[q] \in PageRec
    BY <1>3
  <2>4. DOMAIN new = Pages
    BY <2>1
  <2>5. Pages' = Pages
    BY <2>4 DEF Pages, new
  <2>6. ASSUME NEW q \in Pages
        PROVE  /\ new[q] \in PageRec /\ new[q].flags = pmm.page[q].flags /\ new[q].order = pmm.page[q].order
               /\ new[q].ref_count = IF q = p THEN n ELSE pmm.page[q].ref_count
    BY <2>1, <2>2, <2>3
  <2>7. new \in [Pages -> PageRec]
    BY <2>1, <2>6
  <2> QED
    BY <2>5, <2>6, <2>7
<1> HIDE DEF new
<1>7. refs \in [Pages -> 0..MaxRefs] /\ dropped \subseteq Pages
  BY DEF PInv
<1>8. refs' \in [Pages -> 0..MaxRefs] /\ \A q \in Pages : refs'[q] = IF q = p THEN n ELSE refs[q]
  BY <1>1, <1>7
<1>9. Users' = Users
  <2>1. Users' = {q \in Pages : refs'[q] > 0} \cup dropped'
    BY <1>6 DEF Users
  <2>2. p \in Users'
    BY <1>1, <1>5, <1>8, <2>1
  <2>3. \A q : q # p => (q \in Users' <=> q \in Users)
    BY <1>8, <2>1 DEF Users
  <2>4. \A q : q \in Users' <=> q \in Users
    BY <2>2, <2>3
  <2> QED
    BY <2>4, Zenon
<1>10. HeldBlocks' = HeldBlocks
  <2>1. \A d : d \in HeldBlocks' <=> \E q \in Users' : d = <<q, new[q].order>>
    BY BlocksAre DEF HeldBlocks, Users, new
  <2>2. \A d : d \in HeldBlocks <=> \E q \in Users : d = <<q, pmm.page[q].order>>
    BY BlocksAre
  <2>3. \A q \in Users : new[q].order = pmm.page[q].order
    BY <1>6, <1>7 DEF Users
  <2> QED
    BY <1>9, <2>1, <2>2, <2>3, Zenon
<1>11. FreeMap(pmm') = FreeMap(pmm)
  BY <1>4 DEF FreeMap
<1>12. Allocator(pmm', HeldBlocks')
  <2>1. Good(new, FreeMap(pmm), HeldBlocks)
    BY <1>2, <1>6, SameMarks DEF Pages
  <2>2. Listed(pmm')
    BY <1>2, <1>4, <1>6 DEF Listed, Pages
  <2>3. Counted(pmm')
    BY <1>2, <1>4 DEF Counted
  <2> QED
    BY <1>10, <1>11, <2>1, <2>2, <2>3 DEF Allocator, new
<1>13. Covered' = Covered
  BY <1>10, <1>11 DEF Covered
<1>14. CountsAreRight'
  <2>1. ASSUME NEW q \in Pages, refs'[q] > 0
        PROVE  new[q].flags = "USED" /\ new[q].ref_count = refs'[q]
    <3>1. q \in Users
      BY <1>6, <1>9, <2>1 DEF Users
    <3> QED
      BY <1>6, <1>8, <3>1, UserFacts, Zenon
  <2>2. ASSUME NEW q \in dropped'
        PROVE  refs'[q] = 0 /\ new[q].flags = "USED" /\ new[q].ref_count = 0
    <3>1. q \in Pages
      BY <1>1, <1>7, <2>2
    <3>2. CASE q = p
      BY <1>1, <1>6, <1>8, <2>2, <3>2
    <3>3. CASE q # p
      <4>1. q \in dropped
        BY <2>2, <3>3
      <4>2. refs[q] = 0 /\ pmm.page[q].flags = "USED" /\ pmm.page[q].ref_count = 0
        BY <4>1 DEF PInv, CountsAreRight
      <4> QED
        BY <1>6, <1>8, <3>1, <3>3, <4>2
    <3> QED
      BY <3>2, <3>3
  <2> QED
    BY <1>6, <2>1, <2>2 DEF CountsAreRight, new
<1>15. MapInv' /\ BootInv' /\ (\A q \in Pages : q \in Covered <=> Usable(q))'
  BY <1>6, <1>13, SameMap
<1>16. \A q \in Pages : pmm'.page[q].flags = "USED" => q \in Covered
  BY <1>6 DEF PInv, new
<1>17. dropped' \subseteq Pages
  BY <1>1, <1>7
<1> QED
  BY <1>6, <1>8, <1>12, <1>13, <1>14, <1>15, <1>16, <1>17 DEF PInv

\* Counts that are in range do not wrap.
LEMMA NoWrap == \A n \in 0..MaxRefs : Unsigned(n) = n
<1>1. Pow2[Width] \in Nat /\ MaxRefs < Pow2[Width] /\ MaxRefs \in Nat
  BY Pow, SizesAssumption
<1>2. \A M \in Nat, n \in Nat : n < M => n % M = n
  OBVIOUS
<1> HIDE DEF Pow2
<1> QED
  BY <1>1, <1>2 DEF Unsigned

\* A user gives its block to another one.
LEMMA IncStep ==
    ASSUME PInv, entry > Len(memmap), NEW p \in Pages, pmm_page_inc_ref(p)
    PROVE  PInv'
<1> DEFINE n == refs[p] + 1
<1>1. refs[p] \in 1..(MaxRefs - 1) /\ MaxRefs \in Nat /\ UNCHANGED boot /\ dropped' = dropped
  BY SizesAssumption DEF pmm_page_inc_ref
<1>2. p \in Users /\ n \in 0..MaxRefs /\ n # 0
  BY <1>1 DEF Users
<1>3. pmm.page[p].flags = "USED" /\ pmm.page[p].ref_count = refs[p] /\ p \notin dropped
  <2>1. refs[p] > 0
    BY <1>1
  <2> QED
    BY <1>1, <2>1 DEF PInv, CountsAreRight
<1>4. Unsigned(pmm.page[p].ref_count + 1) = n
  BY <1>2, <1>3, NoWrap
<1>5. pmm' = [pmm EXCEPT !.page[p].ref_count = n] /\ refs' = [refs EXCEPT ![p] = n]
  BY <1>3, <1>4 DEF pmm_page_inc_ref
<1>6. dropped' = IF n = 0 THEN dropped \cup {p} ELSE dropped \ {p}
  BY <1>1, <1>2, <1>3
<1> HIDE DEF n
<1> QED
  BY <1>1, <1>2, <1>5, <1>6, CountStep, Zenon

\* A user drops its reference; page 0 is in no block, and its flags are RESERVED.
LEMMA DecStep ==
    ASSUME PInv, entry > Len(memmap), NEW p \in Pages, pmm_page_dec_ref(p)
    PROVE  PInv'
<1>1. UNCHANGED boot /\ refs[p] \in 0..MaxRefs /\ MaxRefs \in Nat /\ refs \in [Pages -> 0..MaxRefs]
  BY SizesAssumption DEF pmm_page_dec_ref, PInv
<1>2. CASE refs[p] > 0
  <2> DEFINE n == refs[p] - 1
  <2>1. p \in Users /\ n \in 0..MaxRefs
    BY <1>1, <1>2 DEF Users
  <2>2. pmm.page[p].flags = "USED" /\ pmm.page[p].ref_count = refs[p] /\ p \notin dropped
    BY <1>1, <1>2 DEF PInv, CountsAreRight
  <2>3. Unsigned(pmm.page[p].ref_count - 1) = n
    BY <2>1, <2>2, NoWrap
  <2>4. /\ pmm' = [pmm EXCEPT !.page[p].ref_count = n] /\ refs' = [refs EXCEPT ![p] = n]
        /\ dropped' = IF pmm'.page[p].ref_count = 0 THEN dropped \cup {p} ELSE dropped
    BY <1>2, <2>2, <2>3, Zenon DEF pmm_page_dec_ref
  <2> HIDE DEF n
  <2>5. pmm'.page[p].ref_count = n
    <3>1. pmm'.page = [pmm.page EXCEPT ![p].ref_count = n]
      BY <2>4
    <3>2. pmm.page \in [Pages -> PageRec]
      BY DEF PInv, Allocator, Good, Types, Pages
    <3> QED
      BY <3>1, <3>2 DEF PageRec
  <2>6. dropped' = IF n = 0 THEN dropped \cup {p} ELSE dropped \ {p}
    BY <2>2, <2>4, <2>5, Zenon
  <2> QED
    BY <1>1, <2>1, <2>4, <2>6, CountStep, Zenon
<1>3. CASE ~ (refs[p] > 0)
  <2>1. p = 0 /\ refs[p] = 0
    BY <1>1, <1>3 DEF pmm_page_dec_ref
  <2>2. ~ Usable(p)
    BY <2>1 DEF Usable
  <2>3. pmm.page[p].flags # "USED"
    BY <2>2 DEF PInv
  <2>4. pmm' = pmm /\ dropped' = dropped /\ refs' = refs
    BY <1>1, <2>1, <2>3 DEF pmm_page_dec_ref
  <2>5. Pages' = Pages /\ Covered' = Covered /\ HeldBlocks' = HeldBlocks /\ (CountsAreRight' <=> CountsAreRight)
    BY <2>4 DEF Pages, Covered, HeldBlocks, CountsAreRight
  <2>6. MapInv' /\ BootInv' /\ (\A q \in Pages : q \in Covered <=> Usable(q))'
    BY <1>1, <2>5, SameMap
  <2> QED
    BY <2>4, <2>5, <2>6 DEF PInv
<1> QED
  BY <1>2, <1>3

\* A bounded set of numbers has a greatest one, which Max returns.
LEMMA Greatest ==
    ASSUME NEW n \in Nat, NEW T \in SUBSET (0..n), T # {}
    PROVE  Max(T) \in T /\ \A m \in T : Max(T) >= m
<1> DEFINE D == {d \in 0..n : n - d \in T}
<1>1. D \in SUBSET Nat /\ D # {}
  <2>1. PICK m \in T : TRUE
    BY Zenon
  <2>2. n - m \in 0..n /\ n - (n - m) = m
    OBVIOUS
  <2>3. n - m \in D
    BY <2>1, <2>2
  <2> QED
    BY <2>3
<1>2. PICK d \in D : \A e \in D : d <= e
  BY <1>1, Least, Zenon
<1>3. ASSUME NEW m \in T PROVE n - d >= m
  <2>1. m \in 0..n
    OBVIOUS
  <2>2. n - m \in 0..n /\ n - (n - m) = m
    BY <2>1
  <2>3. n - m \in D
    BY <2>2
  <2>4. d <= n - m
    BY <1>2, <2>3
  <2> QED
    BY <2>1, <2>4
<1>4. n - d \in T
  BY <1>2
<1> HIDE DEF D
<1>5. \E x \in T : \A y \in T : x >= y
  BY <1>3, <1>4, Zenon
<1> QED
  BY <1>5, Zenon DEF Max

\* The block that pmm_init frees is aligned and does not reach beyond the entry.
LEMMA BiggestIs ==
    ASSUME NEW p \in Nat, NEW end \in Nat, p < end
    PROVE  LET o == BiggestOrder(p, end)
           IN  o \in Orders /\ Aligned(p, o) /\ p + Pow2[o] <= end
<1> DEFINE fits == {o \in Orders : p % Pow2[o] = 0 /\ p + Pow2[o] <= end}
           T == {0} \cup fits
           top == PMM_MAX_ORDER - 1
<1>1. top \in Nat /\ Orders = 0..top /\ 0 \in Orders
  BY SizesAssumption DEF Orders
<1>2. 0 \in fits
  <2>1. Pow2[0] = 1 /\ p % 1 = 0
    BY Pow
  <2> QED
    BY <1>1, <2>1
<1>3. fits \subseteq 0..top /\ T = fits
  BY <1>1, <1>2
<1> HIDE DEF top, fits
<1>4. Max(T) \in T
  BY <1>1, <1>2, <1>3, Greatest, Zenon
<1>5. BiggestOrder(p, end) = Max(T)
  BY DEF BiggestOrder, fits
<1> HIDE DEF T
<1>6. BiggestOrder(p, end) \in fits
  BY <1>3, <1>4, <1>5
<1> DEFINE b == BiggestOrder(p, end)
<1> HIDE DEF b
<1>7. b \in Orders /\ p % Pow2[b] = 0 /\ p + Pow2[b] <= end
  BY <1>6 DEF fits, b
<1>8. Aligned(p, b)
  BY <1>7, OrderFacts, AlignedMod
<1> QED
  BY <1>7, <1>8 DEF b

\* The pages of an entry of the memory map.
LEMMA EntryFacts ==
    ASSUME MapInv, NEW i \in 1..Len(memmap)
    PROVE  /\ memmap[i].base \in Nat /\ memmap[i].length \in Nat
           /\ FirstPage(memmap[i]) \in Nat /\ FirstPage(memmap[i]) >= 1 /\ EndPage(memmap[i]) \in Nat
           /\ \A p \in Nat : /\ p >= FirstPage(memmap[i]) <=> p # 0 /\ memmap[i].base <= p * PMM_PAGE_SIZE
                             /\ p < EndPage(memmap[i]) <=>
                                   (p + 1) * PMM_PAGE_SIZE <= memmap[i].base + memmap[i].length
<1> DEFINE b == memmap[i].base
           n == NumPages(b)
           f == FirstPage(memmap[i])
           e == memmap[i].base + memmap[i].length
<1>1. memmap[i].base \in Nat /\ memmap[i].length \in Nat
  <2>1. memmap[i] \in Entry
    BY DEF MapInv
  <2> QED
    BY <2>1 DEF Entry
<1>2. n \in Nat
  BY <1>1, PageNumbers, Zenon
<1>3. f = IF n >= 1 THEN n ELSE 1
  <2>1. f = Max({1, n})
    BY DEF FirstPage
  <2> HIDE DEF n, f
  <2>2. {1, n} \in SUBSET (0..(n + 1)) /\ {1, n} # {} /\ n + 1 \in Nat
    BY <1>2
  <2> DEFINE T == {1, n}
  <2>3. \A x : x \in T <=> x = 1 \/ x = n
    OBVIOUS
  <2> HIDE DEF T
  <2>4. Max(T) \in T /\ \A m \in T : Max(T) >= m
    BY <2>2, Greatest, Zenon DEF T
  <2>5. f = Max(T)
    BY <2>1 DEF T
  <2> QED
    BY <1>2, <2>3, <2>4, <2>5, SMTT(20)
<1>4. EndPage(memmap[i]) = e \div PMM_PAGE_SIZE /\ e \in Nat
  BY <1>1 DEF EndPage
<1>5. EndPage(memmap[i]) \in Nat
  BY <1>4, PageNumbers, Zenon
<1> HIDE DEF n, f, e
<1>6. ASSUME NEW p \in Nat PROVE p >= f <=> p # 0 /\ b <= p * PMM_PAGE_SIZE
  <2>1. n <= p <=> b <= p * PMM_PAGE_SIZE
    BY <1>1, PageNumbers, Zenon DEF n
  <2> HIDE DEF b
  <2> QED
    BY <1>2, <1>3, <2>1
<1>7. ASSUME NEW p \in Nat PROVE p < EndPage(memmap[i]) <=> (p + 1) * PMM_PAGE_SIZE <= e
  <2>1. p + 1 \in Nat
    OBVIOUS
  <2>2. p + 1 <= e \div PMM_PAGE_SIZE <=> (p + 1) * PMM_PAGE_SIZE <= e
    BY <1>4, <2>1, PageNumbers
  <2> QED
    BY <1>4, <1>5, <2>2
<1>8. f \in Nat /\ f >= 1
  BY <1>2, <1>3
<1> QED
  BY <1>1, <1>5, <1>6, <1>7, <1>8, Zenon DEF f, e

\* The pages that pmm_init has come to, in terms of page numbers.
LEMMA UsableIs ==
    ASSUME MapInv, NEW p \in Nat
    PROVE  Usable(p) <=> \E i \in 1..Len(memmap) :
               /\ memmap[i].type = "usable" /\ FirstPage(memmap[i]) <= p /\ p < EndPage(memmap[i])
               /\ i < entry \/ (i = entry /\ p < current_page)
<1>1. \A i \in 1..Len(memmap) :
         (FirstPage(memmap[i]) <= p /\ p < EndPage(memmap[i])) <=>
            (p # 0 /\ memmap[i].base <= p * PMM_PAGE_SIZE
              /\ (p + 1) * PMM_PAGE_SIZE <= memmap[i].base + memmap[i].length)
  <2> SUFFICES ASSUME NEW i \in 1..Len(memmap)
               PROVE  (FirstPage(memmap[i]) <= p /\ p < EndPage(memmap[i])) <=>
                        (p # 0 /\ memmap[i].base <= p * PMM_PAGE_SIZE
                           /\ (p + 1) * PMM_PAGE_SIZE <= memmap[i].base + memmap[i].length)
    OBVIOUS
  <2>1. /\ FirstPage(memmap[i]) \in Nat
        /\ p >= FirstPage(memmap[i]) <=> p # 0 /\ memmap[i].base <= p * PMM_PAGE_SIZE
        /\ p < EndPage(memmap[i]) <=> (p + 1) * PMM_PAGE_SIZE <= memmap[i].base + memmap[i].length
    BY EntryFacts, Zenon
  <2> DEFINE f == FirstPage(memmap[i])
  <2>2. f <= p <=> p >= f
    <3> HIDE DEF f
    <3> QED
      BY <2>1 DEF f
  <2> QED
    BY <2>1, <2>2, Zenon
<1> QED
  BY <1>1, Zenon DEF Usable

\* Entries do not overlap: a page belongs to one of them.
LEMMA EntriesApart ==
    ASSUME MapInv, NEW i \in 1..Len(memmap), NEW j \in 1..Len(memmap), i < j, memmap[i].type = "usable"
    PROVE  EndPage(memmap[i]) <= FirstPage(memmap[j])
<1> DEFINE S == PMM_PAGE_SIZE
           f == FirstPage(memmap[j])
           e == EndPage(memmap[i])
<1>1. memmap[i].base + memmap[i].length <= memmap[j].base
  BY DEF MapInv
<1>2. f \in Nat /\ e \in Nat
  BY EntryFacts, Zenon
<1>3. memmap[j].base <= f * S /\ memmap[j].base \in Nat /\ memmap[i].base + memmap[i].length \in Nat
  <2>1. f >= f
    <3> HIDE DEF f
    <3> QED
      BY <1>2
  <2>2. \A p \in Nat : p >= f <=> p # 0 /\ memmap[j].base <= p * S
    BY EntryFacts, Zenon
  <2>3. memmap[j].base \in Nat /\ memmap[i].base \in Nat /\ memmap[i].length \in Nat
    BY EntryFacts, Zenon
  <2> HIDE DEF f, S
  <2> QED
    BY <1>2, <2>1, <2>2, <2>3
<1>4. ASSUME f < e PROVE FALSE
  <2>1. (f + 1) * S <= memmap[i].base + memmap[i].length
    BY <1>2, <1>4, EntryFacts
  <2>2. (f + 1) * S = f * S + S /\ S > 0 /\ S \in Nat /\ f * S \in Nat
    <3>1. S \in Nat /\ S > 0
      BY SizesAssumption
    <3> HIDE DEF f, S
    <3> QED
      BY <1>2, <3>1
  <2> HIDE DEF f, S
  <2> QED
    BY <1>1, <1>3, <2>1, <2>2
<1> HIDE DEF f, e
<1>5. e <= f
  BY <1>2, <1>4
<1> QED
  BY <1>5 DEF e, f

\* The block that pmm_init is about to free: its pages are in no other.
LEMMA BootBlock ==
    ASSUME PInv, entry <= Len(memmap),
           memmap[entry].type = "usable", current_page < EndPage(memmap[entry])
    PROVE  Allocator(pmm, {<<current_page, BiggestOrder(current_page, EndPage(memmap[entry]))>>})
<1> DEFINE e == memmap[entry]
           end == EndPage(memmap[entry])
           cp == current_page
           o == BiggestOrder(current_page, EndPage(memmap[entry]))
           c == <<cp, o>>
           F == FreeMap(pmm)
<1>1. MapInv /\ BootInv /\ entry \in 1..Len(memmap) /\ cp \in Nat /\ cp >= FirstPage(e) /\ Users = {}
  BY DEF PInv, BootInv, MapInv
<1>2. end \in Nat /\ FirstPage(e) \in Nat /\ FirstPage(e) >= 1
  BY <1>1, EntryFacts
<1>3. o \in Orders /\ Aligned(cp, o) /\ cp + Pow2[o] <= end
  BY <1>1, <1>2, BiggestIs
<1> HIDE DEF o
<1>4. o \in Nat /\ Pow2[o] \in Nat /\ Pow2[o] > 0
  BY <1>3, OrderFacts, Pow, Zenon
<1>5. \A q : q \in Span(c) <=> q \in Nat /\ cp <= q /\ q < cp + Pow2[o]
  BY <1>1, <1>4 DEF Span
<1>6. HeldBlocks = {}
  BY <1>1, BlocksAre
<1>7. Span(c) \subseteq Pages
  <2>1. \A q \in Nat : q < end => q \in Pages
    BY <1>1 DEF MapInv
  <2> HIDE DEF end
  <2> QED
    BY <1>1, <1>2, <1>3, <1>4, <1>5, <2>1
<1>8. \A q \in Span(c) : q \notin Covered
  <2> SUFFICES ASSUME NEW q \in Span(c), Usable(q) PROVE FALSE
    BY <1>7 DEF PInv
  <2>1. q \in Nat /\ cp <= q
    BY <1>5
  <2>2. PICK i \in 1..Len(memmap) :
            /\ memmap[i].type = "usable" /\ FirstPage(memmap[i]) <= q /\ q < EndPage(memmap[i])
            /\ i < entry \/ (i = entry /\ q < cp)
    BY <1>1, <2>1, UsableIs
  <2>3. i < entry
    BY <1>1, <2>1, <2>2
  <2>4. EndPage(memmap[i]) <= FirstPage(e) /\ EndPage(memmap[i]) \in Nat
    BY <1>1, <2>2, <2>3, EntriesApart, EntryFacts, Zenon
  <2> HIDE DEF e
  <2> QED
    BY <1>1, <1>2, <2>1, <2>2, <2>4
<1>9. Allocator(pmm, {c})
  <2>1. Good(pmm.page, F, {}) /\ Listed(pmm) /\ Counted(pmm)
    BY <1>6 DEF PInv, Allocator
  <2>2. cp \in Span(c)
    BY <1>1, <1>4, <1>5
  <2>3. Span(c) \cap PagesOf(Blocks(F, {})) = {}
    BY <1>6, <1>8 DEF Covered
  <2>4. Good(pmm.page, F, {} \cup {c})
    BY <1>3, <1>7, <2>1, <2>2, <2>3, HoldMore DEF Pages
  <2>5. {} \cup {c} = {c}
    OBVIOUS
  <2> HIDE DEF c, F
  <2> QED
    BY <2>1, <2>4, <2>5 DEF Allocator, F
<1> QED
  BY <1>9 DEF o

\* One turn of the last loop of pmm_init that frees a block.
LEMMA BootFree ==
    ASSUME PInv, entry <= Len(memmap), pmm_init,
           memmap[entry].type = "usable", current_page < EndPage(memmap[entry])
    PROVE  PInv'
<1> DEFINE e == memmap[entry]
           end == EndPage(memmap[entry])
           cp == current_page
           o == BiggestOrder(current_page, EndPage(memmap[entry]))
           c == <<cp, o>>
           F == FreeMap(pmm)
<1>1. /\ pmm' = pmm_free_pages(pmm, cp, o) /\ current_page' = cp + Pow2[o] /\ entry' = entry
      /\ memmap' = memmap /\ refs' = refs /\ dropped' = dropped
  BY DEF pmm_init
<1>2. MapInv /\ BootInv /\ entry \in 1..Len(memmap) /\ cp \in Nat /\ cp >= FirstPage(e) /\ Users = {}
  BY SMTT(30) DEF PInv, BootInv, MapInv
<1>3. end \in Nat /\ FirstPage(e) \in Nat /\ FirstPage(e) >= 1
  BY <1>2, EntryFacts
<1>4. o \in Orders /\ Aligned(cp, o) /\ cp + Pow2[o] <= end
  BY <1>2, <1>3, BiggestIs
<1> HIDE DEF o
<1>5. o \in Nat /\ Pow2[o] \in Nat /\ Pow2[o] > 0
  BY <1>4, OrderFacts, Pow, Zenon
<1>6. \A q : q \in Span(c) <=> q \in Nat /\ cp <= q /\ q < cp + Pow2[o]
  BY <1>2, <1>5 DEF Span
<1>7. HeldBlocks = {} /\ HeldBlocks' = {}
  <2>1. HeldBlocks = {}
    BY <1>2, BlocksAre
  <2>2. Pages' = Pages
    BY <1>1 DEF Pages, pmm_free_pages
  <2>3. Users' = Users
    BY <1>1, <2>2 DEF Users
  <2>4. \A d : d \in HeldBlocks' <=> \E q \in Users' : d = <<q, pmm'.page[q].order>>
    BY BlocksAre DEF HeldBlocks, Users
  <2> QED
    BY <1>2, <2>1, <2>3, <2>4
<1>10. Allocator(pmm, {c})
  BY BootBlock DEF o
<1>11. Freed(pmm, pmm', {c}, cp, o)
  <2>1. <<cp, o>> \in {c}
    OBVIOUS
  <2>2. Freed(pmm, pmm_free_pages(pmm, cp, o), {c}, cp, o)
    <3> HIDE DEF c
    <3> QED
      BY <1>10, <2>1, FreeIs
  <2> QED
    BY <1>1, <2>2
<1>12. /\ Pages' = Pages /\ Allocator(pmm', {c} \ {c})
       /\ PagesOf(FreeSet(FreeMap(pmm'))) = PagesOf(FreeSet(F)) \cup Span(c)
       /\ \A q \in Pages : pmm'.page[q].flags = "USED" => pmm.page[q].flags = "USED"
  BY <1>11 DEF Freed, Pages
<1> HIDE DEF c, F
<1>13. Allocator(pmm', HeldBlocks')
  <2>1. {c} \ {c} = {}
    OBVIOUS
  <2> QED
    BY <1>7, <1>12, <2>1, Zenon
<1>14. Covered' = Covered \cup Span(c)
  BY <1>7, <1>12 DEF Covered, Blocks, F
<1>15. MapInv'
  BY <1>1, <1>2, <1>12 DEF MapInv
<1>16. BootInv'
  <2>1. Users' = {}
    BY <1>1, <1>2, <1>12 DEF Users
  <2>2. current_page' \in Nat /\ current_page' >= FirstPage(e)
    <3> HIDE DEF e
    <3> QED
      BY <1>1, <1>2, <1>3, <1>5
  <2>3. entry \in Nat /\ entry > 0
    BY <1>2 DEF BootInv
  <2> QED
    BY <1>1, <2>1, <2>2, <2>3 DEF BootInv
<1>17. ASSUME NEW q \in Pages PROVE q \in Covered' <=> Usable(q)'
  <2>1. q \in Nat
    BY DEF PInv, Allocator, Good, Types, Pages
  <2>2. Usable(q)' <=> \E i \in 1..Len(memmap) :
               /\ memmap[i].type = "usable" /\ FirstPage(memmap[i]) <= q /\ q < EndPage(memmap[i])
               /\ i < entry \/ (i = entry /\ q < cp + Pow2[o])
    <3> DEFINE N(i) == /\ memmap[i].type = "usable"
                       /\ memmap[i].base <= q * PMM_PAGE_SIZE
                       /\ (q + 1) * PMM_PAGE_SIZE <= memmap[i].base + memmap[i].length
    <3>1. Usable(q)' <=> q # 0 /\ \E i \in 1..Len(memmap) : N(i) /\ (i < entry \/ (i = entry /\ q < cp + Pow2[o]))
      BY <1>1 DEF Usable
    <3>2. ASSUME NEW i \in 1..Len(memmap)
          PROVE  (q # 0 /\ N(i)) <=> /\ memmap[i].type = "usable"
                                     /\ FirstPage(memmap[i]) <= q /\ q < EndPage(memmap[i])
      <4>1. /\ FirstPage(memmap[i]) \in Nat
            /\ q >= FirstPage(memmap[i]) <=> q # 0 /\ memmap[i].base <= q * PMM_PAGE_SIZE
            /\ q < EndPage(memmap[i]) <=> (q + 1) * PMM_PAGE_SIZE <= memmap[i].base + memmap[i].length
        BY <1>2, <2>1, EntryFacts, SMTT(60)
      <4> DEFINE f == FirstPage(memmap[i])
      <4>2. f <= q <=> q >= f
        <5> HIDE DEF f
        <5> QED
          BY <2>1, <4>1 DEF f
      <4> QED
        BY <4>1, <4>2, Zenon
    <3> HIDE DEF N
    <3> QED
      BY <3>1, <3>2, Zenon
  <2>3. Usable(q) <=> \E i \in 1..Len(memmap) :
               /\ memmap[i].type = "usable" /\ FirstPage(memmap[i]) <= q /\ q < EndPage(memmap[i])
               /\ i < entry \/ (i = entry /\ q < cp)
    BY <1>2, <2>1, UsableIs
  <2>4. q \in Span(c) <=> cp <= q /\ q < cp + Pow2[o]
    BY <1>6, <2>1
  <2>5. ASSUME q \in Span(c) PROVE Usable(q)'
    <3>1. FirstPage(e) <= q /\ q < end /\ q < cp + Pow2[o]
      <4> HIDE DEF e, end
      <4> QED
        BY <1>2, <1>3, <1>4, <1>5, <2>1, <2>4, <2>5
    <3> QED
      BY <1>2, <2>2, <3>1
  <2>6. ASSUME q \notin Span(c) PROVE Usable(q)' <=> Usable(q)
    <3>1. q < cp + Pow2[o] <=> q < cp
      BY <1>2, <1>5, <2>1, <2>4, <2>6
    <3> QED
      BY <2>2, <2>3, <3>1, Zenon
  <2>7. q \in Covered <=> Usable(q)
    BY DEF PInv
  <2> QED
    BY <1>14, <2>5, <2>6, <2>7, Zenon
<1>18. \A q \in Pages : pmm'.page[q].flags = "USED" => q \in Covered'
  BY <1>12, <1>14 DEF PInv
<1>19. CountsAreRight' /\ refs' \in [Pages -> 0..MaxRefs] /\ dropped' \subseteq Pages
  <2>1. refs \in [Pages -> 0..MaxRefs] /\ MaxRefs \in Nat /\ dropped = {} /\ \A q \in Pages : ~ (refs[q] > 0)
    BY <1>2, SizesAssumption DEF PInv, Users
  <2> QED
    BY <1>1, <1>12, <2>1 DEF CountsAreRight
<1> QED
  BY <1>12, <1>13, <1>15, <1>16, <1>17, <1>18, <1>19 DEF PInv

\* One turn of the last loop of pmm_init that goes on to the next entry.
LEMMA BootNext ==
    ASSUME PInv, entry <= Len(memmap), pmm_init,
           ~ (memmap[entry].type = "usable" /\ current_page < EndPage(memmap[entry]))
    PROVE  PInv'
<1>1. /\ entry' = entry + 1
      /\ current_page' = IF entry < Len(memmap) THEN FirstPage(memmap[entry + 1]) ELSE 0
      /\ pmm' = pmm /\ memmap' = memmap /\ refs' = refs /\ dropped' = dropped
  BY DEF pmm_init
<1>2. /\ MapInv /\ BootInv /\ entry \in 1..Len(memmap) /\ entry \in Nat /\ Len(memmap) \in Nat
      /\ current_page \in Nat /\ Users = {}
  BY SMTT(30) DEF PInv, BootInv, MapInv
<1>3. /\ Pages' = Pages /\ Covered' = Covered /\ HeldBlocks' = HeldBlocks /\ Users' = Users
      /\ (CountsAreRight' <=> CountsAreRight)
  BY <1>1 DEF Pages, Covered, HeldBlocks, CountsAreRight, Users
<1>4. entry < Len(memmap) => entry + 1 \in 1..Len(memmap)
  BY <1>2
<1>5. MapInv'
  BY <1>1, <1>2, <1>3 DEF MapInv
<1>6. BootInv'
  <2>1. entry' \in Nat /\ entry' > 0
    BY <1>1, <1>2
  <2>2. current_page' \in Nat /\ (entry < Len(memmap) => current_page' >= FirstPage(memmap[entry + 1]))
    <3>1. CASE entry < Len(memmap)
      <4> DEFINE f == FirstPage(memmap[entry + 1])
      <4>1. f \in Nat
        BY <1>2, <1>4, <3>1, EntryFacts
      <4>2. current_page' = f
        BY <1>1, <3>1
      <4> HIDE DEF f
      <4>3. current_page' \in Nat /\ current_page' >= f
        BY <4>1, <4>2
      <4> QED
        BY <4>3 DEF f
    <3>2. CASE ~ (entry < Len(memmap))
      BY <1>1, <3>2
    <3> QED
      BY <3>1, <3>2
  <2>3. entry' <= Len(memmap) => entry < Len(memmap)
    BY <1>1, <1>2
  <2> QED
    BY <1>1, <1>2, <1>3, <2>1, <2>2, <2>3 DEF BootInv
<1>7. ASSUME NEW q \in Pages PROVE Usable(q)' <=> Usable(q)
  <2>1. q \in Nat
    BY DEF PInv, Allocator, Good, Types, Pages
  <2> DEFINE N(i) == /\ memmap[i].type = "usable"
                     /\ memmap[i].base <= q * PMM_PAGE_SIZE
                     /\ (q + 1) * PMM_PAGE_SIZE <= memmap[i].base + memmap[i].length
  <2>2. /\ Usable(q)' <=> q # 0 /\ \E i \in 1..Len(memmap) : N(i) /\ (i < entry' \/ (i = entry' /\ q < current_page'))
        /\ Usable(q) <=> q # 0 /\ \E i \in 1..Len(memmap) : N(i) /\ (i < entry \/ (i = entry /\ q < current_page))
    BY <1>1 DEF Usable
  <2>3. ASSUME NEW i \in 1..Len(memmap), q # 0, N(i)
        PROVE  (i < entry' \/ (i = entry' /\ q < current_page')) <=> (i < entry \/ (i = entry /\ q < current_page))
    <3>1. /\ FirstPage(memmap[i]) \in Nat /\ EndPage(memmap[i]) \in Nat
          /\ q >= FirstPage(memmap[i]) <=> q # 0 /\ memmap[i].base <= q * PMM_PAGE_SIZE
          /\ q < EndPage(memmap[i]) <=> (q + 1) * PMM_PAGE_SIZE <= memmap[i].base + memmap[i].length
      BY <1>2, <2>1, EntryFacts
    <3>2. q >= FirstPage(memmap[i]) /\ q < EndPage(memmap[i]) /\ memmap[i].type = "usable"
      BY <2>3, <3>1
    <3> DEFINE f == FirstPage(memmap[i])
               e == EndPage(memmap[i])
    <3> HIDE DEF f, e, N
    <3>3. f \in Nat /\ e \in Nat /\ q >= f /\ q < e
      BY <3>1, <3>2 DEF f, e
    <3>4. i = entry => ~ (current_page < e)
      BY <3>2 DEF e
    <3>5. i = entry => q < current_page
      BY <1>2, <2>1, <3>3, <3>4
    <3>6. i = entry + 1 => current_page' = f
      BY <1>1, <1>2 DEF f
    <3>7. i = entry + 1 => ~ (q < current_page')
      BY <2>1, <3>3, <3>6
    <3> QED
      BY <1>1, <1>2, <3>5, <3>7
  <2> HIDE DEF N
  <2> QED
    BY <2>2, <2>3, Zenon
<1> QED
  BY <1>1, <1>3, <1>5, <1>6, <1>7 DEF PInv

\* The state in which pmm_init starts to free blocks.
LEMMA Starts == PmmInit => PInv
<1> SUFFICES ASSUME PmmInit PROVE PInv
  OBVIOUS
<1>1. PICK mm \in Memmaps :
        /\ \E i \in 1..Len(mm) : Hosts(mm, i)
        /\ memmap = Reduced(mm) /\ entry = 1 /\ current_page = FirstPage(memmap[1])
        /\ pmm = Reserved(NumPages(highestAddr(mm)))
        /\ refs = [p \in DOMAIN pmm.page |-> 0] /\ dropped = {}
  BY DEF PmmInit
<1> DEFINE n == Len(mm)
           size == MemmapSize(mm)
           h == Host(mm)
           top == highestAddr(mm)
           total == NumPages(top)
<1>2. /\ mm \in Seq(Entry) /\ n \in Nat
      /\ \A i, j \in 1..n : i < j /\ mm[i].type = "usable" => mm[i].base + mm[i].length <= mm[j].base
  BY MemmapsAssumption
<1>3. \A i \in 1..n : mm[i] \in Entry /\ mm[i].base \in Nat /\ mm[i].length \in Nat
  <2>1. \A i \in 1..n : mm[i] \in Entry
    BY <1>2
  <2>2. \A r \in Entry : r.base \in Nat /\ r.length \in Nat
    BY DEF Entry
  <2> QED
    BY <2>1, <2>2
<1>4. PICK w \in 1..n : Hosts(mm, w)
  BY <1>1
<1>5. top \in Nat /\ \A i \in 1..n : mm[i].type = "usable" => mm[i].base + mm[i].length <= top
  <2> DEFINE T == {i \in 1..n : mm[i].type # "ignored"}
             last == Max(T)
  <2>1. T \in SUBSET (0..n) /\ w \in T
    BY <1>2, <1>4 DEF Hosts
  <2>2. last \in T /\ \A m \in T : last >= m
    BY <1>2, <2>1, Greatest, Zenon
  <2>3. top = mm[last].base + mm[last].length
    BY DEF highestAddr
  <2> HIDE DEF last, top, n
  <2>4. last \in 1..n /\ last \in Nat
    BY <1>2, <2>2
  <2>5. top \in Nat
    BY <1>3, <2>3, <2>4
  <2>6. ASSUME NEW i \in 1..n, mm[i].type = "usable" PROVE mm[i].base + mm[i].length <= top
    <3>1. i \in T /\ i \in Nat
      BY <1>2, <2>6
    <3>2. i <= last
      BY <2>2, <2>4, <3>1
    <3>3. CASE i = last
      BY <1>3, <2>3, <2>4, <3>3
    <3>4. CASE i < last
      <4>1. mm[i].base + mm[i].length <= mm[last].base
        BY <1>2, <2>4, <2>6, <3>4
      <4> QED
        BY <1>3, <2>3, <2>4, <4>1
    <3> QED
      BY <2>4, <3>1, <3>2, <3>3, <3>4
  <2> QED
    BY <2>5, <2>6
<1>6. total \in Nat /\ size \in Nat
  <2>1. total \in Nat
    BY <1>5, PageNumbers
  <2>2. PageStruct \in Nat
    BY SizesAssumption
  <2> HIDE DEF total
  <2>3. size = total * PageStruct
    BY DEF MemmapSize, total
  <2> QED
    BY <2>1, <2>2, <2>3
<1>7. h \in 1..n /\ mm[h].type = "usable" /\ mm[h].length >= size
  <2> DEFINE T == {i \in 1..n : Hosts(mm, i)}
  <2>1. T \in SUBSET Nat /\ w \in T
    BY <1>2, <1>4
  <2>2. PICK m \in T : \A j \in T : m <= j
    BY <2>1, Least, Zenon
  <2>3. Min(T) \in T
    BY <2>2 DEF Min
  <2>4. h = Min(T)
    BY DEF Host
  <2> QED
    BY <2>3, <2>4 DEF Hosts
<1> HIDE DEF n, size, h, top, total
<1> DEFINE new == [type |-> "usable", base |-> mm[h].base + size, length |-> mm[h].length - size]
<1>8. memmap = [i \in 1..n |-> IF i = h THEN new ELSE mm[i]]
  <2>1. DOMAIN mm = 1..n
    BY <1>2 DEF n
  <2>2. mm[h] = [type |-> "usable", base |-> mm[h].base, length |-> mm[h].length]
    BY <1>3, <1>7 DEF Entry
  <2>3. memmap = [mm EXCEPT ![h].base = @ + size, ![h].length = @ - size]
    BY <1>1 DEF Reduced, h, size
  <2>4. memmap = [i \in 1..n |-> IF i = h THEN [[mm[h] EXCEPT !.base = @ + size] EXCEPT !.length = @ - size]
                                 ELSE mm[i]]
    BY <1>7, <2>1, <2>3, Zenon
  <2>5. [[mm[h] EXCEPT !.base = @ + size] EXCEPT !.length = @ - size] = new
    <3>1. \A r \in Entry : \A x, y : /\ [r EXCEPT !.base = x] = [type |-> r.type, base |-> x, length |-> r.length]
                                     /\ [r EXCEPT !.length = y] = [type |-> r.type, base |-> r.base, length |-> y]
      BY DEF Entry
    <3> DEFINE r == [mm[h] EXCEPT !.base = mm[h].base + size]
    <3>2. r = [type |-> "usable", base |-> mm[h].base + size, length |-> mm[h].length]
      BY <1>3, <1>7, <3>1, Zenon
    <3>3. r \in Entry
      BY <1>3, <1>6, <1>7, <3>2 DEF Entry
    <3>4. r.type = "usable" /\ r.base = mm[h].base + size /\ r.length = mm[h].length
      BY <3>2
    <3> HIDE DEF r
    <3>5. [r EXCEPT !.length = r.length - size] = new
      BY <3>1, <3>3, <3>4, Zenon
    <3> QED
      BY <3>5 DEF r
  <2> QED
    BY <2>4, <2>5
<1>9. new \in Entry
  BY <1>3, <1>6, <1>7 DEF Entry
<1>10. /\ memmap \in Seq(Entry) /\ Len(memmap) = n
       /\ \A i \in 1..n : memmap[i] = IF i = h THEN new ELSE mm[i]
  <2> HIDE DEF new
  <2>1. memmap \in [1..n -> Entry]
    BY <1>3, <1>8, <1>9
  <2> QED
    BY <1>2, <1>8, <2>1
<1>11. \A i \in 1..n : /\ memmap[i].type = mm[i].type /\ memmap[i].base \in Nat
                       /\ memmap[i].base >= mm[i].base
                       /\ memmap[i].base + memmap[i].length = mm[i].base + mm[i].length
  <2> SUFFICES ASSUME NEW i \in 1..n
               PROVE  /\ memmap[i].type = mm[i].type /\ memmap[i].base \in Nat
                      /\ memmap[i].base >= mm[i].base
                      /\ memmap[i].base + memmap[i].length = mm[i].base + mm[i].length
    OBVIOUS
  <2>1. CASE i = h
    <3>1. memmap[i] = new
      BY <1>10, <2>1
    <3>2. memmap[i].type = "usable" /\ memmap[i].base = mm[h].base + size /\ memmap[i].length = mm[h].length - size
      BY <3>1
    <3> QED
      BY <1>3, <1>6, <1>7, <2>1, <3>2
  <2>2. CASE i # h
    <3>1. memmap[i] = mm[i]
      BY <1>10, <2>2
    <3> QED
      BY <1>3, <3>1
  <2> QED
    BY <2>1, <2>2
<1> HIDE DEF new
<1>12. /\ pmm.page = [p \in 0..(total - 1) |-> [flags |-> "RESERVED", ref_count |-> 1, order |-> 0]]
       /\ pmm.free_areas = [o \in Orders |-> <<>>] /\ pmm.nr_free = [o \in Orders |-> 0]
       /\ pmm.used_pages = Unsigned(total)
  BY <1>1 DEF Reserved, total, top
<1>13. Pages = 0..(total - 1) /\ refs = [p \in Pages |-> 0]
  BY <1>1, <1>12 DEF Pages
<1>14. MapInv
  <2>1. ASSUME NEW i \in 1..n, NEW j \in 1..n, i < j, memmap[i].type = "usable"
        PROVE  memmap[i].base + memmap[i].length <= memmap[j].base
    <3>1. mm[i].base + mm[i].length <= mm[j].base
      BY <1>2, <1>11, <2>1
    <3> QED
      BY <1>3, <1>11, <3>1
  <2>2. ASSUME NEW i \in 1..n, memmap[i].type = "usable", NEW p \in Nat, p < EndPage(memmap[i])
        PROVE  p \in Pages
    <3> DEFINE e == mm[i].base + mm[i].length
               S == PMM_PAGE_SIZE
    <3>1. EndPage(memmap[i]) = e \div S /\ e \in Nat /\ e <= top
      BY <1>3, <1>5, <1>11, <2>2 DEF EndPage
    <3> HIDE DEF e
    <3>2. p + 1 \in Nat /\ e \div S \in Nat
      BY <3>1, PageNumbers
    <3>3. (p + 1) * S <= e
      BY <2>2, <3>1, <3>2, PageNumbers
    <3>4. ASSUME total <= p PROVE FALSE
      <4>1. top <= p * S
        BY <1>5, <3>4, PageNumbers DEF total
      <4>2. (p + 1) * S = p * S + S /\ S > 0 /\ S \in Nat /\ p * S \in Nat
        <5>1. S \in Nat /\ S > 0
          BY SizesAssumption
        <5> HIDE DEF S
        <5> QED
          BY <5>1
      <4> HIDE DEF S
      <4> QED
        BY <1>5, <3>1, <3>3, <4>1, <4>2
    <3> QED
      BY <1>6, <1>13, <3>4
  <2>3. IsFiniteSet(Pages)
    BY <1>6, <1>13, FS_Interval
  <2> QED
    BY <1>10, <2>1, <2>2, <2>3 DEF MapInv
<1>15. Users = {} /\ HeldBlocks = {}
  <2>1. \A q \in Pages : refs[q] = 0
    BY <1>13
  <2>2. Users = {}
    BY <1>1, <2>1 DEF Users
  <2> QED
    BY <2>2, BlocksAre
<1>16. BootInv
  <2>1. 1 \in 1..Len(memmap)
    BY <1>2, <1>7, <1>10
  <2> DEFINE f == FirstPage(memmap[1])
  <2>2. f \in Nat
    BY <1>14, <2>1, EntryFacts
  <2>3. current_page = f
    BY <1>1
  <2> HIDE DEF f
  <2>4. current_page \in Nat /\ current_page >= f
    BY <2>2, <2>3
  <2> QED
    BY <1>1, <1>15, <2>4 DEF BootInv, f
<1>17. \A o \in Orders : FreeMap(pmm)[o] = {}
  BY <1>12 DEF FreeMap, Range
<1>18. Allocator(pmm, HeldBlocks)
  <2>1. 1 \in 0..(Pow2[Width] - 1) /\ 0 \in 0..(Pow2[Width] - 1) /\ 0 \in Orders
    BY Pow, SizesAssumption DEF Orders
  <2> DEFINE F == FreeMap(pmm)
  <2>2. F = [o \in Orders |-> F[o]]
    BY DEF FreeMap
  <2> HIDE DEF F
  <2>3. F \in [Orders -> SUBSET Pages] /\ \A o \in Orders : F[o] = {}
    BY <1>17, <2>2 DEF F
  <2>4. pmm.page \in [Pages -> PageRec] /\ \A p \in Pages : pmm.page[p].flags = "RESERVED"
    BY <1>12, <1>13, <2>1 DEF PageRec
  <2>5. FreeSet(F) = {} /\ Blocks(F, {}) = {}
    BY <2>3, InFreeSet DEF Blocks
  <2>6. Good(pmm.page, F, {})
    <3>1. Types(pmm.page, F, {})
      BY <1>6, <1>13, <2>3, <2>4 DEF Types, Pages
    <3>2. Marked(pmm.page, F, {})
      BY <2>3 DEF Marked
    <3>3. Placed(Pages, Blocks(F, {}))
      BY <2>5 DEF Placed
    <3>4. Honest(pmm.page, F, {})
      BY <2>4 DEF Honest, Pages
    <3>5. Coalescent(F)
      BY <2>3 DEF Coalescent
    <3> QED
      BY <3>1, <3>2, <3>3, <3>4, <3>5 DEF Good, Pages
  <2>7. Listed(pmm)
    <3>1. \A o \in Orders : ListOf(pmm.free_areas[o], Pages, Range(pmm.free_areas[o]))
      BY <1>12 DEF ListOf
    <3> QED
      BY <1>12, <3>1 DEF Listed, Pages
  <2>8. Counted(pmm)
    <3>1. pmm.used_pages \in 0..(Pow2[Width] - 1)
      BY <1>6, <1>12, UnsignedIs
    <3> QED
      BY <1>12, <2>1, <3>1 DEF Counted
  <2> QED
    BY <1>15, <2>6, <2>7, <2>8 DEF Allocator, F
<1>19. Covered = {}
  <2>1. Blocks(FreeMap(pmm), HeldBlocks) = {}
    BY <1>15, <1>17, InFreeSet DEF Blocks
  <2> QED
    BY <2>1 DEF Covered, PagesOf
<1>20. \A p \in Pages : ~ Usable(p)
  <2> SUFFICES ASSUME NEW p \in Pages, Usable(p) PROVE FALSE
    OBVIOUS
  <2>1. p \in Nat
    BY <1>6, <1>13
  <2>2. PICK i \in 1..Len(memmap) :
            /\ memmap[i].type = "usable" /\ FirstPage(memmap[i]) <= p /\ p < EndPage(memmap[i])
            /\ i < entry \/ (i = entry /\ p < current_page)
    BY <1>14, <2>1, UsableIs
  <2> DEFINE f == FirstPage(memmap[i])
  <2>3. f \in Nat
    BY <1>14, EntryFacts
  <2>4. i = 1 /\ p < f
    BY <1>1, <2>2
  <2>5. f <= p
    BY <2>2
  <2> HIDE DEF f
  <2> QED
    BY <2>1, <2>3, <2>4, <2>5
<1>21. /\ \A p \in Pages : pmm.page[p].flags # "USED"
       /\ refs \in [Pages -> 0..MaxRefs] /\ dropped \subseteq Pages /\ CountsAreRight
  BY <1>1, <1>12, <1>13, SizesAssumption, SMTT(30) DEF CountsAreRight
<1> QED
  BY <1>14, <1>16, <1>18, <1>19, <1>20, <1>21 DEF PInv

\* Every step keeps the invariant.
LEMMA Steps == PInv /\ [PmmNext]_pmm_vars => PInv'
<1> SUFFICES ASSUME PInv, [PmmNext]_pmm_vars PROVE PInv'
  OBVIOUS
<1>1. CASE pmm_init
  <2>1. entry <= Len(memmap)
    BY <1>1 DEF pmm_init
  <2> QED
    BY <1>1, <2>1, BootFree, BootNext
<1>2. ASSUME entry > Len(memmap), NEW size \in PmmSizes, pmm_alloc(size) PROVE PInv'
  <2>1. UNCHANGED boot
    BY <1>2 DEF pmm_alloc
  <2> QED
    BY <1>2, <2>1, AllocStep
<1>3. ASSUME entry > Len(memmap), NEW p \in Pages, NEW size \in PmmSizes, pmm_free(p, size) PROVE PInv'
  <2>1. /\ refs[p] = 1 /\ UNCHANGED boot /\ pmm' = pmm_free_pages(pmm, p, pmm.page[p].order)
        /\ refs' = [refs EXCEPT ![p] = 0] /\ dropped' = dropped
    BY <1>3 DEF pmm_free
  <2>2. p \in Users /\ p \notin dropped
    BY <2>1 DEF Users, PInv, CountsAreRight
  <2>3. dropped' = dropped \ {p}
    BY <2>1, <2>2
  <2> QED
    BY <1>3, <2>1, <2>2, <2>3, FreeStep, Zenon
<1>4. ASSUME entry > Len(memmap), NEW p \in Pages, pmm_page_inc_ref(p) PROVE PInv'
  BY <1>4, IncStep
<1>5. ASSUME entry > Len(memmap), NEW p \in Pages, pmm_page_dec_ref(p) PROVE PInv'
  BY <1>5, DecStep
<1>6. ASSUME entry > Len(memmap), NEW p \in Pages, free_dropped(p) PROVE PInv'
  <2>1. /\ p \in dropped /\ UNCHANGED boot /\ pmm' = pmm_free_pages(pmm, p, pmm.page[p].order)
        /\ refs' = refs /\ dropped' = dropped \ {p}
    BY <1>6 DEF free_dropped
  <2>2. p \in Users
    BY <2>1 DEF Users
  <2>3. refs' = [refs EXCEPT ![p] = 0]
    <3>1. refs[p] = 0 /\ refs \in [Pages -> 0..MaxRefs]
      BY <2>1 DEF PInv, CountsAreRight
    <3> QED
      BY <2>1, <3>1
  <2> QED
    BY <1>6, <2>1, <2>2, <2>3, FreeStep, Zenon
<1>7. CASE UNCHANGED pmm_vars
  <2>1. /\ memmap' = memmap /\ entry' = entry /\ current_page' = current_page
        /\ pmm' = pmm /\ refs' = refs /\ dropped' = dropped
    BY <1>7 DEF pmm_vars
  <2>2. Pages' = Pages /\ Users' = Users /\ HeldBlocks' = HeldBlocks
    BY <2>1 DEF Pages, Users, HeldBlocks
  <2>3. Covered' = Covered
    BY <2>1, <2>2 DEF Covered
  <2>4. MapInv' /\ BootInv'
    BY <2>1, <2>2 DEF PInv, MapInv, BootInv
  <2>5. Allocator(pmm', HeldBlocks') /\ refs' \in [Pages' -> 0..MaxRefs] /\ dropped' \subseteq Pages'
    BY <2>1, <2>2 DEF PInv
  <2>6. CountsAreRight'
    BY <2>1, <2>2 DEF PInv, CountsAreRight
  <2>7. \A q : Usable(q)' <=> Usable(q)
    BY <2>1 DEF Usable
  <2>8. \A q \in Pages' : pmm'.page[q].flags = "USED" => q \in Covered'
    BY <2>1, <2>2, <2>3 DEF PInv
  <2>9. \A q \in Pages' : q \in Covered' <=> Usable(q)'
    BY <2>2, <2>3, <2>7 DEF PInv
  <2> QED
    BY <2>4, <2>5, <2>6, <2>8, <2>9 DEF PInv
<1> QED
  BY <1>1, <1>2, <1>3, <1>4, <1>5, <1>6, <1>7, Zenon DEF PmmNext

\* The invariant holds always.
LEMMA Always == PmmSpec => []PInv
BY Starts, Steps, PTL DEF PmmSpec

-----------------------------------------------------------------------------
(* The properties. *)

\* No page is lost and none is handed out twice, however the buddies are split and
\* coalesced and whichever memory map the boot loader reports.
THEOREM PagesAreKept == PmmSpec => []EachPageOnce
<1> DEFINE F == FreeMap(pmm)
           B == Blocks(FreeMap(pmm), HeldBlocks)
<1>1. ASSUME PInv PROVE EachPageOnce
  <2>1. Good(pmm.page, F, HeldBlocks) /\ Listed(pmm) /\ Counted(pmm)
    BY <1>1 DEF PInv, Allocator
  <2>2. FreeBlocks \cup HeldBlocks = B
    BY BlocksAre DEF Blocks
  <2>3. PmmTypeOK
    <3>1. pmm.page \in [Pages -> PageRec]
      BY <2>1 DEF Good, Types, Pages
    <3>2. \A o \in Orders : pmm.free_areas[o] \in Seq(Pages)
      BY <2>1 DEF Listed, ListOf, Pages
    <3>3. pmm.free_areas \in [Orders -> Seq(Pages)]
      BY <2>1, <3>2 DEF Listed
    <3> QED
      BY <1>1, <2>1, <3>1, <3>3 DEF PmmTypeOK, PInv, Counted, PageRec
  <2>4. ASSUME NEW p \in Pages
        PROVE  Cardinality({b \in B : p \in Span(b)}) = IF Usable(p) THEN 1 ELSE 0
    <3>1. p \in PagesOf(B) <=> Usable(p)
      BY <1>1 DEF PInv, Covered
    <3>2. CASE Usable(p)
      <4>1. PICK b \in B : p \in Span(b)
        BY <3>1, <3>2 DEF PagesOf
      <4>2. \A c \in B : p \in Span(c) => c = b
        BY <2>1, <4>1, SameBlock
      <4> HIDE DEF B
      <4>3. {c \in B : p \in Span(c)} = {b}
        BY <4>1, <4>2
      <4> QED
        BY <3>2, <4>3, FS_Singleton
    <3>3. CASE ~ Usable(p)
      <4>1. \A c \in B : p \notin Span(c)
        BY <3>1, <3>3 DEF PagesOf
      <4> HIDE DEF B
      <4>2. {c \in B : p \in Span(c)} = {}
        BY <4>1
      <4> QED
        BY <3>3, <4>2, FS_EmptySet
    <3> QED
      BY <3>2, <3>3
  <2>5. ASSUME NEW b \in B PROVE Span(b) \subseteq Pages /\ b[1] % Pow2[b[2]] = 0
    <3>1. b[1] \in Nat /\ b[2] \in Nat /\ Aligned(b[1], b[2]) /\ Span(b) \subseteq Pages
      BY <2>1, BlockFacts DEF Pages
    <3> QED
      BY <3>1, AlignedMod
  <2>6. FreeBlocks \cap HeldBlocks = {}
    <3> SUFFICES ASSUME NEW b \in FreeBlocks, b \in HeldBlocks PROVE FALSE
      OBVIOUS
    <3>1. PICK o \in Orders : \E p \in F[o] : b = <<p, o>>
      BY BlocksAre, InFreeSet
    <3>2. PICK p \in F[o] : b = <<p, o>>
      BY <3>1
    <3>3. pmm.page[b[1]].flags # "FREE" /\ b[1] = p
      BY <2>1, <3>2 DEF Good, Marked
    <3> HIDE DEF F
    <3> QED
      BY <2>1, <3>2, <3>3 DEF Good, Marked
  <2> HIDE DEF B
  <2> QED
    BY <2>2, <2>3, <2>4, <2>5, <2>6 DEF EachPageOnce
<1> QED
  BY <1>1, Always, PTL

\* The flags and orders that pmm_free_pages looks at are true, stale ones included: a buddy
\* that it merges is in the list that it is taken from.
THEOREM BuddiesAreListed == PmmSpec => []MergesAreListed
<1> DEFINE F == FreeMap(pmm)
           B == Blocks(FreeMap(pmm), HeldBlocks)
<1>1. ASSUME PInv PROVE MergesAreListed
  <2>1. Good(pmm.page, F, HeldBlocks) /\ Listed(pmm)
    BY <1>1 DEF PInv, Allocator
  <2>2. FreeBlocks \cup HeldBlocks = B
    BY BlocksAre DEF Blocks
  <2>3. ASSUME NEW b \in B, CanMerge(pmm, Buddy(b[1], b[2]), b[2])
        PROVE  Cardinality({i \in 1..Len(pmm.free_areas[b[2]]) :
                               pmm.free_areas[b[2]][i] = Buddy(b[1], b[2])}) = 1
    <3> DEFINE p == b[1]
               o == b[2]
               x == Buddy(p, o)
               list == pmm.free_areas[o]
    <3>1. b = <<p, o>> /\ p \in Nat /\ o \in Orders /\ o \in Nat /\ Aligned(p, o)
      BY <2>1, BlockFacts
    <3>2. Met(p, o, o) = x
      BY <3>1, ManagerFirst DEF Met
    <3>3. <<p, o>> \in Blocks(F, HeldBlocks) /\ o >= o
      BY <3>1
    <3>4. x \in DOMAIN pmm.page /\ pmm.page[x].flags = "FREE" /\ pmm.page[x].order = o
      BY <2>3 DEF CanMerge
    <3> HIDE DEF p, o, x
    <3>5. x \in F[o]
      <4> HIDE DEF F
      <4>1. Met(p, o, o) \in F[o]
        BY <2>1, <3>1, <3>2, <3>3, <3>4, BuddyListed
      <4> QED
        BY <3>2, <4>1
    <3>6. ListOf(list, DOMAIN pmm.page, F[o]) /\ x \in Range(list)
      BY <2>1, <3>1, <3>5 DEF Listed, FreeMap
    <3> HIDE DEF list, F
    <3>7. PICK i \in 1..Len(list) : list[i] = x
      BY <3>6, InList DEF ListOf
    <3>8. {j \in 1..Len(list) : list[j] = x} = {i}
      BY <3>6, <3>7 DEF ListOf
    <3>9. Cardinality({j \in 1..Len(list) : list[j] = x}) = 1
      BY <3>8, FS_Singleton, Zenon
    <3> QED
      BY <3>9 DEF list, x, o, p
  <2> HIDE DEF B
  <2> QED
    BY <2>2, <2>3 DEF MergesAreListed
<1> QED
  BY <1>1, Always, PTL

\* The count of a block is the number of its users, and a block that is freed outside the
\* lock has none.
THEOREM CountsAreKept == PmmSpec => []CountsAreRight
<1>1. PInv => CountsAreRight
  BY DEF PInv
<1> QED
  BY <1>1, Always, PTL

\* Where coalescing is complete, a run of free pages without a block of its size does not
\* exist: the smallest block of the run has a buddy in the run, which is free too.
LEMMA NoRun ==
    ASSUME NEW page, NEW F, NEW held, Good(page, F, held), NEW o \in Orders, NEW p \in Nat, Aligned(p, o),
           \A k \in Orders : k >= o => F[k] = {}, Span(<<p, o>>) \subseteq PagesOf(FreeSet(F))
    PROVE  FALSE
<1> DEFINE run == <<p, o>>
           inside == {b \in FreeSet(F) : Span(b) \cap Span(run) # {}}
           T == {b[2] : b \in inside}
<1>1. o \in Nat /\ o <= PMM_MAX_ORDER - 1 /\ PMM_MAX_ORDER \in Nat
  BY OrderFacts, SizesAssumption
<1>2. ASSUME NEW b \in FreeSet(F)
      PROVE  /\ b \in Blocks(F, held) /\ b = <<b[1], b[2]>> /\ b[1] \in Nat /\ b[2] \in Nat /\ b[2] \in Orders
             /\ b[1] \in F[b[2]] /\ Aligned(b[1], b[2]) /\ b[1] \in Span(b) /\ b[2] < o
  <2>1. b \in Blocks(F, held)
    BY DEF Blocks
  <2>2. /\ b = <<b[1], b[2]>> /\ b[1] \in Nat /\ b[2] \in Nat /\ b[2] \in Orders
        /\ Aligned(b[1], b[2]) /\ b[1] \in Span(b)
    BY <2>1, BlockFacts
  <2>3. PICK k \in Orders : \E x \in F[k] : b = <<x, k>>
    BY InFreeSet
  <2>4. PICK x \in F[k] : b = <<x, k>>
    BY <2>3
  <2>5. b[1] \in F[b[2]] /\ b[2] = k /\ F[k] # {}
    BY <2>4
  <2>6. b[2] < o
    BY <1>1, <2>2, <2>5
  <2> QED
    BY <2>1, <2>2, <2>5, <2>6
<1>3. \A x \in Span(run) : \E b \in inside : x \in Span(b)
  BY DEF PagesOf
<1>4. p \in Span(run)
  BY <1>1, StartsInside
<1> HIDE DEF run
<1>5. T \in SUBSET Nat /\ T # {}
  BY <1>2, <1>3, <1>4
<1>6. PICK m \in T : \A k \in T : m <= k
  BY <1>5, Least, Zenon
<1>7. PICK b \in inside : b[2] = m
  BY <1>6
<1>8. \A c \in inside : m <= c[2]
  BY <1>6
<1> HIDE DEF T
<1>9. /\ b \in FreeSet(F) /\ b \in Blocks(F, held) /\ b = <<b[1], m>> /\ b[1] \in Nat /\ m \in Nat /\ m \in Orders
      /\ b[1] \in F[m] /\ Aligned(b[1], m) /\ b[1] \in Span(b) /\ m < o
  BY <1>2, <1>7
<1> DEFINE x == Buddy(b[1], m)
           w == IF x < b[1] THEN x ELSE b[1]
<1>10. IsPair(b[1], x, m)
  BY <1>9, BuddyIs
<1>11. x \in Nat /\ w \in Nat /\ Aligned(x, m) /\ Aligned(w, m + 1) /\ x # b[1]
  <2>1. Pow2[m] \in Nat /\ Pow2[m] > 0
    BY <1>9, Pow
  <2> HIDE DEF x
  <2> QED
    BY <1>9, <1>10, <2>1 DEF IsPair
<1>12. Span(<<w, m + 1>>) = Span(<<b[1], m>>) \cup Span(<<x, m>>)
  BY <1>9, <1>10, Halves
<1> HIDE DEF x, w
<1>13. x \in Span(<<x, m>>) /\ x \in Span(<<w, m + 1>>) /\ b[1] \in Span(<<w, m + 1>>)
  BY <1>9, <1>11, <1>12, StartsInside
<1>14. x \in Span(run)
  <2>1. PICK y \in Span(b) : y \in Span(run)
    BY <1>7
  <2>2. y \in Span(<<b[1], m>>) /\ y \in Span(<<p, o>>)
    BY <1>9, <2>1 DEF run
  <2>3. y \in Span(<<w, m + 1>>)
    BY <1>12, <2>2
  <2>4. m + 1 \in Nat /\ m + 1 <= o
    BY <1>1, <1>9
  <2>5. Span(<<w, m + 1>>) \subseteq Span(<<p, o>>)
    BY <1>1, <1>11, <2>2, <2>3, <2>4, Nested
  <2> QED
    BY <1>13, <2>5 DEF run
<1>15. PICK c \in inside : x \in Span(c)
  BY <1>3, <1>14
<1>16. /\ c \in FreeSet(F) /\ c \in Blocks(F, held) /\ c = <<c[1], c[2]>> /\ c[1] \in Nat /\ c[2] \in Nat
       /\ c[1] \in F[c[2]] /\ Aligned(c[1], c[2]) /\ m <= c[2] /\ x \in Span(<<c[1], c[2]>>)
  BY <1>2, <1>8, <1>15
<1> HIDE DEF inside
<1>17. CASE c[2] = m
  <2>1. Span(<<c[1], m>>) \subseteq Span(<<x, m>>) /\ Span(<<x, m>>) \subseteq Span(<<c[1], m>>)
    <3>1. m <= m /\ x \in Span(<<c[1], m>>)
      BY <1>9, <1>16, <1>17
    <3> QED
      BY <1>9, <1>11, <1>13, <1>16, <1>17, <3>1, Nested
  <2>2. c[1] = x
    <3>1. Pow2[m] \in Nat /\ Pow2[m] > 0
      BY <1>9, Pow
    <3>2. c[1] \in Span(<<x, m>>) /\ x \in Span(<<c[1], m>>)
      BY <1>9, <1>16, <2>1, <1>13, StartsInside
    <3>3. c[1] >= x /\ x >= c[1]
      BY <1>9, <1>11, <1>16, <3>1, <3>2 DEF Span
    <3> QED
      BY <1>11, <1>16, <3>3
  <2>3. x \in F[m]
    BY <1>16, <1>17, <2>2
  <2>4. m # PMM_MAX_ORDER - 1
    BY <1>1, <1>9
  <2> QED
    BY <1>9, <2>3, <2>4 DEF Good, Coalescent, x
<1>18. CASE c[2] # m
  <2>1. m + 1 <= c[2] /\ m + 1 \in Nat
    BY <1>9, <1>16, <1>18
  <2>2. Span(<<w, m + 1>>) \subseteq Span(<<c[1], c[2]>>)
    BY <1>11, <1>13, <1>16, <2>1, Nested
  <2>3. b[1] \in Span(c)
    BY <1>13, <1>16, <2>2
  <2>4. c = b
    BY <1>9, <1>16, <2>3, SameBlock
  <2> QED
    BY <1>7, <1>18, <2>4
<1> QED
  BY <1>17, <1>18

\* Coalescing is complete: when pmm_alloc returns 0 for want of a block, no aligned run of
\* that many pages is free.
THEOREM FailsWhenFull == PmmSpec => []FailsOnlyWhenFull
<1> DEFINE F == FreeMap(pmm)
<1>1. ASSUME PInv PROVE FailsOnlyWhenFull
  <2> SUFFICES ASSUME NEW o \in Orders, Available(pmm, o) = {}, NEW p \in Pages, p % Pow2[o] = 0,
                      Span(<<p, o>>) \subseteq FreePages
               PROVE  FALSE
    BY DEF FailsOnlyWhenFull
  <2>1. Good(pmm.page, F, HeldBlocks) /\ Listed(pmm)
    BY <1>1 DEF PInv, Allocator
  <2>2. p \in Nat /\ o \in Nat
    BY <2>1, OrderFacts DEF Good, Types, Pages
  <2>3. Aligned(p, o)
    BY <2>2, AlignedMod
  <2>4. ASSUME NEW k \in Orders, k >= o PROVE F[k] = {}
    <3>1. k \in o..(PMM_MAX_ORDER - 1)
      BY <2>2, <2>4, SizesAssumption DEF Orders
    <3>2. pmm.free_areas[k] = <<>>
      BY <3>1 DEF Available
    <3> QED
      BY <3>2 DEF FreeMap, Range
  <2>5. Span(<<p, o>>) \subseteq PagesOf(FreeSet(F))
    BY BlocksAre
  <2> HIDE DEF F
  <2> QED
    BY <2>1, <2>2, <2>3, <2>4, <2>5, NoRun, Zenon
<1> QED
  BY <1>1, Always, PTL

=============================================================================
