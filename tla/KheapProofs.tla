---------------------------- MODULE KheapProofs ----------------------------
(***************************************************************************)
(* The nodes of the kernel heap tile it and the regions in use are kept,   *)
(* for any sizes of a node, a page and a block, any requests and any       *)
(* number of frames.                                                       *)
(***************************************************************************)
EXTENDS Kheap, TLAPS

NodeSet == [addr : Nat, size : Nat, isFree : BOOLEAN]

\* The list covers the addresses from 0 to an end, without holes.
Tiles(list, end) ==
    /\ list[1].addr = 0
    /\ \A i \in 1..(Len(list) - 1) : End(list[i]) = list[i + 1].addr
    /\ End(list[Len(list)]) = end

\* An empty list has nothing to cover: the first extension of the heap failed.
Covers(list, end) == IF Len(list) = 0 THEN end = 0 ELSE Tiles(list, end)

\* Any two nodes are in the order of their addresses, not neighbours only.
Ordered(list) == \A i, j \in 1..Len(list) : i < j => End(list[i]) <= list[j].addr

\* The nodes of a list that are not free, and RegionsKept as a relation of those
\* nodes and the regions.
Used(list) == {n \in NodeSet : ~ n.isFree /\ \E i \in 1..Len(list) : list[i] = n}

Keeps(used, regions) ==
    /\ \A r \in regions : \E n \in used : Region(n) = r.addr /\ n.size >= r.size
    /\ \A n \in used : \E r \in regions : r.addr = Region(n)
    /\ \A r, s \in regions : r.addr = s.addr => r = s

\* The pages of the heap, and the frames that are left.
PagesKept ==
    LET pages == kheap_end \div PAGING_PAGE_SIZE IN
    /\ kheap_end = pages * PAGING_PAGE_SIZE
    /\ frames + pages <= Frames
    /\ 0..(pages - 1) \subseteq mapped

\* The inductive invariant.
HInv ==
    /\ HeapTypeOK
    /\ Covers(nodes, kheap_end)
    /\ Ordered(nodes)
    /\ \A i \in 1..(Len(nodes) - 1) : current = 0 \/ i < current => ~ BothFree(i)
    /\ Keeps(Used(nodes), live)
    /\ PagesKept
    /\ request # NONE => current = 0 /\ request.size >= request.asked

-----------------------------------------------------------------------------
(* Arithmetic and lists. *)

\* A size that leaves room for a block is rounded up: a region is never smaller
\* than what was asked for.
LEMMA RoundedUp ==
    ASSUME NEW size \in HeapSizes
    PROVE  Rounded(size) \in Nat /\ Rounded(size) >= size
<1> DEFINE up == ((size + KHEAP_BLOCK_SIZE - 1) \div KHEAP_BLOCK_SIZE) * KHEAP_BLOCK_SIZE
<1>1. size \in Nat /\ size + KHEAP_BLOCK_SIZE <= SizeWrap /\ KHEAP_BLOCK_SIZE \in Nat \ {0} /\ SizeWrap \in Nat
  BY HeapAssumption
<1>2. up \in Nat /\ up >= size /\ up <= size + KHEAP_BLOCK_SIZE - 1
  BY <1>1
<1> HIDE DEF up
<1>3. up % SizeWrap = up
  BY <1>1, <1>2
<1>. QED
  BY <1>2, <1>3 DEF Rounded, up

\* Whole pages are counted exactly.
LEMMA WholePages ==
    ASSUME NEW n \in Nat, NEW m \in Nat
    PROVE  /\ (n * PAGING_PAGE_SIZE) \div PAGING_PAGE_SIZE = n
           /\ (n * PAGING_PAGE_SIZE + m * PAGING_PAGE_SIZE) = (n + m) * PAGING_PAGE_SIZE
           /\ n * PAGING_PAGE_SIZE \in Nat
           /\ n > 0 => n * PAGING_PAGE_SIZE > NodeSize
BY HeapAssumption

\* The elements of a concatenation.
LEMMA Joined ==
    ASSUME NEW S, NEW a \in Seq(S), NEW b \in Seq(S)
    PROVE  /\ a \o b \in Seq(S)
           /\ Len(a) \in Nat /\ Len(b) \in Nat
           /\ Len(a \o b) = Len(a) + Len(b)
           /\ \A j \in 1..(Len(a) + Len(b)) : (a \o b)[j] = IF j <= Len(a) THEN a[j] ELSE b[j - Len(a)]
OBVIOUS

\* The sequence r is s with e at an index: in place of an element, before it, or
\* after the last; and s without one of its elements.
Changed(r, s, i, e) == Len(r) = Len(s) /\ \A j \in 1..Len(s) : r[j] = IF j = i THEN e ELSE s[j]

WithNew(r, s, i, e) ==
    /\ Len(r) = Len(s) + 1
    /\ \A j \in 1..(Len(s) + 1) : r[j] = IF j < i THEN s[j] ELSE IF j = i THEN e ELSE s[j - 1]

Without(r, s, i) ==
    /\ Len(r) = Len(s) - 1
    /\ \A j \in 1..(Len(s) - 1) : r[j] = IF j < i THEN s[j] ELSE s[j + 1]

\* What an assignment to a field of a node does to the list.
LEMMA Assigned ==
    ASSUME NEW S, NEW s \in Seq(S), NEW i \in 1..Len(s), NEW e \in S
    PROVE  [s EXCEPT ![i] = e] \in Seq(S) /\ Changed([s EXCEPT ![i] = e], s, i, e)
BY DEF Changed

\* What Append returns.
LEMMA Appended ==
    ASSUME NEW S, NEW s \in Seq(S), NEW e \in S
    PROVE  Append(s, e) \in Seq(S) /\ WithNew(Append(s, e), s, Len(s) + 1, e)
BY DEF WithNew

\* What InsertAt returns.
LEMMA Inserted ==
    ASSUME NEW S, NEW s \in Seq(S), NEW i \in 1..(Len(s) + 1), NEW e \in S
    PROVE  InsertAt(s, i, e) \in Seq(S) /\ WithNew(InsertAt(s, i, e), s, i, e)
<1> DEFINE a == SubSeq(s, 1, i - 1)
           one == <<e>>
           b == SubSeq(s, i, Len(s))
           c == a \o one
<1>1. a \in Seq(S) /\ b \in Seq(S) /\ one \in Seq(S)
  OBVIOUS
<1>2. Len(a) = i - 1 /\ Len(b) = Len(s) - i + 1 /\ Len(one) = 1 /\ one[1] = e
  OBVIOUS
<1>3. /\ \A j \in 1..(i - 1) : a[j] = s[j]
      /\ \A j \in 1..(Len(s) - i + 1) : b[j] = s[i + j - 1]
  OBVIOUS
<1>4. InsertAt(s, i, e) = c \o b
  BY DEF InsertAt
<1>5. Len(s) \in Nat
  OBVIOUS
<1> HIDE DEF a, one, b
<1>6. c \in Seq(S) /\ Len(c) = i /\ \A j \in 1..i : c[j] = IF j < i THEN s[j] ELSE e
  <2>1. /\ c \in Seq(S) /\ Len(c) = Len(a) + Len(one)
        /\ \A j \in 1..(Len(a) + Len(one)) : c[j] = IF j <= Len(a) THEN a[j] ELSE one[j - Len(a)]
    BY <1>1, Joined
  <2> HIDE DEF c
  <2>. QED
    BY <1>2, <1>3, <2>1
<1> HIDE DEF c
<1>7. /\ c \o b \in Seq(S) /\ Len(c \o b) = Len(c) + Len(b)
      /\ \A j \in 1..(Len(c) + Len(b)) : (c \o b)[j] = IF j <= Len(c) THEN c[j] ELSE b[j - Len(c)]
  BY <1>1, <1>6, Joined
<1>8. ASSUME NEW j \in 1..(Len(s) + 1)
      PROVE  (c \o b)[j] = IF j < i THEN s[j] ELSE IF j = i THEN e ELSE s[j - 1]
  <2>1. (c \o b)[j] = IF j <= i THEN c[j] ELSE b[j - i]
    BY <1>2, <1>5, <1>6, <1>7
  <2>2. CASE j <= i
    BY <1>6, <2>1, <2>2
  <2>3. CASE j > i
    <3>1. j - i \in 1..(Len(s) - i + 1) /\ i + (j - i) - 1 = j - 1
      BY <1>5, <2>3
    <3>. QED
      BY <1>3, <2>1, <2>3, <3>1
  <2>4. j <= i \/ j > i
    BY <1>5
  <2>. QED
    BY <2>2, <2>3, <2>4, Zenon
<1>. QED
  BY <1>2, <1>4, <1>5, <1>6, <1>7, <1>8 DEF WithNew

\* What RemoveAt returns.
LEMMA Removed ==
    ASSUME NEW S, NEW s \in Seq(S), NEW i \in 1..Len(s)
    PROVE  RemoveAt(s, i) \in Seq(S) /\ Without(RemoveAt(s, i), s, i)
<1> DEFINE a == SubSeq(s, 1, i - 1)
           b == SubSeq(s, i + 1, Len(s))
<1>1. a \in Seq(S) /\ b \in Seq(S)
  OBVIOUS
<1>2. Len(a) = i - 1 /\ Len(b) = Len(s) - i
  OBVIOUS
<1>3. /\ \A j \in 1..(i - 1) : a[j] = s[j]
      /\ \A j \in 1..(Len(s) - i) : b[j] = s[i + j]
  OBVIOUS
<1>4. RemoveAt(s, i) = a \o b
  BY DEF RemoveAt
<1> HIDE DEF a, b
<1>5. /\ a \o b \in Seq(S) /\ Len(a) \in Nat /\ Len(b) \in Nat /\ Len(a \o b) = Len(a) + Len(b)
      /\ \A j \in 1..(Len(a) + Len(b)) : (a \o b)[j] = IF j <= Len(a) THEN a[j] ELSE b[j - Len(a)]
  BY <1>1, Joined
<1>. QED
  BY <1>2, <1>3, <1>4, <1>5 DEF Without


\* The fields of a node.
GoodNode(e) ==
    /\ e.addr \in Nat /\ e.size \in Nat /\ e.isFree \in BOOLEAN
    /\ Region(e) \in Nat /\ End(e) \in Nat
    /\ e.addr < Region(e) /\ Region(e) <= End(e) /\ e.addr < End(e)

\* A node has a header, and ends after it.
LEMMA NodeFields ==
    ASSUME NEW e \in NodeSet
    PROVE  GoodNode(e)
BY HeapAssumption DEF NodeSet, Region, End, GoodNode

\* The nodes in a list are nodes.
LEMMA Fields ==
    ASSUME NEW list \in Seq(NodeSet), NEW i \in 1..Len(list)
    PROVE  list[i] \in NodeSet /\ GoodNode(list[i])
<1>1. list[i] \in NodeSet
  OBVIOUS
<1>. QED
  BY <1>1, NodeFields

\* No two nodes have the same region.
LEMMA OneNode ==
    ASSUME NEW list \in Seq(NodeSet), Ordered(list),
           NEW i \in 1..Len(list), NEW j \in 1..Len(list), Region(list[i]) = Region(list[j])
    PROVE  i = j
<1>1. SUFFICES ASSUME i < j \/ j < i PROVE FALSE
  OBVIOUS
<1>2. End(list[i]) <= list[j].addr \/ End(list[j]) <= list[i].addr
  BY <1>1 DEF Ordered
<1>. QED
  BY <1>2, Fields DEF GoodNode

-----------------------------------------------------------------------------
(* The four changes of the list. *)

\* A node changes its flag.
LEMMA FlagKeepsOrder ==
    ASSUME NEW list \in Seq(NodeSet), Len(list) > 0, NEW end \in Nat, Tiles(list, end), Ordered(list),
           NEW i \in 1..Len(list), NEW e \in NodeSet, e.addr = list[i].addr, e.size = list[i].size,
           NEW new, Changed(new, list, i, e)
    PROVE  Tiles(new, end) /\ Ordered(new)
<1>1. Len(list) \in Nat /\ Len(new) = Len(list)
  BY DEF Changed
<1>2. \A j \in 1..Len(list) : new[j].addr = list[j].addr /\ End(new[j]) = End(list[j])
  BY DEF Changed, End
<1>. QED
  BY <1>1, <1>2 DEF Tiles, Ordered

\* The last node grows.
LEMMA GrowKeepsOrder ==
    ASSUME NEW list \in Seq(NodeSet), Len(list) > 0, NEW end \in Nat, Tiles(list, end), Ordered(list),
           NEW bytes \in Nat, NEW e \in NodeSet,
           e.addr = list[Len(list)].addr, e.size = list[Len(list)].size + bytes,
           NEW new, Changed(new, list, Len(list), e)
    PROVE  Tiles(new, end + bytes) /\ Ordered(new)
<1>1. Len(list) \in Nat /\ Len(new) = Len(list)
  BY DEF Changed
<1>2. \A j \in 1..Len(list) : new[j].addr = list[j].addr
  BY DEF Changed
<1>3. \A j \in 1..(Len(list) - 1) : End(new[j]) = End(list[j])
  BY <1>1 DEF Changed
<1>4. End(new[Len(list)]) = End(list[Len(list)]) + bytes
  <2>1. new[Len(list)] = e /\ Len(list) \in 1..Len(list)
    BY <1>1 DEF Changed
  <2>2. list[Len(list)].addr \in Nat /\ list[Len(list)].size \in Nat
    BY <2>1, Fields DEF GoodNode
  <2>. QED
    BY <2>1, <2>2, HeapAssumption DEF End
<1>5. Tiles(new, end + bytes)
  BY <1>1, <1>2, <1>3, <1>4 DEF Tiles
<1>6. Ordered(new)
  BY <1>1, <1>2, <1>3 DEF Ordered
<1>. QED
  BY <1>5, <1>6

\* Every node ends before the end of the list.
LEMMA EndsBefore ==
    ASSUME NEW list \in Seq(NodeSet), Len(list) > 0, NEW end \in Nat, Tiles(list, end), Ordered(list),
           NEW i \in 1..Len(list)
    PROVE  End(list[i]) <= end
<1>1. Len(list) \in 1..Len(list) /\ End(list[Len(list)]) = end
  BY DEF Tiles
<1>2. i < Len(list) => End(list[i]) <= list[Len(list)].addr
  BY <1>1 DEF Ordered
<1>. QED
  BY <1>1, <1>2, Fields DEF GoodNode

\* A node is put after the last one.
LEMMA AppendKeepsOrder ==
    ASSUME NEW list \in Seq(NodeSet), Len(list) > 0, NEW end \in Nat, Tiles(list, end), Ordered(list),
           NEW bytes \in Nat, NEW e \in NodeSet, e.addr = end, End(e) = end + bytes,
           NEW new, WithNew(new, list, Len(list) + 1, e)
    PROVE  Tiles(new, end + bytes) /\ Ordered(new)
<1>1. Len(list) \in Nat /\ Len(new) = Len(list) + 1 /\ new[Len(list) + 1] = e
  BY DEF WithNew
<1>2. \A j \in 1..Len(list) : new[j] = list[j]
  BY <1>1 DEF WithNew
<1>3. Tiles(new, end + bytes)
  <2>1. new[1].addr = 0 /\ End(new[Len(new)]) = end + bytes
    BY <1>1, <1>2 DEF Tiles
  <2>2. ASSUME NEW j \in 1..Len(list) PROVE End(new[j]) = new[j + 1].addr
    <3>1. j = Len(list) \/ (j \in 1..(Len(list) - 1) /\ j + 1 \in 1..Len(list))
      BY <1>1
    <3>2. CASE j = Len(list)
      <4>1. new[j] = list[Len(list)] /\ new[j + 1] = e
        BY <1>1, <1>2, <3>2
      <4>2. End(list[Len(list)]) = end
        BY DEF Tiles
      <4>. QED
        BY <4>1, <4>2
    <3>3. CASE j \in 1..(Len(list) - 1) /\ j + 1 \in 1..Len(list)
      BY <1>2, <3>3 DEF Tiles
    <3>. QED
      BY <3>1, <3>2, <3>3
  <2>. QED
    BY <1>1, <2>1, <2>2 DEF Tiles
<1>4. ASSUME NEW j \in 1..Len(new), NEW k \in 1..Len(new), j < k PROVE End(new[j]) <= new[k].addr
  <2>1. j \in 1..Len(list) /\ new[j] = list[j]
    BY <1>1, <1>2, <1>4
  <2>2. CASE k = Len(new)
    BY <1>1, <2>1, <2>2, EndsBefore
  <2>3. CASE k # Len(new)
    BY <1>1, <1>2, <1>4, <2>1, <2>3 DEF Ordered
  <2>. QED
    BY <2>2, <2>3
<1>. QED
  BY <1>3, <1>4 DEF Ordered

\* The list new is list with two nodes in place of its i-th one, and with one in
\* place of its i-th and the next.
SplitOf(new, list, i, a, b) ==
    /\ Len(new) = Len(list) + 1
    /\ \A j \in 1..(Len(list) + 1) :
          new[j] = IF j < i THEN list[j] ELSE IF j = i THEN a ELSE IF j = i + 1 THEN b ELSE list[j - 1]

MergeOf(new, list, i, e) ==
    /\ Len(new) = Len(list) - 1
    /\ \A j \in 1..(Len(list) - 1) : new[j] = IF j < i THEN list[j] ELSE IF j = i THEN e ELSE list[j + 1]

\* A node is split into two that cover the same addresses.
LEMMA SplitKeepsOrder ==
    ASSUME NEW list \in Seq(NodeSet), Len(list) > 0, NEW end \in Nat, Tiles(list, end), Ordered(list),
           NEW i \in 1..Len(list), NEW a \in NodeSet, NEW b \in NodeSet,
           a.addr = list[i].addr, End(a) = b.addr, End(b) = End(list[i]),
           NEW new, SplitOf(new, list, i, a, b)
    PROVE  Tiles(new, end) /\ Ordered(new)
<1>1. Len(list) \in Nat /\ Len(new) = Len(list) + 1 /\ i \in Nat
  BY DEF SplitOf
<1>2. \A j \in 1..(i - 1) : new[j] = list[j]
  BY <1>1 DEF SplitOf
<1>3. new[i] = a /\ new[i + 1] = b
  BY <1>1 DEF SplitOf
<1>4. \A j \in (i + 2)..(Len(list) + 1) : new[j] = list[j - 1] /\ j - 1 \in 1..Len(list)
  BY <1>1 DEF SplitOf
<1>5. a.addr \in Nat /\ b.addr \in Nat /\ a.addr < b.addr /\ b.addr < End(b) /\ End(b) \in Nat
  BY NodeFields DEF GoodNode
<1>6. Tiles(new, end)
  <2>1. new[1].addr = 0
    BY <1>1, <1>2, <1>3 DEF Tiles
  <2>2. End(new[Len(list) + 1]) = end
    BY <1>1, <1>3, <1>4 DEF Tiles
  <2>3. ASSUME NEW j \in 1..Len(list) PROVE End(new[j]) = new[j + 1].addr
    <3>1. CASE j < i - 1
      BY <1>1, <1>2, <3>1 DEF Tiles
    <3>2. CASE j = i - 1
      BY <1>1, <1>2, <1>3, <3>2 DEF Tiles
    <3>3. CASE j = i
      BY <1>3, <3>3
    <3>4. CASE j = i + 1
      <4>1. End(new[j]) = End(list[i]) /\ new[j + 1] = list[i + 1] /\ i \in 1..(Len(list) - 1)
        BY <1>1, <1>3, <1>4, <3>4
      <4>. QED
        BY <4>1 DEF Tiles
    <3>5. CASE j > i + 1
      <4>1. new[j] = list[j - 1] /\ new[j + 1] = list[j] /\ j - 1 \in 1..(Len(list) - 1)
        BY <1>1, <1>4, <3>5
      <4>2. End(list[j - 1]) = list[(j - 1) + 1].addr /\ (j - 1) + 1 = j
        BY <4>1 DEF Tiles
      <4>. QED
        BY <4>1, <4>2
    <3>. QED
      BY <1>1, <3>1, <3>2, <3>3, <3>4, <3>5
  <2>. QED
    BY <1>1, <2>1, <2>2, <2>3 DEF Tiles
<1>7. ASSUME NEW j \in 1..(Len(list) + 1), NEW k \in 1..(Len(list) + 1), j < k
      PROVE  End(new[j]) <= new[k].addr
  <2> DEFINE Old(n) == IF n <= i THEN n ELSE n - 1
  <2>1. ASSUME NEW n \in 1..(Len(list) + 1)
        PROVE  /\ Old(n) \in 1..Len(list)
               /\ End(new[n]) <= End(list[Old(n)]) /\ list[Old(n)].addr <= new[n].addr
               /\ End(new[n]) \in Nat /\ new[n].addr \in Nat
    <3>1. Old(n) \in 1..Len(list)
      BY <1>1
    <3>2. CASE n < i \/ n > i + 1
      <4>1. new[n] = list[Old(n)]
        BY <1>1, <1>2, <1>4, <3>2, SMTT(30)
      <4>2. ASSUME NEW m \in 1..Len(list), new[n] = list[m]
            PROVE  /\ End(new[n]) <= End(list[m]) /\ list[m].addr <= new[n].addr
                   /\ End(new[n]) \in Nat /\ new[n].addr \in Nat
        BY <4>2, Fields DEF GoodNode
      <4> HIDE DEF Old
      <4>. QED
        BY <3>1, <4>1, <4>2
    <3>3. CASE n = i \/ n = i + 1
      <4>1. Old(n) = i
        BY <1>1, <3>3
      <4>2. End(list[i]) = End(b) /\ list[i].addr = a.addr /\ End(a) = b.addr
        OBVIOUS
      <4> HIDE DEF Old
      <4>. QED
        BY <1>3, <1>5, <3>1, <3>3, <4>1, <4>2
    <3>. QED
      BY <1>1, <3>2, <3>3
  <2>2. CASE j = i /\ k = i + 1
    BY <1>3, <1>5, <2>2
  <2>3. CASE ~ (j = i /\ k = i + 1)
    <3>1. Old(j) < Old(k)
      BY <1>1, <1>7, <2>3
    <3>2. Old(j) \in 1..Len(list) /\ Old(k) \in 1..Len(list)
      BY <2>1
    <3> HIDE DEF Old
    <3>3. End(list[Old(j)]) <= list[Old(k)].addr
      BY <3>1, <3>2 DEF Ordered
    <3>4. /\ End(list[Old(j)]) \in Nat /\ list[Old(k)].addr \in Nat
          /\ End(new[j]) <= End(list[Old(j)]) /\ list[Old(k)].addr <= new[k].addr
          /\ End(new[j]) \in Nat /\ new[k].addr \in Nat
      BY <2>1, <3>2, Fields, Zenon DEF GoodNode
    <3>. QED
      BY <3>3, <3>4
  <2>. QED
    BY <2>2, <2>3
<1>8. Ordered(new)
  BY <1>1, <1>7 DEF Ordered
<1>. QED
  BY <1>6, <1>8

\* Two neighbours are merged into a node that covers the same addresses.
LEMMA MergeKeepsOrder ==
    ASSUME NEW list \in Seq(NodeSet), NEW end \in Nat, Tiles(list, end), Ordered(list),
           NEW i \in 1..(Len(list) - 1), NEW e \in NodeSet,
           e.addr = list[i].addr, End(e) = End(list[i + 1]),
           NEW new, MergeOf(new, list, i, e)
    PROVE  Tiles(new, end) /\ Ordered(new)
<1>1. Len(list) \in Nat /\ Len(new) = Len(list) - 1 /\ i \in Nat /\ i \in 1..Len(list) /\ i + 1 \in 1..Len(list)
  BY DEF MergeOf
<1>2. \A j \in 1..(i - 1) : new[j] = list[j]
  BY <1>1 DEF MergeOf
<1>3. new[i] = e
  BY <1>1 DEF MergeOf
<1>4. \A j \in (i + 1)..(Len(list) - 1) : new[j] = list[j + 1] /\ j + 1 \in 1..Len(list)
  BY <1>1 DEF MergeOf
<1>5. Tiles(new, end)
  <2>1. new[1].addr = 0
    BY <1>1, <1>2, <1>3 DEF Tiles
  <2>2. End(new[Len(list) - 1]) = end
    <3>1. End(list[Len(list)]) = end
      BY DEF Tiles
    <3>2. CASE i = Len(list) - 1
      BY <1>1, <1>3, <3>1, <3>2
    <3>3. CASE i < Len(list) - 1
      <4>1. new[Len(list) - 1] = list[(Len(list) - 1) + 1] /\ (Len(list) - 1) + 1 = Len(list)
        BY <1>1, <1>4, <3>3
      <4>. QED
        BY <3>1, <4>1
    <3>. QED
      BY <1>1, <3>2, <3>3
  <2>3. ASSUME NEW j \in 1..(Len(list) - 2) PROVE End(new[j]) = new[j + 1].addr
    <3>1. CASE j < i - 1
      <4>1. new[j] = list[j] /\ new[j + 1] = list[j + 1] /\ j \in 1..(Len(list) - 1)
        BY <1>1, <1>2, <3>1
      <4>. QED
        BY <4>1 DEF Tiles
    <3>2. CASE j = i - 1
      BY <1>1, <1>2, <1>3, <3>2 DEF Tiles
    <3>3. CASE j = i
      <4>1. End(new[j]) = End(list[i + 1]) /\ new[j + 1] = list[(i + 1) + 1] /\ i + 1 \in 1..(Len(list) - 1)
        BY <1>1, <1>3, <1>4, <3>3
      <4>. QED
        BY <4>1 DEF Tiles
    <3>4. CASE j > i
      <4>1. new[j] = list[j + 1] /\ new[j + 1] = list[(j + 1) + 1] /\ j + 1 \in 1..(Len(list) - 1)
        BY <1>1, <1>4, <3>4
      <4>. QED
        BY <4>1 DEF Tiles
    <3>. QED
      BY <1>1, <3>1, <3>2, <3>3, <3>4
  <2>. QED
    BY <1>1, <2>1, <2>2, <2>3 DEF Tiles
<1>6. ASSUME NEW j \in 1..(Len(list) - 1), NEW k \in 1..(Len(list) - 1), j < k
      PROVE  End(new[j]) <= new[k].addr
  <2> DEFINE First(n) == IF n <= i THEN n ELSE n + 1
             Final(n) == IF n < i THEN n ELSE n + 1
  <2>1. ASSUME NEW n \in 1..(Len(list) - 1)
        PROVE  /\ First(n) \in 1..Len(list) /\ Final(n) \in 1..Len(list)
               /\ End(new[n]) = End(list[Final(n)]) /\ new[n].addr = list[First(n)].addr
    <3>1. First(n) \in 1..Len(list) /\ Final(n) \in 1..Len(list)
      BY <1>1
    <3>2. CASE n < i
      BY <1>1, <1>2, <3>1, <3>2
    <3>3. CASE n = i
      BY <1>1, <1>3, <3>1, <3>3
    <3>4. CASE n > i
      BY <1>1, <1>4, <3>1, <3>4
    <3>. QED
      BY <1>1, <3>2, <3>3, <3>4
  <2>2. Final(j) < First(k)
    BY <1>1, <1>6
  <2> HIDE DEF First, Final
  <2>. QED
    BY <2>1, <2>2, Zenon DEF Ordered
<1>7. Ordered(new)
  BY <1>1, <1>6 DEF Ordered
<1>. QED
  BY <1>5, <1>7

-----------------------------------------------------------------------------
(* The regions in use. *)

\* A region that is added has a node of its own.
LEMMA AllocKeeps ==
    ASSUME NEW used, NEW regions, Keeps(used, regions),
           NEW e, NEW r, Region(e) = r.addr, e.size >= r.size,
           \A n \in used : Region(n) # Region(e)
    PROVE  Keeps(used \cup {e}, regions \cup {r})
BY DEF Keeps

\* A region that is given back takes its node, and no other, with it.
LEMMA FreeKeeps ==
    ASSUME NEW used, NEW regions, Keeps(used, regions),
           NEW e \in used, \A n \in used : Region(n) = Region(e) => n = e,
           NEW left, \A r : r \in left <=> r \in regions /\ r.addr # Region(e)
    PROVE  Keeps(used \ {e}, left)
BY DEF Keeps

\* The nodes in use have different regions.
LEMMA UsedDiffer ==
    ASSUME NEW list \in Seq(NodeSet), Ordered(list), NEW i \in 1..Len(list),
           NEW n \in Used(list), Region(n) = Region(list[i])
    PROVE  n = list[i]
<1>1. PICK j \in 1..Len(list) : list[j] = n
  BY DEF Used
<1>2. j = i
  BY <1>1, OneNode
<1>. QED
  BY <1>1, <1>2

\* A node comes into use, and the rest of it may become a free node.
LEMMA UsedAfterAlloc ==
    ASSUME NEW list \in Seq(NodeSet), NEW i \in 1..Len(list), list[i].isFree,
           NEW a \in NodeSet, ~ a.isFree, NEW b \in NodeSet, b.isFree,
           NEW new, Changed(new, list, i, a) \/ SplitOf(new, list, i, a, b)
    PROVE  Used(new) = Used(list) \cup {a}
<1>1. Len(list) \in Nat /\ i \in Nat
  OBVIOUS
<1>2. CASE Changed(new, list, i, a)
  BY <1>1, <1>2 DEF Changed, Used
<1>3. CASE SplitOf(new, list, i, a, b)
  <2>1. ASSUME NEW n \in Used(new) PROVE n \in Used(list) \cup {a}
    <3>1. PICK j \in 1..(Len(list) + 1) : new[j] = n
      BY <1>3, <2>1 DEF SplitOf, Used
    <3>2. n \in NodeSet /\ ~ n.isFree
      BY <2>1 DEF Used
    <3>3. n = a \/ n = b \/ \E m \in 1..Len(list) : list[m] = n
      <4>1. CASE j < i
        BY <1>1, <1>3, <3>1, <4>1 DEF SplitOf
      <4>2. CASE j = i \/ j = i + 1
        BY <1>1, <1>3, <3>1, <4>2 DEF SplitOf
      <4>3. CASE j > i + 1
        <5>1. j - 1 \in 1..Len(list) /\ list[j - 1] = n
          BY <1>1, <1>3, <3>1, <4>3 DEF SplitOf
        <5>. QED
          BY <5>1
      <4>. QED
        BY <1>1, <4>1, <4>2, <4>3
    <3>. QED
      BY <3>2, <3>3 DEF Used
  <2>2. ASSUME NEW n \in Used(list) PROVE n \in Used(new)
    <3>1. PICK j \in 1..Len(list) : list[j] = n
      BY <2>2 DEF Used
    <3>2. n \in NodeSet /\ ~ n.isFree
      BY <2>2 DEF Used
    <3>3. j # i
      BY <3>1, <3>2
    <3>4. \E m \in 1..Len(new) : new[m] = n
      <4>1. CASE j < i
        BY <1>1, <1>3, <3>1, <4>1 DEF SplitOf
      <4>2. CASE j > i
        <5>1. j + 1 \in 1..(Len(list) + 1) /\ new[j + 1] = list[(j + 1) - 1] /\ (j + 1) - 1 = j
          BY <1>1, <1>3, <4>2 DEF SplitOf
        <5>. QED
          BY <1>3, <3>1, <5>1 DEF SplitOf
      <4>. QED
        BY <1>1, <3>3, <4>1, <4>2
    <3>. QED
      BY <3>2, <3>4 DEF Used
  <2>3. a \in Used(new)
    <3>1. i \in 1..Len(new) /\ new[i] = a
      BY <1>1, <1>3 DEF SplitOf
    <3>. QED
      BY <3>1 DEF Used
  <2>. QED
    BY <2>1, <2>2, <2>3
<1>. QED
  BY <1>2, <1>3

\* A node goes out of use.
LEMMA UsedAfterFree ==
    ASSUME NEW list \in Seq(NodeSet), Ordered(list), NEW i \in 1..Len(list), ~ list[i].isFree,
           NEW e \in NodeSet, e.isFree, NEW new, Changed(new, list, i, e)
    PROVE  Used(new) = Used(list) \ {list[i]}
<1>1. ASSUME NEW j \in 1..Len(list), list[j] = list[i] PROVE j = i
  BY <1>1, OneNode
<1>. QED
  BY <1>1 DEF Changed, Used

\* What happens to free nodes does not matter: a free node changes, a free node
\* is added at the end, two free neighbours are merged.
LEMMA UsedUnchanged ==
    ASSUME NEW list \in Seq(NodeSet), NEW i \in 1..(Len(list) + 1), NEW e \in NodeSet, e.isFree,
           NEW new,
           \/ i <= Len(list) /\ list[i].isFree /\ Changed(new, list, i, e)
           \/ i = Len(list) + 1 /\ WithNew(new, list, i, e)
           \/ i < Len(list) /\ list[i].isFree /\ list[i + 1].isFree /\ MergeOf(new, list, i, e)
    PROVE  Used(new) = Used(list)
<1>1. Len(list) \in Nat /\ i \in Nat
  OBVIOUS
<1>2. CASE i <= Len(list) /\ list[i].isFree /\ Changed(new, list, i, e)
  BY <1>1, <1>2 DEF Changed, Used
<1>3. CASE i = Len(list) + 1 /\ WithNew(new, list, i, e)
  BY <1>1, <1>3 DEF WithNew, Used
<1>4. CASE i < Len(list) /\ list[i].isFree /\ list[i + 1].isFree /\ MergeOf(new, list, i, e)
  <2>1. ASSUME NEW n \in Used(new) PROVE n \in Used(list)
    <3>1. PICK j \in 1..(Len(list) - 1) : new[j] = n
      BY <1>4, <2>1 DEF MergeOf, Used
    <3>2. n \in NodeSet /\ ~ n.isFree
      BY <2>1 DEF Used
    <3>3. j # i
      BY <1>1, <1>4, <3>1, <3>2 DEF MergeOf
    <3>4. \E m \in 1..Len(list) : list[m] = n
      <4>1. CASE j < i
        BY <1>1, <1>4, <3>1, <4>1 DEF MergeOf
      <4>2. CASE j > i
        <5>1. j + 1 \in 1..Len(list) /\ list[j + 1] = n
          BY <1>1, <1>4, <3>1, <4>2 DEF MergeOf
        <5>. QED
          BY <5>1
      <4>. QED
        BY <1>1, <3>3, <4>1, <4>2
    <3>. QED
      BY <3>2, <3>4 DEF Used
  <2>2. ASSUME NEW n \in Used(list) PROVE n \in Used(new)
    <3>1. PICK j \in 1..Len(list) : list[j] = n
      BY <2>2 DEF Used
    <3>2. n \in NodeSet /\ ~ n.isFree
      BY <2>2 DEF Used
    <3>3. j # i /\ j # i + 1
      BY <1>4, <3>1, <3>2
    <3>4. \E m \in 1..Len(new) : new[m] = n
      <4>1. CASE j < i
        BY <1>1, <1>4, <3>1, <4>1 DEF MergeOf
      <4>2. CASE j > i + 1
        <5>1. j - 1 \in 1..(Len(list) - 1) /\ new[j - 1] = list[(j - 1) + 1] /\ (j - 1) + 1 = j
          BY <1>1, <1>4, <4>2 DEF MergeOf
        <5>. QED
          BY <1>4, <3>1, <5>1 DEF MergeOf
      <4>. QED
        BY <1>1, <3>3, <4>1, <4>2
    <3>. QED
      BY <3>2, <3>4 DEF Used
  <2>. QED
    BY <2>1, <2>2, Zenon
<1>. QED
  BY <1>2, <1>3, <1>4

-----------------------------------------------------------------------------
(* The actions keep the invariant. *)

\* The flag of a node is set, in kmalloc and in kfree.
LEMMA FlagSet ==
    ASSUME HInv, NEW i \in 1..Len(nodes), NEW free \in BOOLEAN
    PROVE  \E e \in NodeSet :
              /\ e.addr = nodes[i].addr /\ e.size = nodes[i].size /\ e.isFree = free
              /\ [nodes EXCEPT ![i].isFree = free] \in Seq(NodeSet)
              /\ Changed([nodes EXCEPT ![i].isFree = free], nodes, i, e)
<1>1. nodes \in Seq(NodeSet)
  BY DEF HInv, HeapTypeOK, NodeSet
<1>2. nodes[i] \in NodeSet
  BY <1>1
<1> DEFINE e == [nodes[i] EXCEPT !.isFree = free]
<1>3. e \in NodeSet /\ e.addr = nodes[i].addr /\ e.size = nodes[i].size /\ e.isFree = free
  BY <1>2 DEF NodeSet
<1>4. [nodes EXCEPT ![i].isFree = free] = [nodes EXCEPT ![i] = e]
  OBVIOUS
<1> HIDE DEF e
<1>. QED
  BY <1>1, <1>3, <1>4, Assigned

\* kheap_init.
LEMMA InitHeap == HeapInit => HInv
<1> SUFFICES ASSUME HeapInit PROVE HInv
  OBVIOUS
<1>1. PICK n \in 0..Frames :
        \/ /\ n >= StartingPages
           /\ nodes = <<Node(0, StartingPages * PAGING_PAGE_SIZE - NodeSize, TRUE)>>
           /\ kheap_end = StartingPages * PAGING_PAGE_SIZE
           /\ mapped = PagesFrom(0, StartingPages)
           /\ frames = n - StartingPages
        \/ /\ n < StartingPages
           /\ nodes = <<>>
           /\ kheap_end = 0
           /\ mapped = PagesFrom(0, n)
           /\ frames = 0
  BY Zenon DEF HeapInit
<1>2. request = NONE /\ halted = FALSE /\ current = 0 /\ live = {}
  BY DEF HeapInit
<1>3. ASSUME NEW m \in Nat PROVE PagesFrom(0, m) = 0..(m - 1)
  <2>1. 0 \div PAGING_PAGE_SIZE = 0
    BY HeapAssumption
  <2>2. ASSUME NEW j \in 0..(m - 1) PROVE 0 \div PAGING_PAGE_SIZE + j = j
    BY <2>1
  <2>. QED
    BY <2>2 DEF PagesFrom
<1>4. CASE nodes # <<>>
  <2> DEFINE bytes == StartingPages * PAGING_PAGE_SIZE
             first == Node(0, bytes - NodeSize, TRUE)
  <2>1. bytes \in Nat /\ bytes - NodeSize \in Nat /\ bytes \div PAGING_PAGE_SIZE = StartingPages
    BY WholePages, HeapAssumption
  <2>2. /\ n >= StartingPages /\ nodes = <<first>> /\ kheap_end = bytes
        /\ mapped = 0..(StartingPages - 1) /\ frames = n - StartingPages
    BY <1>1, <1>3, <1>4, HeapAssumption
  <2>3. bytes = StartingPages * PAGING_PAGE_SIZE
    OBVIOUS
  <2> HIDE DEF bytes
  <2>4. first \in NodeSet /\ first.isFree /\ first.addr = 0 /\ first.size = bytes - NodeSize
    BY <2>1 DEF Node, NodeSet
  <2> HIDE DEF first
  <2>5. End(first) = bytes
    BY <2>1, <2>4, HeapAssumption DEF End
  <2>6. nodes \in Seq(NodeSet) /\ Len(nodes) = 1 /\ nodes[1] = first
    BY <2>2, <2>4
  <2>7. HeapTypeOK
    <3>1. mapped \subseteq 0..(Frames + ExtendingPages) /\ frames \in 0..Frames
      BY <2>2, HeapAssumption
    <3>. QED
      BY <1>2, <2>1, <2>2, <2>6, <3>1, Zenon DEF HeapTypeOK, NodeSet
  <2>8. Covers(nodes, kheap_end) /\ Ordered(nodes)
    BY <2>2, <2>4, <2>5, <2>6 DEF Covers, Tiles, Ordered
  <2>9. Keeps(Used(nodes), live)
    <3>1. Used(nodes) = {}
      BY <2>4, <2>6 DEF Used
    <3>. QED
      BY <1>2, <3>1, Zenon DEF Keeps
  <2>10. PagesKept
    BY <2>1, <2>2, <2>3, HeapAssumption DEF PagesKept
  <2>. QED
    BY <1>2, <2>6, <2>7, <2>8, <2>9, <2>10 DEF HInv
<1>5. CASE nodes = <<>>
  <2>1. nodes \in Seq(NodeSet) /\ Len(nodes) = 0
    BY <1>5
  <2>2. kheap_end = 0 /\ frames = 0 /\ mapped = 0..(n - 1)
    BY <1>1, <1>3, <1>5
  <2>3. HeapTypeOK
    <3>1. mapped \subseteq 0..(Frames + ExtendingPages) /\ frames \in 0..Frames /\ kheap_end \in Nat
      BY <2>2, HeapAssumption
    <3>. QED
      BY <1>2, <2>1, <3>1, Zenon DEF HeapTypeOK, NodeSet
  <2>4. Covers(nodes, kheap_end) /\ Ordered(nodes)
    BY <2>1, <2>2 DEF Covers, Ordered
  <2>5. Keeps(Used(nodes), live)
    <3>1. Used(nodes) = {}
      BY <2>1 DEF Used
    <3>. QED
      BY <1>2, <3>1, Zenon DEF Keeps
  <2>6. PagesKept
    <3>1. 0 \div PAGING_PAGE_SIZE = 0 /\ 0 * PAGING_PAGE_SIZE = 0
      BY HeapAssumption
    <3>. QED
      BY <2>2, <3>1, HeapAssumption DEF PagesKept
  <2>. QED
    BY <1>2, <2>1, <2>3, <2>4, <2>5, <2>6 DEF HInv
<1>. QED
  BY <1>4, <1>5

\* The list of a heap in which a request is looked for has no free neighbours.
NoFreePair(list) == \A i \in 1..(Len(list) - 1) : ~ (list[i].isFree /\ list[i + 1].isFree)

\* The first node that fits.
LEMMA FirstFitHeap == HInv /\ first_fit => HInv'
<1> SUFFICES ASSUME HInv, first_fit PROVE HInv'
  OBVIOUS
<1>1. request # NONE /\ current = 0 /\ request.size >= request.asked /\ request \in [size : Nat, asked : HeapSizes]
  BY DEF HInv, HeapTypeOK, first_fit
<1>2. PICK i \in 1..Len(nodes) :
        /\ Fits(i)
        /\ nodes' = IF Splits(nodes[i].size - request.size) THEN Split(i)
                    ELSE [nodes EXCEPT ![i].isFree = FALSE]
        /\ live' = live \cup {[addr |-> Region(nodes[i]), size |-> request.asked]}
  BY Zenon DEF first_fit
<1>3. nodes \in Seq(NodeSet) /\ Len(nodes) \in Nat /\ Len(nodes) > 0 /\ kheap_end \in Nat
  BY <1>2 DEF HInv, HeapTypeOK, NodeSet
<1>4. Tiles(nodes, kheap_end) /\ Ordered(nodes) /\ Keeps(Used(nodes), live) /\ NoFreePair(nodes)
  BY <1>1, <1>3 DEF HInv, Covers, NoFreePair, BothFree
<1>5. GoodNode(nodes[i]) /\ nodes[i].isFree /\ nodes[i].size >= request.size
  BY <1>2, <1>3, Fields DEF Fits
<1> DEFINE r == [addr |-> Region(nodes[i]), size |-> request.asked]
           a == Node(nodes[i].addr, request.size, FALSE)
           b == Node(Region(nodes[i]) + request.size, nodes[i].size - request.size - NodeSize, TRUE)
<1>6. /\ r \in [addr : Nat, size : HeapSizes] /\ r.addr = Region(nodes[i]) /\ r.size = request.asked
      /\ request.asked \in Nat /\ request.size \in Nat
      /\ live' = live \cup {r}
  BY <1>1, <1>2, <1>5, HeapAssumption DEF GoodNode
<1> HIDE DEF r
<1>7. \A n \in Used(nodes) : Region(n) # Region(nodes[i])
  <2>1. nodes[i] \notin Used(nodes)
    BY <1>5 DEF Used
  <2>. QED
    BY <1>3, <1>4, <2>1, UsedDiffer
<1> DEFINE Good == /\ nodes' \in Seq(NodeSet) /\ Len(nodes') > 0
                   /\ Tiles(nodes', kheap_end) /\ Ordered(nodes') /\ NoFreePair(nodes')
                   /\ Keeps(Used(nodes'), live')
<1>8. Good
  <2>1. CASE ~ Splits(nodes[i].size - request.size)
    <3>1. PICK e \in NodeSet :
            /\ e.addr = nodes[i].addr /\ e.size = nodes[i].size /\ ~ e.isFree
            /\ nodes' \in Seq(NodeSet) /\ Changed(nodes', nodes, i, e)
      BY <1>2, <2>1, FlagSet, Zenon
    <3>2. Tiles(nodes', kheap_end) /\ Ordered(nodes')
      BY <1>3, <1>4, <3>1, FlagKeepsOrder
    <3>3. PICK f \in NodeSet : f.isFree
      BY <1>3, <1>5, Fields
    <3>4. Used(nodes') = Used(nodes) \cup {e}
      BY <1>3, <1>5, <3>1, <3>3, UsedAfterAlloc
    <3>5. Region(e) = r.addr /\ e.size >= r.size
      BY <1>1, <1>5, <1>6, <3>1 DEF GoodNode, Region
    <3>6. Keeps(Used(nodes'), live')
      <4>1. \A n \in Used(nodes) : Region(n) # Region(e)
        BY <1>6, <1>7, <3>5
      <4>. QED
        BY <1>4, <1>6, <3>4, <3>5, <4>1, AllocKeeps
    <3>7. NoFreePair(nodes') /\ Len(nodes') > 0
      <4>1. ASSUME NEW j \in 1..(Len(nodes) - 1) PROVE ~ (nodes'[j].isFree /\ nodes'[j + 1].isFree)
        <5>1. nodes'[j] = (IF j = i THEN e ELSE nodes[j]) /\ nodes'[j + 1] = IF j + 1 = i THEN e ELSE nodes[j + 1]
          BY <1>3, <3>1 DEF Changed
        <5>. QED
          BY <1>4, <3>1, <5>1 DEF NoFreePair
      <4>. QED
        BY <1>3, <3>1, <4>1 DEF NoFreePair, Changed
    <3>. QED
      BY <3>1, <3>2, <3>6, <3>7
  <2>2. CASE Splits(nodes[i].size - request.size)
    <3> DEFINE rest == nodes[i].size - request.size - NodeSize
    <3>1. rest \in Nat
      BY <1>1, <1>5, <2>2, HeapAssumption DEF Splits, GoodNode
    <3>2. /\ a \in NodeSet /\ a.addr = nodes[i].addr /\ a.size = request.size /\ ~ a.isFree
          /\ b \in NodeSet /\ b.addr = Region(nodes[i]) + request.size /\ b.size = rest /\ b.isFree
      BY <1>1, <1>5, <3>1 DEF Node, NodeSet, GoodNode
    <3> HIDE DEF a, b
    <3>3. End(a) = b.addr /\ End(b) = End(nodes[i]) /\ Region(a) = r.addr /\ a.size >= r.size
      <4>1. nodes[i].addr \in Nat /\ nodes[i].size \in Nat /\ NodeSize \in Nat
        BY <1>5, HeapAssumption DEF GoodNode
      <4>2. rest + request.size + NodeSize = nodes[i].size /\ request.size \in Nat
        BY <1>1, <4>1 DEF GoodNode
      <4> HIDE DEF rest
      <4>3. End(a) = b.addr
        BY <3>2, <4>1, <4>2 DEF End, Region
      <4>4. End(b) = End(nodes[i])
        BY <3>1, <3>2, <4>1, <4>2 DEF End, Region
      <4>5. Region(a) = r.addr /\ a.size >= r.size
        BY <1>1, <1>6, <3>2, <4>1 DEF Region
      <4>. QED
        BY <4>3, <4>4, <4>5
    <3> DEFINE c == [nodes EXCEPT ![i] = a]
    <3>4. nodes' = InsertAt(c, i + 1, b)
      BY <1>2, <2>2 DEF Split, a, b
    <3> HIDE DEF rest
    <3>5. c \in Seq(NodeSet) /\ Changed(c, nodes, i, a)
      BY <1>3, <3>2, Assigned
    <3> HIDE DEF c
    <3>6. Len(c) = Len(nodes) /\ i + 1 \in 1..(Len(c) + 1)
      BY <1>3, <3>5 DEF Changed
    <3>7. nodes' \in Seq(NodeSet) /\ WithNew(nodes', c, i + 1, b)
      BY <3>2, <3>4, <3>5, <3>6, Inserted
    <3>8. SplitOf(nodes', nodes, i, a, b)
      <4>1. ASSUME NEW j \in 1..(Len(nodes) + 1)
            PROVE  nodes'[j] = IF j < i THEN nodes[j] ELSE IF j = i THEN a
                               ELSE IF j = i + 1 THEN b ELSE nodes[j - 1]
        <5>1. nodes'[j] = IF j < i + 1 THEN c[j] ELSE IF j = i + 1 THEN b ELSE c[j - 1]
          BY <3>6, <3>7 DEF WithNew
        <5>2. CASE j < i + 1
          BY <1>3, <3>5, <5>1, <5>2 DEF Changed
        <5>3. CASE j >= i + 1
          BY <1>3, <3>5, <5>1, <5>3 DEF Changed
        <5>. QED
          BY <1>3, <5>2, <5>3
      <4>. QED
        BY <3>6, <3>7, <4>1 DEF WithNew, SplitOf
    <3>9. Tiles(nodes', kheap_end) /\ Ordered(nodes')
      BY <1>3, <1>4, <3>2, <3>3, <3>8, SplitKeepsOrder
    <3>10. Used(nodes') = Used(nodes) \cup {a}
      BY <1>3, <1>5, <3>2, <3>8, UsedAfterAlloc
    <3>11. Keeps(Used(nodes'), live')
      <4>1. \A n \in Used(nodes) : Region(n) # Region(a)
        BY <1>6, <1>7, <3>3
      <4>. QED
        BY <1>4, <1>6, <3>3, <3>10, <4>1, AllocKeeps
    <3>12. NoFreePair(nodes') /\ Len(nodes') > 0
      <4>1. Len(nodes') = Len(nodes) + 1
        BY <3>8 DEF SplitOf
      <4>2. ASSUME NEW j \in 1..Len(nodes) PROVE ~ (nodes'[j].isFree /\ nodes'[j + 1].isFree)
        <5>1. CASE j < i - 1
          BY <1>3, <1>4, <3>8, <5>1 DEF NoFreePair, SplitOf
        <5>2. CASE j = i - 1
          BY <1>3, <3>2, <3>8, <5>2 DEF SplitOf
        <5>3. CASE j = i
          BY <1>3, <3>2, <3>8, <5>3 DEF SplitOf
        <5>4. CASE j = i + 1
          <6>1. nodes'[j + 1] = nodes[i + 1] /\ i \in 1..(Len(nodes) - 1)
            BY <1>3, <3>8, <5>4 DEF SplitOf
          <6>. QED
            BY <1>4, <1>5, <6>1 DEF NoFreePair
        <5>5. CASE j > i + 1
          <6>1. /\ nodes'[j] = nodes[j - 1] /\ nodes'[j + 1] = nodes[(j - 1) + 1]
                /\ j - 1 \in 1..(Len(nodes) - 1)
            BY <1>3, <3>8, <5>5 DEF SplitOf
          <6>. QED
            BY <1>4, <6>1 DEF NoFreePair
        <5>. QED
          BY <1>3, <5>1, <5>2, <5>3, <5>4, <5>5
      <4>. QED
        BY <1>3, <4>1, <4>2 DEF NoFreePair
    <3>. QED
      BY <3>7, <3>9, <3>11, <3>12
  <2>. QED
    BY <2>1, <2>2
<1>9. live' \subseteq [addr : Nat, size : HeapSizes]
  BY <1>2, <1>6 DEF HInv, HeapTypeOK
<1>10. UNCHANGED <<kheap_end, mapped, frames, halted, current>> /\ request' = NONE
  BY DEF first_fit
<1> HIDE DEF r, a, b
<1>11. HeapTypeOK'
  BY <1>8, <1>9, <1>10 DEF HInv, HeapTypeOK, NodeSet
<1>12. PagesKept'
  BY <1>10 DEF HInv, PagesKept
<1>13. Covers(nodes', kheap_end')
  BY <1>8, <1>10 DEF Covers
<1>. QED
  BY <1>8, <1>10, <1>11, <1>12, <1>13 DEF HInv, NoFreePair, BothFree

\* The list after an extension.
LEMMA ExtendedList ==
    ASSUME HInv, current = 0, NEW bytes \in Nat, bytes > NodeSize
    PROVE  LET new == Extend(bytes) IN
           /\ new \in Seq(NodeSet) /\ Len(new) > 0
           /\ Tiles(new, kheap_end + bytes) /\ Ordered(new) /\ NoFreePair(new)
           /\ Used(new) = Used(nodes)
<1> DEFINE n == Len(nodes)
           new == Extend(bytes)
<1>0. nodes \in Seq(NodeSet) /\ n \in Nat /\ kheap_end \in Nat
  BY DEF HInv, HeapTypeOK, NodeSet
<1>a. CASE n = 0
  <2> DEFINE e == Node(kheap_end, bytes - NodeSize, TRUE)
  <2>1. e \in NodeSet /\ e.addr = kheap_end /\ e.size = bytes - NodeSize /\ e.isFree
    BY <1>0, HeapAssumption DEF Node, NodeSet
  <2>2. nodes = <<>> /\ kheap_end = 0
    BY <1>0, <1>a DEF HInv, Covers
  <2>3. new = Append(nodes, e)
    BY <2>2, Zenon DEF Extend
  <2> HIDE DEF e, new
  <2>4. End(e) = kheap_end + bytes
    BY <1>0, <2>1, HeapAssumption DEF End
  <2>5. new \in Seq(NodeSet) /\ Len(new) = 1 /\ new[1] = e
    BY <2>1, <2>2, <2>3
  <2>6. Tiles(new, kheap_end + bytes) /\ Ordered(new) /\ NoFreePair(new)
    BY <2>1, <2>2, <2>4, <2>5 DEF Tiles, Ordered, NoFreePair
  <2>7. Used(new) = {} /\ Used(nodes) = {}
    BY <1>0, <1>a, <2>1, <2>5 DEF Used
  <2>. QED
    BY <2>5, <2>6, <2>7 DEF new
<1>b. CASE n # 0
  <2>1. nodes \in Seq(NodeSet) /\ n \in Nat /\ n > 0 /\ n \in 1..n /\ kheap_end \in Nat
    BY <1>0, <1>b
  <2>2. Tiles(nodes, kheap_end) /\ Ordered(nodes) /\ NoFreePair(nodes)
    BY <2>1 DEF HInv, Covers, NoFreePair, BothFree
  <2>3. nodes # <<>> /\ Last(nodes) = nodes[n]
    BY <2>1 DEF Last
  <2>4. nodes[n] \in NodeSet /\ GoodNode(nodes[n])
    BY <2>1, Fields
  <2>5. CASE ~ nodes[n].isFree
    <3> DEFINE e == Node(kheap_end, bytes - NodeSize, TRUE)
    <3>1. e \in NodeSet /\ e.addr = kheap_end /\ e.size = bytes - NodeSize /\ e.isFree
      BY <2>1, HeapAssumption DEF Node, NodeSet
    <3>2. new = Append(nodes, e)
      BY <2>3, <2>5, Zenon DEF Extend
    <3> HIDE DEF e, new
    <3>3. End(e) = kheap_end + bytes
      BY <2>1, <3>1, HeapAssumption DEF End
    <3>4. new \in Seq(NodeSet) /\ WithNew(new, nodes, n + 1, e)
      BY <2>1, <3>1, <3>2, Appended
    <3>5. Tiles(new, kheap_end + bytes) /\ Ordered(new)
      BY <2>1, <2>2, <3>1, <3>3, <3>4, AppendKeepsOrder, Zenon
    <3>6. n + 1 \in 1..(n + 1)
      BY <2>1
    <3>7. Used(new) = Used(nodes)
      BY <2>1, <3>1, <3>4, <3>6, UsedUnchanged
    <3>8. NoFreePair(new) /\ Len(new) > 0
      <4>1. Len(new) = n + 1
        BY <3>4 DEF WithNew
      <4>2. ASSUME NEW j \in 1..n PROVE ~ (new[j].isFree /\ new[j + 1].isFree)
        <5>1. new[j] = nodes[j] /\ (j # n => new[j + 1] = nodes[j + 1] /\ j \in 1..(n - 1))
          BY <2>1, <3>4 DEF WithNew
        <5>. QED
          BY <2>2, <2>5, <5>1 DEF NoFreePair
      <4>. QED
        BY <2>1, <4>1, <4>2 DEF NoFreePair
    <3>. QED
      BY <3>4, <3>5, <3>7, <3>8 DEF new
  <2>6. CASE nodes[n].isFree
    <3> DEFINE e == [nodes[n] EXCEPT !.size = @ + bytes]
    <3>1. e \in NodeSet /\ e.addr = nodes[n].addr /\ e.size = nodes[n].size + bytes /\ e.isFree
      BY <2>4, <2>6 DEF NodeSet
    <3>2. new = [nodes EXCEPT ![n] = e]
      BY <2>3, <2>6 DEF Extend
    <3> HIDE DEF e, new
    <3>3. new \in Seq(NodeSet) /\ Changed(new, nodes, n, e)
      BY <2>1, <3>1, <3>2, Assigned, Zenon
    <3>4. Tiles(new, kheap_end + bytes) /\ Ordered(new)
      BY <2>1, <2>2, <3>1, <3>3, GrowKeepsOrder
    <3>5. Used(new) = Used(nodes)
      <4>1. n \in 1..(n + 1)
        BY <2>1
      <4>. QED
        BY <2>1, <2>6, <3>1, <3>3, <4>1, UsedUnchanged
    <3>6. NoFreePair(new) /\ Len(new) > 0
      <4>1. Len(new) = n
        BY <3>3 DEF Changed
      <4>2. ASSUME NEW j \in 1..(n - 1) PROVE ~ (new[j].isFree /\ new[j + 1].isFree)
        <5>1. (new[j].isFree <=> nodes[j].isFree) /\ (new[j + 1].isFree <=> nodes[j + 1].isFree)
          <6>1. new[j] = nodes[j] /\ new[j + 1] = IF j + 1 = n THEN e ELSE nodes[j + 1]
            BY <2>1, <3>3 DEF Changed
          <6>. QED
            BY <2>6, <3>1, <6>1
        <5>. QED
          BY <2>2, <5>1 DEF NoFreePair
      <4>. QED
        BY <2>1, <4>1, <4>2 DEF NoFreePair
    <3>. QED
      BY <3>3, <3>4, <3>5, <3>6 DEF new
  <2>. QED
    BY <2>5, <2>6
<1>. QED
  BY <1>0, <1>a, <1>b

\* The heap grows.
LEMMA ExtendHeap == HInv /\ kheap_extend => HInv'
<1> SUFFICES ASSUME HInv, kheap_extend PROVE HInv'
  OBVIOUS
<1> DEFINE pages == kheap_end \div PAGING_PAGE_SIZE
           bytes == ExtendingPages * PAGING_PAGE_SIZE
<1>1. current = 0 /\ request # NONE /\ frames >= ExtendingPages
  BY DEF HInv, kheap_extend
<1>2. /\ frames' = frames - ExtendingPages /\ nodes' = Extend(bytes) /\ kheap_end' = kheap_end + bytes
      /\ mapped' = mapped \cup PagesFrom(kheap_end, ExtendingPages)
      /\ UNCHANGED <<request, halted, current, live>>
  BY DEF kheap_extend
<1>3. bytes \in Nat /\ bytes > NodeSize
  BY WholePages, HeapAssumption
<1>4. /\ nodes' \in Seq(NodeSet) /\ Len(nodes') > 0
      /\ Tiles(nodes', kheap_end') /\ Ordered(nodes') /\ NoFreePair(nodes')
      /\ Used(nodes') = Used(nodes)
  BY <1>1, <1>2, <1>3, ExtendedList
<1>5. pages \in Nat /\ kheap_end \in Nat /\ frames \in Nat /\ Frames \in Nat /\ ExtendingPages \in Nat \ {0}
  BY HeapAssumption DEF HInv, HeapTypeOK
<1>6. /\ kheap_end = pages * PAGING_PAGE_SIZE /\ frames + pages <= Frames
      /\ 0..(pages - 1) \subseteq mapped /\ mapped \subseteq 0..(Frames + ExtendingPages)
  BY DEF HInv, HeapTypeOK, PagesKept
<1>7. kheap_end' = (pages + ExtendingPages) * PAGING_PAGE_SIZE
  BY <1>2, <1>5, <1>6, WholePages
<1>8. kheap_end' \div PAGING_PAGE_SIZE = pages + ExtendingPages
  BY <1>5, <1>7, WholePages
<1>9. mapped' = mapped \cup {pages + j : j \in 0..(ExtendingPages - 1)}
  BY <1>2 DEF PagesFrom
<1> HIDE DEF pages, bytes
<1>10. mapped' \subseteq 0..(Frames + ExtendingPages)
  <2>1. ASSUME NEW j \in 0..(ExtendingPages - 1) PROVE pages + j \in 0..(Frames + ExtendingPages)
    BY <1>5, <1>6
  <2>. QED
    BY <1>6, <1>9, <2>1, Zenon
<1>11. 0..((pages + ExtendingPages) - 1) \subseteq mapped'
  <2>1. ASSUME NEW p \in 0..((pages + ExtendingPages) - 1), p >= pages PROVE p \in mapped'
    <3>1. p - pages \in 0..(ExtendingPages - 1) /\ pages + (p - pages) = p
      BY <1>5, <2>1
    <3>. QED
      BY <1>9, <3>1
  <2>2. ASSUME NEW p \in 0..((pages + ExtendingPages) - 1), p < pages PROVE p \in mapped'
    BY <1>5, <1>6, <1>9, <2>2
  <2>. QED
    BY <1>5, <2>1, <2>2
<1>12. PagesKept'
  BY <1>1, <1>2, <1>5, <1>6, <1>7, <1>8, <1>11 DEF PagesKept
<1>13. HeapTypeOK'
  <2>1. frames' \in 0..Frames /\ kheap_end' \in Nat
    BY <1>1, <1>2, <1>3, <1>5, <1>6
  <2>. QED
    BY <1>2, <1>4, <1>10, <2>1 DEF HInv, HeapTypeOK, NodeSet
<1>14. Covers(nodes', kheap_end')
  BY <1>4 DEF Covers
<1>. QED
  BY <1>2, <1>4, <1>12, <1>13, <1>14 DEF HInv, NoFreePair, BothFree

\* An extension that fails or halts half-way keeps what was mapped.
LEMMA HalfWay ==
    ASSUME HInv, NEW n \in 0..frames, frames' = 0, mapped' = mapped \cup PagesFrom(kheap_end, n),
           UNCHANGED <<nodes, kheap_end, current, live>>, halted' \in BOOLEAN,
           request' = NONE \/ request' = request
    PROVE  HInv'
<1> DEFINE pages == kheap_end \div PAGING_PAGE_SIZE
<1>1. pages \in Nat /\ kheap_end \in Nat /\ frames \in Nat /\ Frames \in Nat /\ ExtendingPages \in Nat \ {0}
  <2>1. kheap_end \in Nat /\ frames \in Nat
    BY HeapAssumption DEF HInv, HeapTypeOK
  <2>. QED
    BY <2>1, HeapAssumption
<1>2. /\ kheap_end = pages * PAGING_PAGE_SIZE /\ frames + pages <= Frames
      /\ 0..(pages - 1) \subseteq mapped /\ mapped \subseteq 0..(Frames + ExtendingPages)
  BY DEF HInv, HeapTypeOK, PagesKept
<1>3. mapped' = mapped \cup {pages + j : j \in 0..(n - 1)}
  BY DEF PagesFrom
<1>4. kheap_end' \div PAGING_PAGE_SIZE = pages
  OBVIOUS
<1> HIDE DEF pages
<1>5. mapped' \subseteq 0..(Frames + ExtendingPages) /\ 0..(pages - 1) \subseteq mapped'
  <2>1. ASSUME NEW j \in 0..(n - 1) PROVE pages + j \in 0..(Frames + ExtendingPages)
    BY <1>1, <1>2
  <2>. QED
    BY <1>2, <1>3, <2>1, Zenon
<1>6. PagesKept'
  BY <1>1, <1>2, <1>4, <1>5 DEF PagesKept
<1>7. HeapTypeOK'
  BY <1>1, <1>5 DEF HInv, HeapTypeOK
<1>. QED
  BY <1>6, <1>7 DEF HInv, BothFree

\* The frames of the pages run out.
LEMMA ExtendFailsHeap == HInv /\ extend_fails => HInv'
<1> SUFFICES ASSUME HInv, extend_fails PROVE HInv'
  OBVIOUS
<1>1. frames \in 0..frames /\ halted \in BOOLEAN
  BY DEF HInv, HeapTypeOK
<1>. QED
  BY <1>1, HalfWay DEF extend_fails

\* The frame of a page table is missing.
LEMMA ExtendHaltsHeap == HInv /\ extend_halts => HInv'
<1> SUFFICES ASSUME HInv, extend_halts PROVE HInv'
  OBVIOUS
<1>1. frames - 1 \in 0..frames
  BY HeapAssumption DEF HInv, HeapTypeOK, extend_halts
<1>. QED
  BY <1>1, HalfWay DEF extend_halts

\* A region is given back.
LEMMA KfreeHeap == ASSUME HInv, NEW i \in 1..Len(nodes), kfree(i) PROVE HInv'
<1>1. UNCHANGED <<kheap_end, mapped, frames, request, halted>> /\ request = NONE
  BY DEF kfree
<1>2. nodes \in Seq(NodeSet) /\ Len(nodes) \in Nat /\ Len(nodes) > 0 /\ kheap_end \in Nat
  BY DEF HInv, HeapTypeOK, NodeSet
<1>3. Tiles(nodes, kheap_end) /\ Ordered(nodes) /\ Keeps(Used(nodes), live)
  BY <1>2 DEF HInv, Covers
<1>4. CASE nodes[i].isFree
  <2>1. UNCHANGED <<nodes, current, live>>
    BY <1>4 DEF kfree
  <2>. QED
    BY <1>1, <2>1 DEF HInv, HeapTypeOK, PagesKept, BothFree
<1>5. CASE ~ nodes[i].isFree
  <2>1. /\ nodes' = [nodes EXCEPT ![i].isFree = TRUE] /\ current' = 1
        /\ live' = {r \in live : r.addr # Region(nodes[i])}
    BY <1>5 DEF kfree
  <2>2. PICK e \in NodeSet :
          /\ e.addr = nodes[i].addr /\ e.size = nodes[i].size /\ e.isFree = TRUE
          /\ nodes' \in Seq(NodeSet) /\ Changed(nodes', nodes, i, e)
    BY <2>1, FlagSet, Zenon
  <2>3. Tiles(nodes', kheap_end) /\ Ordered(nodes')
    BY <1>2, <1>3, <2>2, FlagKeepsOrder
  <2>4. Used(nodes') = Used(nodes) \ {nodes[i]}
    BY <1>2, <1>3, <1>5, <2>2, UsedAfterFree
  <2>5. nodes[i] \in Used(nodes)
    BY <1>2, <1>5, Fields DEF Used
  <2>6. Keeps(Used(nodes'), live')
    <3>1. \A n \in Used(nodes) : Region(n) = Region(nodes[i]) => n = nodes[i]
      BY <1>2, <1>3, UsedDiffer
    <3>2. \A r : r \in live' <=> r \in live /\ r.addr # Region(nodes[i])
      BY <2>1
    <3>. QED
      BY <1>3, <2>4, <2>5, <3>1, <3>2, FreeKeeps
  <2>7. HeapTypeOK'
    BY <1>1, <2>1, <2>2 DEF HInv, HeapTypeOK, NodeSet
  <2>8. PagesKept' /\ Len(nodes') > 0
    BY <1>1, <1>2, <2>2 DEF HInv, PagesKept, Changed
  <2>9. \A j \in 1..(Len(nodes') - 1) : ~ (current' = 0 \/ j < current')
    BY <1>2, <2>1, <2>2 DEF Changed
  <2>10. Covers(nodes', kheap_end')
    BY <1>1, <2>3, <2>8 DEF Covers
  <2>. QED
    BY <1>1, <2>3, <2>6, <2>7, <2>8, <2>9, <2>10 DEF HInv
<1>. QED
  BY <1>4, <1>5

\* A turn of the walk of kheap_coalesce.
LEMMA CoalesceHeap == HInv /\ kheap_coalesce => HInv'
<1> SUFFICES ASSUME HInv, kheap_coalesce PROVE HInv'
  OBVIOUS
<1> DEFINE i == current
           n == Len(nodes)
<1>1. UNCHANGED <<kheap_end, mapped, frames, request, halted, live>> /\ current # 0
  BY DEF kheap_coalesce
<1>2. request = NONE
  BY <1>1 DEF HInv
<1>3. nodes \in Seq(NodeSet) /\ n \in Nat /\ kheap_end \in Nat /\ i \in Nat
  BY DEF HInv, HeapTypeOK, NodeSet
<1>4. (n > 0 => Tiles(nodes, kheap_end)) /\ Ordered(nodes) /\ Keeps(Used(nodes), live)
  BY <1>3 DEF HInv, Covers
<1>5. CASE i < n /\ BothFree(i) /\ nodes' = Merge(i) /\ UNCHANGED current
  <2>1. i \in 1..(n - 1) /\ i \in 1..n /\ i + 1 \in 1..n /\ i \in 1..(n + 1)
    BY <1>1, <1>3, <1>5
  <2> DEFINE w == RemoveAt(nodes, i + 1)
             size == nodes[i].size + nodes[i + 1].size + NodeSize
             e == [nodes[i] EXCEPT !.size = size]
  <2>2. /\ nodes[i] \in NodeSet /\ GoodNode(nodes[i]) /\ GoodNode(nodes[i + 1])
        /\ nodes[i].isFree /\ nodes[i + 1].isFree
    BY <1>3, <1>5, <2>1, Fields DEF BothFree
  <2>3. size \in Nat
    BY <2>2, HeapAssumption DEF GoodNode
  <2>4. e \in NodeSet /\ e.addr = nodes[i].addr /\ e.size = size /\ e.isFree
    BY <2>2, <2>3 DEF NodeSet
  <2>5. w \in Seq(NodeSet) /\ Without(w, nodes, i + 1)
    BY <1>3, <2>1, Removed
  <2>6. Len(w) = n - 1 /\ w[i] = nodes[i]
    BY <1>3, <2>1, <2>5 DEF Without
  <2>7. nodes' = [w EXCEPT ![i] = e]
    BY <1>5, <2>6 DEF Merge
  <2> HIDE DEF w, e
  <2>8. nodes' \in Seq(NodeSet) /\ Changed(nodes', w, i, e)
    BY <2>1, <2>4, <2>5, <2>6, <2>7, Assigned, Zenon
  <2>9. MergeOf(nodes', nodes, i, e)
    <3>1. ASSUME NEW j \in 1..(n - 1)
          PROVE  nodes'[j] = IF j < i THEN nodes[j] ELSE IF j = i THEN e ELSE nodes[j + 1]
      <4>1. nodes'[j] = IF j = i THEN e ELSE w[j]
        BY <2>6, <2>8 DEF Changed
      <4>2. w[j] = IF j < i + 1 THEN nodes[j] ELSE nodes[j + 1]
        BY <2>5 DEF Without
      <4>. QED
        BY <1>3, <4>1, <4>2
    <3>. QED
      BY <2>6, <2>8, <3>1 DEF MergeOf, Changed
  <2>10. End(e) = End(nodes[i + 1])
    <3>1. End(nodes[i]) = nodes[i + 1].addr
      BY <1>4, <2>1 DEF Tiles
    <3>2. NodeSize \in Nat /\ nodes[i].addr \in Nat /\ nodes[i].size \in Nat /\ nodes[i + 1].size \in Nat
      BY <2>2, HeapAssumption DEF GoodNode
    <3>. QED
      BY <2>4, <3>1, <3>2 DEF End
  <2>11. Tiles(nodes', kheap_end) /\ Ordered(nodes')
    BY <1>3, <1>4, <2>1, <2>4, <2>9, <2>10, MergeKeepsOrder
  <2>12. Used(nodes') = Used(nodes)
    BY <1>3, <1>5, <2>1, <2>2, <2>4, <2>9, UsedUnchanged
  <2>13. ASSUME NEW j \in 1..(Len(nodes') - 1), j < i PROVE ~ (nodes'[j].isFree /\ nodes'[j + 1].isFree)
    <3>1. Len(nodes') = n - 1
      BY <2>9 DEF MergeOf
    <3>2. nodes'[j] = nodes[j] /\ nodes'[j + 1] = IF j + 1 = i THEN e ELSE nodes[j + 1]
      BY <1>3, <2>1, <2>9, <2>13, <3>1 DEF MergeOf
    <3>3. ~ (nodes[j].isFree /\ nodes[j + 1].isFree)
      BY <1>3, <2>13, <3>1 DEF HInv, BothFree
    <3>. QED
      BY <2>2, <2>4, <3>2, <3>3
  <2>14. HeapTypeOK'
    BY <1>1, <1>5, <2>8 DEF HInv, HeapTypeOK, NodeSet
  <2>15. PagesKept' /\ Len(nodes') > 0
    BY <1>1, <1>3, <2>1, <2>9 DEF HInv, PagesKept, MergeOf
  <2>16. \A j \in 1..(Len(nodes') - 1) :
            current' = 0 \/ j < current' => ~ (nodes'[j].isFree /\ nodes'[j + 1].isFree)
    BY <1>1, <1>5, <2>13
  <2>17. Covers(nodes', kheap_end')
    BY <1>1, <2>11, <2>15 DEF Covers
  <2>. QED
    BY <1>1, <1>2, <1>4, <2>11, <2>12, <2>14, <2>15, <2>16, <2>17 DEF HInv, BothFree
<1>6. CASE i < n /\ ~ BothFree(i) /\ current' = i + 1 /\ UNCHANGED nodes
  <2>1. ASSUME NEW j \in 1..(n - 1), j < i + 1 PROVE ~ BothFree(j)
    <3>1. j < i \/ j = i
      BY <1>3, <2>1
    <3>. QED
      BY <1>6, <3>1 DEF HInv
  <2>2. HeapTypeOK' /\ PagesKept'
    BY <1>1, <1>3, <1>6 DEF HInv, HeapTypeOK, PagesKept
  <2>3. \A j \in 1..(Len(nodes') - 1) : current' = 0 \/ j < current' => ~ BothFree(j)'
    BY <1>3, <1>6, <2>1 DEF BothFree
  <2>. QED
    BY <1>1, <1>2, <1>6, <2>2, <2>3 DEF HInv
<1>7. CASE i >= n /\ current' = 0 /\ UNCHANGED nodes
  <2>1. \A j \in 1..(n - 1) : ~ BothFree(j)
    BY <1>3, <1>7 DEF HInv
  <2>2. HeapTypeOK' /\ PagesKept'
    BY <1>1, <1>7 DEF HInv, HeapTypeOK, PagesKept
  <2>3. \A j \in 1..(Len(nodes') - 1) : ~ BothFree(j)'
    BY <1>7, <2>1 DEF BothFree
  <2>. QED
    BY <1>1, <1>2, <1>7, <2>2, <2>3 DEF HInv
<1>. QED
  BY <1>5, <1>6, <1>7 DEF kheap_coalesce

\* Every step keeps the invariant.
LEMMA StepHeap == HInv /\ [HeapNext]_heap_vars => HInv'
<1> SUFFICES ASSUME HInv, [HeapNext]_heap_vars PROVE HInv'
  OBVIOUS
<1>1. CASE \E size \in HeapSizes : kmalloc(size)
  <2>1. PICK size \in HeapSizes : kmalloc(size)
    BY <1>1
  <2>2. size \in Nat /\ Rounded(size) \in Nat /\ Rounded(size) >= size
    BY RoundedUp, HeapAssumption
  <2>3. /\ request' = [size |-> Rounded(size), asked |-> size] /\ current = 0
        /\ UNCHANGED <<nodes, kheap_end, mapped, frames, halted, current, live>>
    BY <2>1 DEF kmalloc
  <2>. QED
    BY <2>2, <2>3 DEF HInv, HeapTypeOK, PagesKept, BothFree
<1>2. CASE frame_freed
  <2>1. /\ frames + kheap_end \div PAGING_PAGE_SIZE < Frames /\ frames' = frames + 1
        /\ UNCHANGED <<nodes, kheap_end, mapped, request, halted, current, live>>
    BY <1>2 DEF frame_freed
  <2>2. kheap_end \div PAGING_PAGE_SIZE \in Nat /\ frames \in Nat /\ Frames \in Nat
    BY HeapAssumption DEF HInv, HeapTypeOK
  <2>. QED
    BY <2>1, <2>2 DEF HInv, HeapTypeOK, PagesKept, BothFree
<1>3. CASE UNCHANGED heap_vars
  BY <1>3 DEF heap_vars, HInv, HeapTypeOK, PagesKept, BothFree
<1>. QED
  BY <1>1, <1>2, <1>3, FirstFitHeap, ExtendHeap, ExtendFailsHeap, ExtendHaltsHeap, KfreeHeap,
     CoalesceHeap DEF HeapNext

\* "an ordered linked list of those nodes ... non-overlapping memory regions"
\* (kheap.h), of any length: whatever is split, merged, extended or given back,
\* and whichever extension fails half-way, the nodes tile the mapped heap, and
\* kheap_coalesce leaves no two free neighbours behind.
THEOREM HeapIsTiled == HeapSpec => []NodesTileHeap
<1>1. HInv => NodesTileHeap
  <2> SUFFICES ASSUME HInv PROVE NodesTileHeap
    OBVIOUS
  <2>1. Last(nodes) = nodes[Len(nodes)]
    BY DEF HInv, HeapTypeOK, Last
  <2>2. PagesFrom(0, kheap_end \div PAGING_PAGE_SIZE) \subseteq mapped
    <3> DEFINE pages == kheap_end \div PAGING_PAGE_SIZE
    <3>1. 0 \div PAGING_PAGE_SIZE = 0
      BY HeapAssumption
    <3>2. 0..(pages - 1) \subseteq mapped
      BY DEF HInv, PagesKept
    <3> HIDE DEF pages
    <3>3. ASSUME NEW j \in 0..(pages - 1) PROVE 0 \div PAGING_PAGE_SIZE + j \in mapped
      BY <3>1, <3>2
    <3>. QED
      BY <3>3 DEF PagesFrom, pages
  <2>3. nodes = <<>> <=> Len(nodes) = 0
    BY DEF HInv, HeapTypeOK
  <2>. QED
    BY <2>1, <2>2, <2>3 DEF HInv, Covers, Tiles, NodesTileHeap
<1>. QED
  BY <1>1, InitHeap, StepHeap, PTL DEF HeapSpec

\* What kmalloc has returned and kfree has not got back stays a region of its
\* own that is large enough, whatever the other calls do to the list.
THEOREM RegionsStay == HeapSpec => []RegionsKept
<1>1. HInv => RegionsKept
  <2> SUFFICES ASSUME HInv PROVE RegionsKept
    OBVIOUS
  <2>1. Keeps(Used(nodes), live) /\ nodes \in Seq(NodeSet)
    BY DEF HInv, HeapTypeOK, NodeSet
  <2>2. ASSUME NEW r \in live
        PROVE  \E i \in 1..Len(nodes) :
                  Region(nodes[i]) = r.addr /\ ~ nodes[i].isFree /\ nodes[i].size >= r.size
    <3>1. PICK n \in Used(nodes) : Region(n) = r.addr /\ n.size >= r.size
      BY <2>1 DEF Keeps
    <3>. QED
      BY <3>1 DEF Used
  <2>3. ASSUME NEW i \in 1..Len(nodes), ~ nodes[i].isFree PROVE \E r \in live : r.addr = Region(nodes[i])
    <3>1. nodes[i] \in Used(nodes)
      BY <2>1, <2>3, Fields DEF Used
    <3>. QED
      BY <2>1, <3>1 DEF Keeps
  <2>. QED
    BY <2>1, <2>2, <2>3 DEF Keeps, RegionsKept
<1>. QED
  BY <1>1, InitHeap, StepHeap, PTL DEF HeapSpec

=============================================================================
