----------------------------- MODULE VmmProofs -----------------------------
(***************************************************************************)
(* The list of areas of every address space stays sorted and without       *)
(* overlaps, and its areas start inside the region, for any number of      *)
(* spaces, any regions and any sizes that do not reach over the top of the *)
(* address space.                                                          *)
(*                                                                         *)
(* The proof does not look at the page tables: what the folds of Paging    *)
(* compute has no influence on the list.                                   *)
(***************************************************************************)
EXTENDS Vmm, TLAPS

Area == [base : Nat, size : VmmSizes \cup {1}, flags : SUBSET ((UNION Flags) \cup {"WRITE", "MMIO"})]

\* AreasSorted of one list, in a region.
SortedIn(areas, start, end) ==
    \A i \in 1..Len(areas) :
       /\ areas[i].base \in start..(end - 1)
       /\ i < Len(areas) => /\ areas[i].base + areas[i].size <= areas[i + 1].base
                            /\ areas[i].base + areas[i].size <= end

AInv ==
    /\ region_list \in [AllSpaces -> Seq(Area)]
    /\ \A s \in AllSpaces : SortedIn(region_list[s], SearchStart(s), SearchEnd(s))

-----------------------------------------------------------------------------
(* Lists. *)

\* The elements of a concatenation.
LEMMA Joined ==
    ASSUME NEW S, NEW a \in Seq(S), NEW b \in Seq(S)
    PROVE  /\ a \o b \in Seq(S)
           /\ Len(a) \in Nat /\ Len(b) \in Nat
           /\ Len(a \o b) = Len(a) + Len(b)
           /\ \A j \in 1..(Len(a) + Len(b)) : (a \o b)[j] = IF j <= Len(a) THEN a[j] ELSE b[j - Len(a)]
OBVIOUS

\* The sequence r is s with a new element at an index, and without one of its own.
WithNew(r, s, i, e) ==
    /\ Len(r) = Len(s) + 1
    /\ \A j \in 1..(Len(s) + 1) : r[j] = IF j < i THEN s[j] ELSE IF j = i THEN e ELSE s[j - 1]

Without(r, s, i) ==
    /\ Len(r) = Len(s) - 1
    /\ \A j \in 1..(Len(s) - 1) : r[j] = IF j < i THEN s[j] ELSE s[j + 1]

\* What InsertAt returns.
LEMMA Inserted ==
    ASSUME NEW S, NEW s \in Seq(S), NEW i \in 1..(Len(s) + 1), NEW e \in S
    PROVE  InsertAt(s, i, e) \in Seq(S) /\ WithNew(InsertAt(s, i, e), s, i, e)
<1> DEFINE a == SubSeq(s, 1, i - 1)
           one == <<e>>
           b == SubSeq(s, i, Len(s))
           c == a \o one
<1>1. a \in Seq(S) /\ b \in Seq(S) /\ one \in Seq(S)
  OBVIOUS
<1>2. Len(a) = i - 1 /\ Len(b) = Len(s) - i + 1 /\ Len(one) = 1 /\ one[1] = e
  OBVIOUS
<1>3. /\ \A j \in 1..(i - 1) : a[j] = s[j]
      /\ \A j \in 1..(Len(s) - i + 1) : b[j] = s[i + j - 1]
  OBVIOUS
<1>4. InsertAt(s, i, e) = c \o b
  BY DEF InsertAt
<1>5. Len(s) \in Nat
  OBVIOUS
<1> HIDE DEF a, one, b
<1>6. c \in Seq(S) /\ Len(c) = i /\ \A j \in 1..i : c[j] = IF j < i THEN s[j] ELSE e
  <2>1. /\ c \in Seq(S) /\ Len(c) = Len(a) + Len(one)
        /\ \A j \in 1..(Len(a) + Len(one)) : c[j] = IF j <= Len(a) THEN a[j] ELSE one[j - Len(a)]
    BY <1>1, Joined
  <2> HIDE DEF c
  <2>. QED
    BY <1>2, <1>3, <2>1
<1> HIDE DEF c
<1>7. /\ c \o b \in Seq(S) /\ Len(c \o b) = Len(c) + Len(b)
      /\ \A j \in 1..(Len(c) + Len(b)) : (c \o b)[j] = IF j <= Len(c) THEN c[j] ELSE b[j - Len(c)]
  BY <1>1, <1>6, Joined
<1>8. ASSUME NEW j \in 1..(Len(s) + 1)
      PROVE  (c \o b)[j] = IF j < i THEN s[j] ELSE IF j = i THEN e ELSE s[j - 1]
  <2>1. (c \o b)[j] = IF j <= i THEN c[j] ELSE b[j - i]
    <3>1. Len(c) = i /\ Len(c) + Len(b) = Len(s) + 1
      BY <1>2, <1>5, <1>6
    <3>2. j \in 1..(Len(c) + Len(b))
      BY <3>1
    <3>3. (c \o b)[j] = IF j <= Len(c) THEN c[j] ELSE b[j - Len(c)]
      BY <1>7, <3>2
    <3>. QED
      BY <3>1, <3>3
  <2>2. CASE j <= i
    BY <1>6, <2>1, <2>2
  <2>3. CASE j > i
    <3>1. j - i \in 1..(Len(s) - i + 1) /\ i + (j - i) - 1 = j - 1
      BY <1>5, <2>3
    <3>. QED
      BY <1>3, <2>1, <2>3, <3>1
  <2>4. j <= i \/ j > i
    BY <1>5
  <2>. QED
    BY <2>2, <2>3, <2>4
<1>. QED
  BY <1>2, <1>4, <1>5, <1>6, <1>7, <1>8 DEF WithNew

\* What RemoveAt returns.
LEMMA Removed ==
    ASSUME NEW S, NEW s \in Seq(S), NEW i \in 1..Len(s)
    PROVE  RemoveAt(s, i) \in Seq(S) /\ Without(RemoveAt(s, i), s, i)
<1> DEFINE a == SubSeq(s, 1, i - 1)
           b == SubSeq(s, i + 1, Len(s))
<1>1. a \in Seq(S) /\ b \in Seq(S)
  OBVIOUS
<1>2. Len(a) = i - 1 /\ Len(b) = Len(s) - i
  OBVIOUS
<1>3. /\ \A j \in 1..(i - 1) : a[j] = s[j]
      /\ \A j \in 1..(Len(s) - i) : b[j] = s[i + j]
  OBVIOUS
<1>4. RemoveAt(s, i) = a \o b
  BY DEF RemoveAt
<1> HIDE DEF a, b
<1>5. /\ a \o b \in Seq(S) /\ Len(a) \in Nat /\ Len(b) \in Nat /\ Len(a \o b) = Len(a) + Len(b)
      /\ \A j \in 1..(Len(a) + Len(b)) : (a \o b)[j] = IF j <= Len(a) THEN a[j] ELSE b[j - Len(a)]
  BY <1>1, Joined
<1>. QED
  BY <1>2, <1>3, <1>4, <1>5 DEF Without

\* The fields of an area.
LEMMA FieldsOf ==
    ASSUME NEW area \in Area
    PROVE  area.base \in Nat /\ area.size \in Nat
<1>1. area.base \in Nat /\ area.size \in VmmSizes \cup {1}
  BY DEF Area
<1>2. VmmSizes \cup {1} \subseteq Nat
  BY VmmAssumption
<1>. QED
  BY <1>1, <1>2

\* The fields of the areas in a list.
LEMMA Fields ==
    ASSUME NEW areas \in Seq(Area), NEW i \in 1..Len(areas)
    PROVE  areas[i].base \in Nat /\ areas[i].size \in Nat
<1>1. areas[i] \in Area
  OBVIOUS
<1>. QED
  BY <1>1, FieldsOf

\* A new area between the first n areas and the next one keeps a list sorted, if
\* it starts where they end and fits in the hole, or in the region after the last.
LEMMA InsertSorted ==
    ASSUME NEW areas \in Seq(Area), NEW start \in Nat, NEW end \in Nat, start < end,
           SortedIn(areas, start, end),
           NEW n \in 0..Len(areas), NEW area \in Area,
           area.base = IF n = 0 THEN start ELSE areas[n].base + areas[n].size,
           area.base < end,
           n < Len(areas) => /\ area.base + area.size <= areas[n + 1].base
                             /\ area.base + area.size <= end
    PROVE  SortedIn(InsertAt(areas, n + 1, area), start, end)
<1> DEFINE new == InsertAt(areas, n + 1, area)
<1>1. /\ Len(new) = Len(areas) + 1
      /\ \A j \in 1..(Len(areas) + 1) :
            new[j] = IF j < n + 1 THEN areas[j] ELSE IF j = n + 1 THEN area ELSE areas[j - 1]
  <2>1. n + 1 \in 1..(Len(areas) + 1)
    OBVIOUS
  <2>2. WithNew(new, areas, n + 1, area)
    BY <2>1, Inserted
  <2>. QED
    BY <2>2 DEF WithNew
<1>2. \A j \in 1..Len(areas) : areas[j].base \in Nat /\ areas[j].size \in Nat
  BY Fields
<1>3. area.base \in Nat /\ area.size \in Nat
  BY FieldsOf
<1> HIDE DEF new
<1> SUFFICES ASSUME NEW i \in 1..Len(new)
             PROVE  /\ new[i].base \in start..(end - 1)
                    /\ i < Len(new) => /\ new[i].base + new[i].size <= new[i + 1].base
                                       /\ new[i].base + new[i].size <= end
  BY DEF SortedIn, new
<1>4. CASE i < n
  <2>1. i \in 1..Len(areas) /\ i < Len(areas) /\ new[i] = areas[i] /\ new[i + 1] = areas[i + 1]
    BY <1>1, <1>4
  <2>. QED
    BY <1>2, <2>1 DEF SortedIn
<1>5. CASE i = n
  <2>1. new[i] = areas[n] /\ new[i + 1] = area /\ n \in 1..Len(areas)
    BY <1>1, <1>5
  <2>. QED
    BY <1>1, <1>2, <1>3, <1>5, <2>1 DEF SortedIn
<1>6. CASE i = n + 1
  <2>1. new[i] = area /\ (i < Len(new) => new[i + 1] = areas[n + 1])
    BY <1>1, <1>6
  <2>2. area.base >= start
    BY <1>2 DEF SortedIn
  <2>. QED
    BY <1>1, <1>2, <1>3, <1>6, <2>1, <2>2
<1>7. CASE i > n + 1
  <2>1. i - 1 \in 1..Len(areas) /\ new[i] = areas[i - 1] /\ (i < Len(new) => new[i + 1] = areas[i])
    BY <1>1, <1>7
  <2>. QED
    BY <1>1, <1>2, <1>7, <2>1 DEF SortedIn
<1>. QED
  BY <1>1, <1>4, <1>5, <1>6, <1>7

\* A list without one of its areas is sorted.
LEMMA RemoveSorted ==
    ASSUME NEW areas \in Seq(Area), NEW start \in Nat, NEW end \in Nat,
           SortedIn(areas, start, end), NEW i \in 1..Len(areas)
    PROVE  SortedIn(RemoveAt(areas, i), start, end)
<1> DEFINE new == RemoveAt(areas, i)
<1>1. /\ Len(new) = Len(areas) - 1
      /\ \A j \in 1..(Len(areas) - 1) : new[j] = IF j < i THEN areas[j] ELSE areas[j + 1]
  <2>1. Without(new, areas, i)
    BY Removed
  <2>. QED
    BY <2>1 DEF Without
<1>2. \A j \in 1..Len(areas) : areas[j].base \in Nat /\ areas[j].size \in Nat
  BY Fields
<1> HIDE DEF new
<1> SUFFICES SortedIn(new, start, end)
  BY DEF new
<1> SUFFICES ASSUME NEW j \in 1..Len(new)
             PROVE  /\ new[j].base \in start..(end - 1)
                    /\ j < Len(new) => /\ new[j].base + new[j].size <= new[j + 1].base
                                       /\ new[j].base + new[j].size <= end
  BY DEF SortedIn
<1>3. CASE j + 1 < i
  <2>1. /\ j \in 1..Len(areas) /\ j < Len(areas) /\ new[j] = areas[j]
        /\ j < Len(new) => new[j + 1] = areas[j + 1]
    BY <1>1, <1>3
  <2>. QED
    BY <1>2, <2>1 DEF SortedIn
<1>4. CASE j + 1 = i
  <2>1. /\ j \in 1..Len(areas) /\ i \in 1..Len(areas) /\ new[j] = areas[j]
        /\ j < Len(new) => i + 1 \in 1..Len(areas) /\ new[j + 1] = areas[i + 1]
    <3>1. j < i /\ j \in 1..(Len(areas) - 1)
      BY <1>1, <1>4
    <3>2. new[j] = areas[j]
      BY <1>1, <3>1
    <3>3. ASSUME j < Len(new) PROVE i + 1 \in 1..Len(areas) /\ new[j + 1] = areas[i + 1]
      <4>1. i \in 1..(Len(areas) - 1) /\ ~ (i < i)
        BY <1>1, <1>4, <3>3
      <4>2. new[i] = areas[i + 1]
        BY <1>1, <4>1
      <4>. QED
        BY <1>4, <4>1, <4>2
    <3>. QED
      BY <1>1, <3>1, <3>2, <3>3
  <2>2. areas[j].base + areas[j].size <= areas[i].base /\ areas[j].base + areas[j].size <= end
    <3>1. j < Len(areas) /\ i = j + 1
      BY <1>4
    <3>. QED
      BY <2>1, <3>1 DEF SortedIn
  <2>3. j < Len(new) => areas[i].base + areas[i].size <= areas[i + 1].base
    <3>1. j < Len(new) => i < Len(areas)
      BY <1>1, <1>4
    <3>. QED
      BY <3>1 DEF SortedIn
  <2>4. areas[j].base \in start..(end - 1)
    BY <2>1 DEF SortedIn
  <2>5. /\ areas[j].base \in Nat /\ areas[j].size \in Nat /\ areas[i].base \in Nat /\ areas[i].size \in Nat
        /\ j < Len(new) => areas[i + 1].base \in Nat
    BY <1>2, <2>1
  <2>6. ASSUME j < Len(new) PROVE areas[j].base + areas[j].size <= areas[i + 1].base
    <3>1. areas[i].base <= areas[i + 1].base
      BY <2>3, <2>5, <2>6, SMTT(30)
    <3>. QED
      BY <2>2, <2>5, <2>6, <3>1, SMTT(30)
  <2>. QED
    BY <2>1, <2>2, <2>4, <2>6
<1>5. CASE j >= i
  <2>1. /\ j + 1 \in 1..Len(areas) /\ new[j] = areas[j + 1]
        /\ j < Len(new) => j + 2 \in 1..Len(areas) /\ new[j + 1] = areas[j + 2]
    BY <1>1, <1>5
  <2>2. /\ areas[j + 1].base \in start..(end - 1)
        /\ j + 1 < Len(areas) => /\ areas[j + 1].base + areas[j + 1].size <= areas[(j + 1) + 1].base
                                 /\ areas[j + 1].base + areas[j + 1].size <= end
    BY <2>1, Zenon DEF SortedIn
  <2>3. (j + 1) + 1 = j + 2 /\ (j < Len(new) => j + 1 < Len(areas))
    BY <1>1, <1>5
  <2>. QED
    BY <2>1, <2>2, <2>3
<1>. QED
  BY <1>1, <1>3, <1>4, <1>5

-----------------------------------------------------------------------------
(* Steps. *)

\* What starts in a region and has one of the sizes asked for does not wrap.
LEMMA Ends ==
    ASSUME NoWrap, NEW base \in Nat, base < VMM_KERNEL_END, NEW size \in VmmSizes \cup {1}
    PROVE  (base + size) % AddressWrap = base + size
<1>1. size \in Nat /\ AddressWrap \in Nat \ {0} /\ VMM_KERNEL_END \in Nat /\ VMM_KERNEL_END < AddressWrap
  BY VmmAssumption, PagingAssumption
<1>2. base + size < AddressWrap
  BY <1>1 DEF NoWrap
<1>. QED
  BY <1>1, <1>2

\* The two regions of vmm.h are not empty.
LEMMA Regions ==
    ASSUME NEW s
    PROVE  /\ SearchStart(s) \in Nat /\ SearchEnd(s) \in Nat /\ SearchStart(s) < SearchEnd(s)
           /\ SearchEnd(s) <= VMM_KERNEL_END
BY VmmAssumption, PagingAssumption DEF SearchStart, SearchEnd

\* The kernel has one area at first, the framebuffer of console_init.
LEMMA InitSorted == VmmInit => AInv
<1> SUFFICES ASSUME VmmInit PROVE AInv
  OBVIOUS
<1> DEFINE fb == [base |-> VMM_KERNEL_START, size |-> 1, flags |-> {"WRITE", "MMIO"}]
<1>1. region_list = [s \in AllSpaces |-> IF s = Kernel THEN <<fb>> ELSE <<>>]
  BY DEF VmmInit
<1>2. fb \in Area
  BY VmmAssumption DEF Area
<1>3. region_list \in [AllSpaces -> Seq(Area)]
  <2> HIDE DEF fb
  <2>1. <<fb>> \in Seq(Area) /\ <<>> \in Seq(Area)
    BY <1>2
  <2>. QED
    BY <1>1, <2>1
<1>4. ASSUME NEW s \in AllSpaces PROVE SortedIn(region_list[s], SearchStart(s), SearchEnd(s))
  <2>1. CASE s = Kernel
    <3>1. region_list[s] = <<fb>> /\ fb.base = SearchStart(s)
      BY <1>1, <2>1 DEF SearchStart
    <3> HIDE DEF fb
    <3>2. Len(region_list[s]) = 1 /\ region_list[s][1] = fb
      BY <3>1
    <3>. QED
      BY <3>1, <3>2, Regions DEF SortedIn
  <2>2. CASE s # Kernel
    BY <1>1, <2>2 DEF SortedIn
  <2>. QED
    BY <2>1, <2>2
<1>. QED
  BY <1>3, <1>4 DEF AInv

\* A step that gives one space a new list that is sorted.
LEMMA OneList ==
    ASSUME AInv, NEW s \in AllSpaces, NEW list \in Seq(Area),
           SortedIn(list, SearchStart(s), SearchEnd(s)),
           region_list' = [region_list EXCEPT ![s] = list]
    PROVE  AInv'
<1>1. region_list' \in [AllSpaces -> Seq(Area)]
  BY DEF AInv
<1>2. ASSUME NEW u \in AllSpaces PROVE SortedIn(region_list'[u], SearchStart(u), SearchEnd(u))
  <2>1. CASE u = s
    <3>1. region_list'[u] = list
      BY <2>1 DEF AInv
    <3>. QED
      BY <2>1, <3>1
  <2>2. CASE u # s
    <3>1. region_list'[u] = region_list[u]
      BY <2>2 DEF AInv
    <3>. QED
      BY <3>1 DEF AInv
  <2>. QED
    BY <2>1, <2>2
<1>. QED
  BY <1>1, <1>2 DEF AInv, SearchStart, SearchEnd

\* vmm_alloc: the walk stops where the area fits, or after the last area.
LEMMA AllocSorted ==
    ASSUME NoWrap, AInv, NEW s \in AllSpaces, NEW size \in VmmSizes, NEW flags \in Flags, vmm_alloc(s, size, flags)
    PROVE  AInv'
<1> DEFINE Asked(n) == [base |-> Candidate(s, n), size |-> size,
                        flags |-> IF s = Kernel THEN flags \ {"USER"} ELSE flags]
<1>1. PICK n \in 0..Len(region_list[s]) :
         /\ StopsAt(s, n, size)
         /\ region_list' = [region_list EXCEPT ![s] = InsertAt(region_list[s], n + 1, Asked(n))]
  BY DEF vmm_alloc
<1> DEFINE areas == region_list[s]
           area == Asked(n)
<1>2. areas \in Seq(Area) /\ SortedIn(areas, SearchStart(s), SearchEnd(s))
  BY DEF AInv
<1>3. Candidate(s, n) \in Nat /\ Candidate(s, n) = IF n = 0 THEN SearchStart(s) ELSE areas[n].base + areas[n].size
  <2>1. CASE n = 0
    BY <2>1, Regions DEF Candidate
  <2>2. CASE n # 0
    <3>1. n \in 1..Len(areas)
      BY <1>2, <2>2
    <3>2. areas[n].base \in Nat /\ areas[n].base < VMM_KERNEL_END
      BY <1>2, <3>1, Fields, Regions, VmmAssumption DEF SortedIn
    <3>3. areas[n] \in Area
      BY <1>2, <3>1
    <3>4. areas[n].size \in VmmSizes \cup {1}
      BY <3>3 DEF Area
    <3>5. (areas[n].base + areas[n].size) % AddressWrap = areas[n].base + areas[n].size
      BY <3>2, <3>4, Ends
    <3>. QED
      BY <1>2, <2>2, <3>1, <3>5, Fields DEF Candidate, AreaEnd
  <2>. QED
    BY <2>1, <2>2
<1>4. area \in Area /\ area.base = Candidate(s, n) /\ area.size = size
  BY <1>3, VmmAssumption DEF Area
<1>5. Candidate(s, n) < SearchEnd(s)
  <2>1. CASE n = 0
    BY <2>1, Regions DEF Candidate
  <2>2. CASE n # 0
    <3>1. n - 1 \in 0..(n - 1) /\ (n - 1) + 1 = n
      BY <2>2, <1>2
    <3>. QED
      BY <1>1, <3>1 DEF StopsAt
  <2>. QED
    BY <2>1, <2>2
<1>6. n < Len(areas) => /\ Candidate(s, n) + size <= areas[n + 1].base
                        /\ Candidate(s, n) + size <= SearchEnd(s)
  <2>1. SUFFICES ASSUME n < Len(areas) PROVE /\ Candidate(s, n) + size <= areas[n + 1].base
                                             /\ Candidate(s, n) + size <= SearchEnd(s)
    OBVIOUS
  <2>2. Hole(s, n, size)
    BY <1>1, <1>2, <2>1 DEF StopsAt
  <2>3. areas[n + 1].base \in Nat
    <3>1. n + 1 \in 1..Len(areas)
      BY <1>2, <2>1
    <3>. QED
      BY <1>2, <3>1, Fields
  <2>4. size \in Nat
    BY VmmAssumption
  <2>5. (Candidate(s, n) + size) % AddressWrap = Candidate(s, n) + size
    <3>1. Candidate(s, n) < VMM_KERNEL_END
      BY <1>3, <1>5, Regions, VmmAssumption
    <3>. QED
      BY <1>3, <3>1, Ends
  <2>. QED
    BY <1>3, <2>2, <2>3, <2>4, <2>5, Regions DEF Hole
<1>7. area.base = IF n = 0 THEN SearchStart(s) ELSE areas[n].base + areas[n].size
  BY <1>3, <1>4
<1> HIDE DEF areas, area
<1>8. SortedIn(InsertAt(areas, n + 1, area), SearchStart(s), SearchEnd(s))
  <2>1. n \in 0..Len(areas)
    BY DEF areas
  <2>2. area.base < SearchEnd(s)
    BY <1>4, <1>5
  <2>3. n < Len(areas) => /\ area.base + area.size <= areas[n + 1].base
                          /\ area.base + area.size <= SearchEnd(s)
    BY <1>4, <1>6
  <2>4. SearchStart(s) \in Nat /\ SearchEnd(s) \in Nat /\ SearchStart(s) < SearchEnd(s)
    BY Regions
  <2>. QED
    BY <1>2, <1>4, <1>7, <2>1, <2>2, <2>3, <2>4, InsertSorted
<1>9. InsertAt(areas, n + 1, area) \in Seq(Area)
  <2>1. n + 1 \in 1..(Len(areas) + 1)
    BY <1>2 DEF areas
  <2>. QED
    BY <1>2, <1>4, <2>1, Inserted, ZenonT(30)
<1>. QED
  BY <1>1, <1>8, <1>9, OneList, ZenonT(30) DEF areas, area

\* vmm_free and a turn of vmm_destroy_address_space: an area leaves its list.
LEMMA FreeSorted ==
    ASSUME AInv, NEW s \in AllSpaces, NEW i \in 1..Len(region_list[s]), FreeArea(s, i)
    PROVE  AInv'
<1>1. region_list' = [region_list EXCEPT ![s] = RemoveAt(region_list[s], i)]
  BY DEF FreeArea, AInv
<1>2. region_list[s] \in Seq(Area) /\ SortedIn(region_list[s], SearchStart(s), SearchEnd(s))
  BY DEF AInv
<1>3. SortedIn(RemoveAt(region_list[s], i), SearchStart(s), SearchEnd(s))
  BY <1>2, Regions, RemoveSorted
<1>4. RemoveAt(region_list[s], i) \in Seq(Area)
  BY <1>2, Removed
<1>. QED
  BY <1>1, <1>3, <1>4, OneList

\* No other step touches a list.
LEMMA SameLists ==
    ASSUME AInv, UNCHANGED region_list
    PROVE  AInv'
BY DEF AInv, SearchStart, SearchEnd

\* Every operation of vmm.c keeps the lists sorted.
LEMMA StepSorted ==
    ASSUME NoWrap, AInv, [VmmNext]_vmm_vars
    PROVE  AInv'
<1>1. CASE UNCHANGED vmm_vars
  BY <1>1, SameLists DEF vmm_vars
<1>2. CASE \E s \in AllSpaces, size \in VmmSizes, flags \in Flags : vmm_alloc(s, size, flags)
  BY <1>2, AllocSorted
<1>3. CASE \E s \in AllSpaces, addr \in AllPages : vmm_free(s, addr)
  BY <1>3, FreeSorted DEF vmm_free
<1>4. CASE \/ \E s \in AllSpaces : vmm_switch_address_space(s)
           \/ \E s \in AllSpaces \ {current_vas} : vmm_destroy_address_space(s)
  BY <1>4, SameLists DEF vmm_switch_address_space, vmm_destroy_address_space
<1>5. CASE \E addr \in AllPages : vmm_page_fault_handler(addr)
  BY <1>5, SameLists DEF vmm_page_fault_handler
<1>6. CASE \E s \in Spaces : vmm_new_address_space(s) \/ destroy_end(s)
  BY <1>6, SameLists DEF vmm_new_address_space, destroy_end
<1>7. ASSUME NEW s \in Spaces, destroy_area(s) PROVE AInv'
  <2>1. s \in AllSpaces
    BY DEF AllSpaces
  <2>2. PICK j \in 1..Len(region_list[s]) : FreeArea(s, j)
    BY <1>7 DEF destroy_area
  <2>. QED
    BY <2>1, <2>2, FreeSorted
<1>. QED
  BY <1>1, <1>2, <1>3, <1>4, <1>5, <1>6, <1>7 DEF VmmNext

\* The areas of every address space stay sorted and apart, and start inside the
\* region, when no size that is asked for reaches over the top of the address space
\* (vmm_alloc, vmm_free, vmm_destroy_address_space).
THEOREM AreasStaySorted ==
    ASSUME NoWrap
    PROVE  VmmSpec => []AreasSorted
<1>1. AInv => AreasSorted
  BY DEF AInv, AreasSorted, SortedIn
<1>2. AInv /\ [VmmNext]_vmm_vars => AInv'
  BY StepSorted
<1>. QED
  BY <1>1, <1>2, InitSorted, PTL DEF VmmSpec

=============================================================================
