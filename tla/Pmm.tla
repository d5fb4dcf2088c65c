-------------------------------- MODULE Pmm --------------------------------
(***************************************************************************)
(* The physical memory manager (memory/pmm.c): a buddy allocator over the  *)
(* pages that the boot loader reports as usable, with a reference count on *)
(* each allocated block.                                                   *)
(*                                                                         *)
(* Every operation runs under pmm_lock with interrupts disabled and is one *)
(* step, except pmm_page_dec_ref, which releases the lock before it frees  *)
(* the block.  pmm_init runs before all others, and frees the blocks of    *)
(* the memory map one by one.  A free list is the sequence of its blocks   *)
(* from the head on.  Addresses are in bytes of the model: PMM_PAGE_SIZE   *)
(* of them make a page.                                                    *)
(***************************************************************************)
EXTENDS Integers, Sequences, FiniteSets, FiniteSetsExt, Functions

CONSTANTS
    PMM_PAGE_SIZE,
    PMM_MAX_ORDER,
    PageStruct,     \* sizeof(struct pmm_page)
    Memmaps,        \* the memory maps of the boot loader: sequences of entries, by address
    Width,          \* the width of the counters, in bits
    PmmSizes,          \* the sizes that are asked for
    MaxRefs         \* how many references to one block are held at once

\* 1ULL << n
Pow2[n \in Nat] == IF n = 0 THEN 1 ELSE 2 * Pow2[n - 1]

Entry == [type : {"usable", "kept", "ignored"}, base : Nat, length : Nat]

ASSUME SizesAssumption == /\ PMM_PAGE_SIZE \in Nat \ {0} /\ PageStruct \in Nat \ {0}
                          /\ PMM_MAX_ORDER \in Nat \ {0} /\ Width \in Nat
                          /\ MaxRefs \in Nat \ {0} /\ MaxRefs < Pow2[Width]
                          /\ PmmSizes \subseteq Nat

\* Entries that are not usable may overlap.
ASSUME MemmapsAssumption == \A mm \in Memmaps :
    /\ mm \in Seq(Entry)
    /\ \A i, j \in 1..Len(mm) : i < j /\ mm[i].type = "usable" => mm[i].base + mm[i].length <= mm[j].base

VARIABLES
    memmap,         \* the memory map, without the part that hosts buddy_memmap
    entry,          \* the entry of it that pmm_init has come to,
    current_page,   \* and the page there
    pmm,            \* buddy_memmap, free_areas and used_pages
    refs,           \* how many references to each block its users hold
    dropped         \* the blocks without references that are about to be freed

boot == <<memmap, entry, current_page>>
pmm_vars == <<memmap, entry, current_page, pmm, refs, dropped>>

Orders == 0..(PMM_MAX_ORDER - 1)
Pages == DOMAIN pmm.page
NumPages(bytes) == (bytes + PMM_PAGE_SIZE - 1) \div PMM_PAGE_SIZE

Unsigned(n) == n % Pow2[Width]

-----------------------------------------------------------------------------
(* The buddy algorithm, on the value a of the allocator. *)

\* pfn ^ (1 << order)
Buddy(pfn, order) == IF (pfn \div Pow2[order]) % 2 = 0 THEN pfn + Pow2[order] ELSE pfn - Pow2[order]

\* Mutant: the block keeps the address of the page that was freed.
Manager_Same(pfn, o, k) == pfn

\* The block of order k that a block of order o at pfn is part of.
Manager(pfn, o, k) == pfn - ((pfn \div Pow2[o]) % Pow2[k - o]) * Pow2[o]

\* Mutant: a buddy in use is merged.
CanMerge_Used(a, buddy, order) ==
    /\ buddy \in DOMAIN a.page
    /\ a.page[buddy].flags # "RESERVED"
    /\ a.page[buddy].order = order

CanMerge(a, buddy, order) ==
    /\ buddy \in DOMAIN a.page
    /\ a.page[buddy].flags = "FREE"
    /\ a.page[buddy].order = order

\* Mutant: nothing is coalesced.
Coalesced_Not(a, pfn, o) == o

\* The order of the block after coalescing: the first at which it cannot merge.
Coalesced(a, pfn, o) ==
    CHOOSE k \in o..(PMM_MAX_ORDER - 1) :
        /\ \A j \in o..(k - 1) : CanMerge(a, Buddy(Manager(pfn, o, j), j), j)
        /\ k = PMM_MAX_ORDER - 1 \/ ~ CanMerge(a, Buddy(Manager(pfn, o, k), k), k)

\* dll_delete of a node in a free list.
UnlinkBlock(list, x) ==
    LET i == CHOOSE i \in 1..Len(list) : list[i] = x
    IN  [j \in 1..(Len(list) - 1) |-> IF j < i THEN list[j] ELSE list[j + 1]]

\* A buddy that is merged leaves its list, with its order reset and its flags as
\* they are.  The statistic is lowered by the size of the coalesced block.
pmm_free_pages(a, pfn, o) ==
    LET k == Coalesced(a, pfn, o)
        merged == {Buddy(Manager(pfn, o, j), j) : j \in o..(k - 1)}
        manager == Manager(pfn, o, k)
        InRange(j) == j \in o..(k - 1)
    IN  [page |-> [p \in DOMAIN a.page |->
                     IF p = manager THEN [flags |-> "FREE", ref_count |-> 0, order |-> k]
                     ELSE IF p \in merged THEN [a.page[p] EXCEPT !.order = 0]
                     ELSE a.page[p]],
         free_areas |-> [j \in Orders |->
                           IF InRange(j) THEN UnlinkBlock(a.free_areas[j], Buddy(Manager(pfn, o, j), j))
                           ELSE IF j = k THEN <<manager>> \o a.free_areas[j]
                           ELSE a.free_areas[j]],
         nr_free |-> [j \in Orders |->
                        IF InRange(j) THEN Unsigned(a.nr_free[j] - 1)
                        ELSE IF j = k THEN Unsigned(a.nr_free[j] + 1)
                        ELSE a.nr_free[j]],
         used_pages |-> Unsigned(a.used_pages - Pow2[k])]

\* The orders at which a block of order o can be had.
Available(a, o) == {k \in o..(PMM_MAX_ORDER - 1) : a.free_areas[k] # <<>>}

\* The block that pmm_alloc_pages takes, and what is left when the halves it
\* does not need are back in their lists.
Taken(a, o) == Head(a.free_areas[Min(Available(a, o))])

pmm_alloc_pages(a, o) ==
    LET k == Min(Available(a, o))
        pfn == Taken(a, o)
        InRange(j) == j \in o..(k - 1)
        halves == {Buddy(pfn, j) : j \in o..(k - 1)}
    IN  [page |-> [p \in DOMAIN a.page |->
                     IF p = pfn THEN [flags |-> "USED", ref_count |-> 1, order |-> o]
                     ELSE IF p \in halves
                     THEN [flags |-> "FREE", ref_count |-> 0,
                           order |-> CHOOSE j \in o..(k - 1) : Buddy(pfn, j) = p]
                     ELSE a.page[p]],
         free_areas |-> [j \in Orders |->
                           IF InRange(j) THEN <<Buddy(pfn, j)>> \o a.free_areas[j]
                           ELSE IF j = k THEN Tail(a.free_areas[j])
                           ELSE a.free_areas[j]],
         nr_free |-> [j \in Orders |->
                        IF InRange(j) THEN Unsigned(a.nr_free[j] + 1)
                        ELSE IF j = k THEN Unsigned(a.nr_free[j] - 1)
                        ELSE a.nr_free[j]],
         used_pages |-> Unsigned(a.used_pages + Pow2[o])]

\* The smallest order whose blocks hold that many bytes.
pmm_get_order_from_size(size) == CHOOSE o \in 0..size :
    /\ Pow2[o] >= NumPages(size)
    /\ \A j \in 0..(o - 1) : Pow2[j] < NumPages(size)

-----------------------------------------------------------------------------
(* pmm_init. *)

\* The end of the last entry that is RAM; the map is sorted by address.
highestAddr(mm) ==
    LET last == Max({i \in 1..Len(mm) : mm[i].type # "ignored"})
    IN  mm[last].base + mm[last].length

MemmapSize(mm) == NumPages(highestAddr(mm)) * PageStruct

\* The entry that hosts buddy_memmap, and the map without that part of it.
Hosts(mm, i) == mm[i].type = "usable" /\ mm[i].length >= MemmapSize(mm)
Host(mm) == Min({i \in 1..Len(mm) : Hosts(mm, i)})
Reduced(mm) == [mm EXCEPT ![Host(mm)].base = @ + MemmapSize(mm),
                          ![Host(mm)].length = @ - MemmapSize(mm)]

\* The whole pages of a usable entry; page 0 is not handed out, 0 being the
\* result of an allocation that fails.
FirstPage(e) == Max({1, NumPages(e.base)})
EndPage(e) == (e.base + e.length) \div PMM_PAGE_SIZE

\* The biggest aligned block at p that ends before end.
BiggestOrder(p, end) == Max({0} \cup {o \in Orders : p % Pow2[o] = 0 /\ p + Pow2[o] <= end})

Reserved(total) ==
    [page |-> [p \in 0..(total - 1) |-> [flags |-> "RESERVED", ref_count |-> 1, order |-> 0]],
     free_areas |-> [o \in Orders |-> <<>>],
     nr_free |-> [o \in Orders |-> 0],
     used_pages |-> Unsigned(total)]

-----------------------------------------------------------------------------

\* pmm_init up to its last loop: all pages are reserved.
PmmInit == \E mm \in Memmaps :
    /\ \E i \in 1..Len(mm) : Hosts(mm, i)     \* hcf otherwise
    /\ memmap = Reduced(mm)
    /\ entry = 1
    /\ current_page = FirstPage(memmap[1])
    /\ pmm = Reserved(NumPages(highestAddr(mm)))
    /\ refs = [p \in DOMAIN pmm.page |-> 0]
    /\ dropped = {}

\* The last loop: the blocks of the usable entries are freed.
pmm_init ==
    /\ entry <= Len(memmap)
    /\ LET end == EndPage(memmap[entry])
           o == BiggestOrder(current_page, end)
       IN  IF memmap[entry].type = "usable" /\ current_page < end
           THEN /\ pmm' = pmm_free_pages(pmm, current_page, o)
                /\ current_page' = current_page + Pow2[o]
                /\ UNCHANGED entry
           ELSE /\ entry' = entry + 1
                /\ current_page' = IF entry < Len(memmap) THEN FirstPage(memmap[entry + 1]) ELSE 0
                /\ UNCHANGED pmm
    /\ UNCHANGED <<memmap, refs, dropped>>

\* A failed allocation returns 0 and changes nothing.
pmm_alloc(size) ==
    LET o == pmm_get_order_from_size(size)
    IN  /\ o < PMM_MAX_ORDER
        /\ Available(pmm, o) # {}
        /\ pmm' = pmm_alloc_pages(pmm, o)
        /\ refs' = [refs EXCEPT ![Taken(pmm, o)] = @ + 1]
        /\ UNCHANGED <<boot, dropped>>

\* The only user of a block frees it with the size it asked for.
pmm_free(p, size) ==
    /\ refs[p] = 1
    /\ pmm.page[p].order = pmm_get_order_from_size(size)
    /\ pmm' = pmm_free_pages(pmm, p, pmm_get_order_from_size(size))
    /\ refs' = [refs EXCEPT ![p] = 0]
    /\ UNCHANGED <<boot, dropped>>

\* A user of a block gives it to another one.
pmm_page_inc_ref(p) ==
    /\ refs[p] \in 1..(MaxRefs - 1)
    /\ pmm' = IF pmm.page[p].flags = "USED"
              THEN [pmm EXCEPT !.page[p].ref_count = Unsigned(@ + 1)] ELSE pmm
    /\ refs' = [refs EXCEPT ![p] = @ + 1]
    /\ UNCHANGED <<boot, dropped>>

\* Mutant: the block is freed when one reference is left.
pmm_page_dec_ref_Early(p) ==
    /\ refs[p] > 0
    /\ pmm.page[p].flags = "USED"
    /\ refs' = [refs EXCEPT ![p] = @ - 1]
    /\ pmm' = [pmm EXCEPT !.page[p].ref_count = Unsigned(@ - 1)]
    /\ dropped' = IF pmm'.page[p].ref_count <= 1 THEN dropped \cup {p} ELSE dropped
    /\ UNCHANGED boot

\* A user drops its reference: the count, and the decision to free, under the
\* lock.  Page 0 is dropped when a page that was never touched is unmapped.
pmm_page_dec_ref(p) ==
    /\ refs[p] > 0 \/ p = 0
    /\ refs' = [refs EXCEPT ![p] = IF @ > 0 THEN @ - 1 ELSE 0]
    /\ \/ /\ pmm.page[p].flags = "USED"
          /\ pmm' = [pmm EXCEPT !.page[p].ref_count = Unsigned(@ - 1)]
          /\ dropped' = IF pmm'.page[p].ref_count = 0 THEN dropped \cup {p} ELSE dropped
       \/ /\ pmm.page[p].flags # "USED"
          /\ UNCHANGED <<pmm, dropped>>
    /\ UNCHANGED boot

\* The order is read, and the block freed, after the lock was released.
free_dropped(p) ==
    /\ p \in dropped
    /\ pmm' = pmm_free_pages(pmm, p, pmm.page[p].order)
    /\ dropped' = dropped \ {p}
    /\ UNCHANGED <<boot, refs>>

PmmNext == \/ pmm_init
           \/ /\ entry > Len(memmap)
              /\ \/ \E size \in PmmSizes : pmm_alloc(size)
                 \/ \E p \in Pages : \/ \E size \in PmmSizes : pmm_free(p, size)
                                     \/ pmm_page_inc_ref(p)
                                     \/ pmm_page_dec_ref(p)
                                     \/ free_dropped(p)

PmmSpec == PmmInit /\ [][PmmNext]_pmm_vars

-----------------------------------------------------------------------------
(* Properties. *)

FreeBlocks == UNION {{<<p, o>> : p \in Range(pmm.free_areas[o])} : o \in Orders}
HeldBlocks == {<<p, pmm.page[p].order>> : p \in {q \in Pages : refs[q] > 0} \cup dropped}
Span(block) == block[1]..(block[1] + Pow2[block[2]] - 1)
FreePages == UNION {Span(b) : b \in FreeBlocks}

\* A page of RAM that nothing else uses, not the boot loader and not buddy_memmap,
\* and that pmm_init has come to.
Usable(p) == p # 0 /\ \E i \in 1..Len(memmap) :
    /\ memmap[i].type = "usable"
    /\ memmap[i].base <= p * PMM_PAGE_SIZE
    /\ (p + 1) * PMM_PAGE_SIZE <= memmap[i].base + memmap[i].length
    /\ i < entry \/ (i = entry /\ p < current_page)

PmmTypeOK ==
    /\ pmm.page \in [Pages -> [flags : {"FREE", "USED", "RESERVED"}, ref_count : 0..(Pow2[Width] - 1),
                               order : Orders]]
    /\ pmm.free_areas \in [Orders -> Seq(Pages)]
    /\ pmm.nr_free \in [Orders -> 0..(Pow2[Width] - 1)]
    /\ pmm.used_pages \in 0..(Pow2[Width] - 1)
    /\ refs \in [Pages -> 0..MaxRefs]
    /\ dropped \subseteq Pages

\* No page is lost and none is handed out twice: each usable page is in exactly
\* one block, free or held, blocks are aligned to their size, and no block holds
\* page 0, buddy_memmap or a page the boot loader keeps (pmm_init, splitting,
\* coalescing).
EachPageOnce ==
    /\ PmmTypeOK
    /\ \A p \in Pages : Cardinality({b \in FreeBlocks \cup HeldBlocks : p \in Span(b)})
                           = IF Usable(p) THEN 1 ELSE 0
    /\ \A b \in FreeBlocks \cup HeldBlocks : Span(b) \subseteq Pages /\ b[1] % Pow2[b[2]] = 0
    /\ FreeBlocks \cap HeldBlocks = {}

\* The flags that pmm_free_pages trusts tell the truth, stale ones in the middle
\* of a block included: when the buddy of a block is marked free with the order
\* of that block it is in the free list it is unlinked from, once.
MergesAreListed ==
    \A b \in FreeBlocks \cup HeldBlocks :
        LET buddy == Buddy(b[1], b[2])
        IN  CanMerge(pmm, buddy, b[2]) /\ b[2] < PMM_MAX_ORDER - 1 =>
               Cardinality({i \in 1..Len(pmm.free_areas[b[2]]) : pmm.free_areas[b[2]][i] = buddy}) = 1

\* An allocation fails only when there is no room: when the lists offer nothing
\* for an order, no aligned run of that many pages is free (coalescing is
\* complete, up to the largest order).
FailsOnlyWhenFull ==
    \A o \in Orders : Available(pmm, o) = {} =>
        \A p \in Pages : p % Pow2[o] = 0 => ~ (Span(<<p, o>>) \subseteq FreePages)

\* The count of a block is the number of its users, and a block that is about to
\* be freed outside the lock has no user and is not free yet (pmm_page_inc_ref,
\* pmm_page_dec_ref).
CountsAreRight ==
    /\ \A p \in Pages : refs[p] > 0 => /\ pmm.page[p].flags = "USED"
                                       /\ pmm.page[p].ref_count = refs[p]
    /\ \A p \in dropped : refs[p] = 0 /\ pmm.page[p].flags = "USED" /\ pmm.page[p].ref_count = 0

\* used_pages, "Used for statistics" and printed by pmm_dump_state as "Used Memory",
\* is the number of pages that are in no free block.
StatisticsRight == pmm.used_pages = Cardinality(Pages) - Cardinality(FreePages)

=============================================================================
