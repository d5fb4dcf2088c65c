---------------------------- MODULE MCStructures ----------------------------
(***************************************************************************)
(* Instances of the data structures of the kernel for TLC: the lists of    *)
(* the scheduler, the buddy allocator and the heap.  Each is changed under *)
(* its own lock and shares no variable with the others, so a behaviour     *)
(* moves one of them.                                                      *)
(***************************************************************************)
EXTENDS RunLists, Pmm, Kheap

CONSTANTS w1, w2, w3, k1, k2

\* The lists: two tasks and three threads besides the idle ones.
ThreeThreads == {w1, w2, w3}
TwoTasks     == {k1, k2}

\* The pmm: a page is 8 bytes, the struct of a page 3.
MapEntry(type, from, to) == [type |-> type, base |-> from, length |-> to - from]

\* One entry that does not end on a page, with buddy_memmap in its first pages.
\* Entries around memory that is kept, where page 0 is in an entry that is too
\* small for buddy_memmap, and the last entry is not RAM.  Two entries, and a
\* block that no entry aligns.
FirstMemmap == <<MapEntry("usable", 0, 78)>>
SmallMemmaps == {
    FirstMemmap,
    <<MapEntry("usable", 0, 20), MapEntry("kept", 20, 28), MapEntry("usable", 28, 94),
      MapEntry("ignored", 94, 99)>>,
    <<MapEntry("usable", 0, 44), MapEntry("kept", 44, 48), MapEntry("usable", 48, 80)>>}

\* A page, two pages, three pages (a block of four), and more than the largest block.
SmallBlocks == {8, 9, 17, 33}

\* The heap, with a page of 16 units and the real sizes of a node and a block: a size
\* to round up, one that leaves just enough to split, one that leaves too little, and
\* more than one extension gives.
SmallRegions == {5, 8, 12, 37}

VARIABLE part     \* the one that moves

parts == <<part, list_vars, pmm_vars, heap_vars>>

\* The others stay in one of their initial states.
Init ==
    /\ ListsInit /\ PmmInit /\ HeapInit
    /\ part \in {"lists", "pmm", "heap"}
    /\ part # "pmm" => memmap = Reduced(FirstMemmap)
    /\ part # "heap" => nodes # <<>> /\ frames = 0

Next ==
    /\ UNCHANGED part
    /\ \/ part = "lists" /\ ListsNext /\ UNCHANGED <<pmm_vars, heap_vars>>
       \/ part = "pmm"   /\ PmmNext   /\ UNCHANGED <<list_vars, heap_vars>>
       \/ part = "heap"  /\ HeapNext  /\ UNCHANGED <<list_vars, pmm_vars>>

\* The fairness of FairListsSpec and FairHeapSpec.
Spec ==
    /\ Init /\ [][Next]_parts
    /\ WF_list_vars(Search) /\ WF_list_vars(Scan)
    /\ WF_heap_vars(first_fit \/ kheap_extend \/ extend_fails \/ extend_halts)
    /\ WF_heap_vars(kheap_coalesce)

=============================================================================
