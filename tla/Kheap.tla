------------------------------- MODULE Kheap -------------------------------
(***************************************************************************)
(* The kernel heap (memory/kheap.c): a first-fit allocator over a list of  *)
(* nodes, each a header followed by its region.  kmalloc and kfree hold    *)
(* kheap_lock from beginning to end (Sched and Locks are about that        *)
(* mutex), so they do not interleave.  kmalloc takes one step for each     *)
(* turn of its loop, which grows the heap until the request fits, and      *)
(* kheap_coalesce one for each turn of its walk over the list.             *)
(*                                                                         *)
(* The list is the sequence of its nodes.  Sizes and addresses are in      *)
(* units of 8 bytes.  The frames come from pmm_alloc; the frames of page   *)
(* tables are not counted, but one that is missing halts the thread.       *)
(***************************************************************************)
EXTENDS Integers, SequencesExt

CONSTANTS
    NodeSize,                \* sizeof(struct kheap_node)
    PAGING_PAGE_SIZE,
    KHEAP_BLOCK_SIZE,
    KHEAP_MIN_SPLITTING_SIZE,
    StartingPages,           \* KHEAP_STARTING_SIZE and
    ExtendingPages,          \* KHEAP_EXTENDING_AMOUNT, in pages
    Frames,                  \* the most frames the rest of the kernel leaves to the heap
    HeapSizes,               \* the sizes that are asked for
    SizeWrap,                \* how many values a size has: 2^64
    NONE

ASSUME HeapAssumption ==
    /\ NodeSize \in Nat \ {0} /\ KHEAP_BLOCK_SIZE \in Nat \ {0} /\ KHEAP_MIN_SPLITTING_SIZE \in Nat
    /\ PAGING_PAGE_SIZE \in Nat /\ PAGING_PAGE_SIZE > NodeSize
    /\ StartingPages \in Nat \ {0} /\ ExtendingPages \in Nat \ {0}
    /\ Frames \in Nat
    /\ SizeWrap \in Nat /\ HeapSizes \subseteq 0..(SizeWrap - KHEAP_BLOCK_SIZE)
    /\ NONE \notin [size : Nat, asked : Nat]

VARIABLES
    nodes,      \* the list from kheap_head on
    kheap_end,  \* the heap starts at address 0
    mapped,     \* the virtual pages that are mapped
    frames,     \* the frames pmm_alloc can still return
    request,    \* the rounded size of the kmalloc in progress, or NONE
    halted,     \* that kmalloc has met an hcf, and keeps the mutex
    current,    \* the place in the list of the kheap_coalesce in progress, or 0
    live        \* the regions in use: their address and the size asked for

heap_vars == <<nodes, kheap_end, mapped, frames, request, halted, current, live>>

Node(addr, size, free) == [addr |-> addr, size |-> size, isFree |-> free]
Region(node) == node.addr + NodeSize
End(node) == node.addr + NodeSize + node.size

\* The list after an extension by so many bytes that are mapped.
Extend(bytes) ==
    IF nodes = <<>> \/ ~ Last(nodes).isFree
    THEN Append(nodes, Node(kheap_end, bytes - NodeSize, TRUE))
    ELSE [nodes EXCEPT ![Len(nodes)].size = @ + bytes]

PagesFrom(addr, n) == {addr \div PAGING_PAGE_SIZE + i : i \in 0..(n - 1)}

\* kheap_init: the heap is empty and is extended for the first time.  It stays
\* empty when the frames do not suffice.
HeapInit ==
    /\ \E n \in 0..Frames :
         \/ /\ n >= StartingPages
            /\ nodes = <<Node(0, StartingPages * PAGING_PAGE_SIZE - NodeSize, TRUE)>>
            /\ kheap_end = StartingPages * PAGING_PAGE_SIZE
            /\ mapped = PagesFrom(0, StartingPages)
            /\ frames = n - StartingPages
         \/ /\ n < StartingPages
            /\ nodes = <<>>
            /\ kheap_end = 0
            /\ mapped = PagesFrom(0, n)
            /\ frames = 0
    /\ request = NONE
    /\ halted = FALSE
    /\ current = 0
    /\ live = {}

\* Mutant: the size is rounded down.
Rounded_Down(size) == (size \div KHEAP_BLOCK_SIZE) * KHEAP_BLOCK_SIZE

\* The size is rounded up before the lock is taken, in 64 bits.
Rounded(size) == (((size + KHEAP_BLOCK_SIZE - 1) \div KHEAP_BLOCK_SIZE) * KHEAP_BLOCK_SIZE) % SizeWrap

kmalloc(size) ==
    /\ request = NONE /\ current = 0
    /\ request' = [size |-> Rounded(size), asked |-> size]
    /\ UNCHANGED <<nodes, kheap_end, mapped, frames, halted, current, live>>

Fits(i) == nodes[i].isFree /\ nodes[i].size >= request.size
NoFit == \A i \in 1..Len(nodes) : ~ Fits(i)

\* The rest of a region is worth a node of its own.
Splits(rest) == rest >= NodeSize + KHEAP_MIN_SPLITTING_SIZE

\* The list after its i-th node was cut to the request and the rest of it has
\* become a free node.
Split(i) ==
    LET node == nodes[i]
    IN  InsertAt([nodes EXCEPT ![i] = Node(node.addr, request.size, FALSE)], i + 1,
                 Node(Region(node) + request.size, node.size - request.size - NodeSize, TRUE))

\* The first node that fits is split when enough is left, and is returned.
first_fit ==
    /\ request # NONE
    /\ \E i \in 1..Len(nodes) :
         /\ Fits(i) /\ \A j \in 1..(i - 1) : ~ Fits(j)
         /\ nodes' = IF Splits(nodes[i].size - request.size) THEN Split(i)
                     ELSE [nodes EXCEPT ![i].isFree = FALSE]
         /\ live' = live \cup {[addr |-> Region(nodes[i]), size |-> request.asked]}
    /\ request' = NONE
    /\ UNCHANGED <<kheap_end, mapped, frames, halted, current>>

\* kheap_extend: the pages are mapped one by one, and the list grows when all
\* of them are.
kheap_extend ==
    /\ request # NONE /\ ~ halted
    /\ NoFit
    /\ frames >= ExtendingPages
    /\ frames' = frames - ExtendingPages
    /\ mapped' = mapped \cup PagesFrom(kheap_end, ExtendingPages)
    /\ nodes' = Extend(ExtendingPages * PAGING_PAGE_SIZE)
    /\ kheap_end' = kheap_end + ExtendingPages * PAGING_PAGE_SIZE
    /\ UNCHANGED <<request, halted, current, live>>

\* Mutant: kmalloc tries again for ever.
extend_fails_Retries ==
    /\ request # NONE /\ ~ halted
    /\ NoFit
    /\ frames < ExtendingPages
    /\ frames' = 0
    /\ mapped' = mapped \cup PagesFrom(kheap_end, frames)
    /\ UNCHANGED <<nodes, kheap_end, request, halted, current, live>>

\* The frames run out half-way: kmalloc returns NULL, and the pages that were
\* mapped stay mapped.
extend_fails ==
    /\ request # NONE /\ ~ halted
    /\ NoFit
    /\ frames < ExtendingPages
    /\ frames' = 0
    /\ mapped' = mapped \cup PagesFrom(kheap_end, frames)
    /\ request' = NONE
    /\ UNCHANGED <<nodes, kheap_end, halted, current, live>>

\* The last frame is that of a page whose entry needs a new page table: the walk of
\* paging_map_page fails, and the thread halts with the mutex locked.
extend_halts ==
    /\ request # NONE /\ ~ halted
    /\ NoFit
    /\ frames \in 1..ExtendingPages
    /\ frames' = 0
    /\ mapped' = mapped \cup PagesFrom(kheap_end, frames - 1)
    /\ halted' = TRUE
    /\ UNCHANGED <<nodes, kheap_end, request, current, live>>

\* A second kfree of a region that is still a node is noticed.
kfree(i) ==
    /\ request = NONE /\ current = 0
    /\ IF nodes[i].isFree
       THEN UNCHANGED <<nodes, current, live>>
       ELSE /\ nodes' = [nodes EXCEPT ![i].isFree = TRUE]
            /\ current' = 1
            /\ live' = {r \in live : r.addr # Region(nodes[i])}
    /\ UNCHANGED <<kheap_end, mapped, frames, request, halted>>

\* The list after its i-th node has taken in the next one.
Merge(i) == [RemoveAt(nodes, i + 1) EXCEPT ![i].size = @ + nodes[i + 1].size + NodeSize]

BothFree(i) == nodes[i].isFree /\ nodes[i + 1].isFree

\* Mutant: the walk goes on after a merge.
kheap_coalesce_Advances ==
    /\ current # 0
    /\ \/ /\ current < Len(nodes)
          /\ nodes' = IF BothFree(current) THEN Merge(current) ELSE nodes
          /\ current' = current + 1
       \/ /\ current >= Len(nodes)
          /\ current' = 0
          /\ UNCHANGED nodes
    /\ UNCHANGED <<kheap_end, mapped, frames, request, halted, live>>

\* The rest of kfree: one walk over the list merges each free node with the
\* free nodes after it, and advances only when there is nothing to merge.
kheap_coalesce ==
    /\ current # 0
    /\ \/ /\ current < Len(nodes) /\ BothFree(current)
          /\ nodes' = Merge(current)
          /\ UNCHANGED current
       \/ /\ current < Len(nodes) /\ ~ BothFree(current)
          /\ current' = current + 1
          /\ UNCHANGED nodes
       \/ /\ current >= Len(nodes)
          /\ current' = 0
          /\ UNCHANGED nodes
    /\ UNCHANGED <<kheap_end, mapped, frames, request, halted, live>>

\* Another part of the kernel gives a frame back to the pmm.
frame_freed ==
    /\ frames + kheap_end \div PAGING_PAGE_SIZE < Frames
    /\ frames' = frames + 1
    /\ UNCHANGED <<nodes, kheap_end, mapped, request, halted, current, live>>

HeapNext == \/ \E size \in HeapSizes : kmalloc(size)
            \/ first_fit
            \/ kheap_extend
            \/ extend_fails
            \/ extend_halts
            \/ \E i \in 1..Len(nodes) : kfree(i)
            \/ kheap_coalesce
            \/ frame_freed

HeapSpec == HeapInit /\ [][HeapNext]_heap_vars

\* The loops of kmalloc and kfree go on while the threads that run them do.
FairHeapSpec == HeapSpec /\ WF_heap_vars(first_fit \/ kheap_extend \/ extend_fails \/ extend_halts)
                         /\ WF_heap_vars(kheap_coalesce)

-----------------------------------------------------------------------------
(* Properties. *)

HeapTypeOK ==
    /\ nodes \in Seq([addr : Nat, size : Nat, isFree : BOOLEAN])
    /\ kheap_end \in Nat
    /\ mapped \subseteq 0..(Frames + ExtendingPages)
    /\ frames \in 0..Frames
    /\ request = NONE \/ request \in [size : Nat, asked : HeapSizes]
    /\ halted \in BOOLEAN
    /\ current \in Nat
    /\ live \subseteq [addr : Nat, size : HeapSizes]

\* "an ordered linked list of those nodes ... non-overlapping memory regions"
\* (kheap.h): the nodes tile the heap, from its start to kheap_end, and all of it
\* is mapped, after any sequence of splits, merges and extensions, failed ones
\* included.  Fragmentation does not build up: when kfree has returned no two
\* neighbours are free, and in its walk none of those it has passed.
NodesTileHeap ==
    /\ HeapTypeOK
    /\ IF nodes = <<>> THEN kheap_end = 0 ELSE nodes[1].addr = 0 /\ End(Last(nodes)) = kheap_end
    /\ \A i \in 1..(Len(nodes) - 1) : End(nodes[i]) = nodes[i + 1].addr
    /\ \A i \in 1..(Len(nodes) - 1) : current = 0 \/ i < current => ~ BothFree(i)
    /\ PagesFrom(0, kheap_end \div PAGING_PAGE_SIZE) \subseteq mapped

\* A region in use has a node of its own that is not free and is large enough,
\* and every node that is not free is a region in use: nothing is handed out
\* twice, shrunk or lost (kmalloc, kfree).
RegionsKept ==
    /\ \A r \in live : \E i \in 1..Len(nodes) :
          Region(nodes[i]) = r.addr /\ ~ nodes[i].isFree /\ nodes[i].size >= r.size
    /\ \A i \in 1..Len(nodes) : ~ nodes[i].isFree => \E r \in live : r.addr = Region(nodes[i])
    /\ \A r, s \in live : r.addr = s.addr => r = s

\* kmalloc and kfree return, or the thread halts in paging_map_page: each turn of
\* the loop of kmalloc grows the heap, and the frames end; each turn of the walk of
\* kfree shortens what is left.
HeapCallsReturn == (request # NONE ~> request = NONE \/ halted) /\ (current # 0 ~> current = 0)

=============================================================================
