-------------------------------- MODULE Vmm --------------------------------
(***************************************************************************)
(* The virtual memory manager (memory/vmm.c) on top of the page tables     *)
(* (Paging): the list of areas of each address space, the pages that the   *)
(* page-fault handler maps on the first access, and the TLB of the         *)
(* processor.                                                              *)
(*                                                                         *)
(* Each operation runs under the lock of its address space; Sched models   *)
(* that lock and the waiting inside it.  Here an operation is one step.    *)
(* kmalloc is external: when it fails the operation returns without a      *)
(* change.  The model starts after console_init, the first call of         *)
(* vmm_alloc in kmain.                                                     *)
(***************************************************************************)
EXTENDS Paging

CONSTANTS
    Spaces,                       \* the address spaces that may be created
    Kernel,                       \* kernel_vas
    Pool,                         \* the frames of the pmm
    Device,                       \* the first frame of a memory mapped device
    VMM_USER_START, VMM_USER_END,       \* VMM_USER_END and VMM_KERNEL_END are the
    VMM_KERNEL_START, VMM_KERNEL_END,   \* pages after the last byte
    VmmSizes,                        \* the sizes asked for, in pages
    Flags                         \* the flags asked for

ASSUME VmmAssumption ==
    /\ Kernel \notin Spaces
    /\ Pool \subseteq 1..(Ram - 1) /\ Pool \cap Kernel_Phys..(Kernel_Phys + 3) = {}
    /\ Device \in Nat /\ Device >= Ram
    /\ VMM_USER_START \in Nat \ {0} /\ VMM_USER_END \in (VMM_USER_START + 1)..VMM_KERNEL_START
    /\ VMM_KERNEL_START \in Nat /\ VMM_KERNEL_END \in (VMM_KERNEL_START + 1)..(AddressWrap - 1)
    /\ VmmSizes \subseteq Nat \ {0}

VARIABLES
    region_list,   \* the areas of each address space, in list order
    pml4,          \* the frame of the root table of each space, or 0
    mem,           \* the contents of the tables
    free,          \* the frames that are not allocated
    current_vas,
    tlb,           \* the translations the processor may have cached: <<page, entry>>
    destroying     \* for the spaces that vmm_destroy_address_space is at work on: the
                   \* base of the area it has reached, or 0

vmm_vars == <<region_list, pml4, mem, free, current_vas, tlb, destroying>>

AllSpaces == Spaces \cup {Kernel}
Memory == [mem |-> mem, free |-> free, hcf |-> FALSE]

\* The pages of areas: one that starts in a region may end after it.
Window(start, end) == start..(end + Max(VmmSizes) - 1)
AllPages == Window(VMM_USER_START, VMM_USER_END) \cup Window(VMM_KERNEL_START, VMM_KERNEL_END)

Translations(m, root) ==
    {<<p, Translate(m, root, p)>> : p \in {q \in AllPages : Present(Translate(m, root, q))}}

\* The steps that end the use of a memory: what is mapped, and what the TLB can
\* hold when invlpg has been executed for some pages.  A step in which paging.c
\* meets hcf is not taken: it would be the last of the machine, which holds the
\* lock with interrupts disabled.
Becomes(m, flushed) ==
    /\ ~ m.hcf
    /\ mem' = m.mem
    /\ free' = m.free
    /\ tlb' = {c \in tlb : c[1] \notin flushed} \cup Translations(m.mem, pml4[current_vas])

-----------------------------------------------------------------------------
(* Areas. *)

AreaEnd(area) == (area.base + area.size) % AddressWrap
AreaPages(area) == area.base..(AreaEnd(area) - 1)

vmm_generic_to_x86_flags(flags) ==
    (IF "WRITE" \in flags THEN {"RW"} ELSE {})
       \cup (IF "EXEC" \in flags THEN {} ELSE {"NO_EXEC"})
       \cup (IF "USER" \in flags THEN {"US"} ELSE {"GLOBAL"})

SearchStart(s) == IF s = Kernel THEN VMM_KERNEL_START ELSE VMM_USER_START
SearchEnd(s) == IF s = Kernel THEN VMM_KERNEL_END ELSE VMM_USER_END

\* The address after the first n areas.
Candidate(s, n) == IF n = 0 THEN SearchStart(s) ELSE AreaEnd(region_list[s][n])

\* Mutant: a hole that is one page too small is taken.
Hole_TooSmall(s, n, size) ==
    /\ n < Len(region_list[s])
    /\ region_list[s][n + 1].base + 1 >= (Candidate(s, n) + size) % AddressWrap
    /\ (Candidate(s, n) + size) % AddressWrap < SearchEnd(s)

\* There is room for the new area between the first n areas and the next one.
Hole(s, n, size) ==
    /\ n < Len(region_list[s])
    /\ region_list[s][n + 1].base >= (Candidate(s, n) + size) % AddressWrap
    /\ (Candidate(s, n) + size) % AddressWrap < SearchEnd(s)

\* The walk stops after n areas: at the first hole, or at the end of the list.
\* It fails where an area ends beyond the region.
StopsAt(s, n, size) ==
    /\ \A m \in 0..(n - 1) : ~ Hole(s, m, size) /\ Candidate(s, m + 1) < SearchEnd(s)
    /\ n = Len(region_list[s]) \/ Hole(s, n, size)

InUse(s) == pml4[s] # 0 /\ s \notin DOMAIN destroying

\* An area of a device is mapped at once, any other by its page faults.  An area
\* with neither MMIO nor ANON among its flags stays in the list too, although the
\* thread that asked for it halts, after it has released the lock.
vmm_alloc(s, size, flags) ==
    /\ InUse(s)
    /\ \E n \in 0..Len(region_list[s]) :
         LET area == [base |-> Candidate(s, n), size |-> size,
                      flags |-> IF s = Kernel THEN flags \ {"USER"} ELSE flags]
         IN  /\ StopsAt(s, n, size)
             /\ region_list' = [region_list EXCEPT ![s] = InsertAt(@, n + 1, area)]
             /\ IF "MMIO" \in flags
                THEN Becomes(paging_map_region(Memory, pml4[s], area.base, Device, size,
                                               vmm_generic_to_x86_flags(area.flags), FALSE),
                             AreaPages(area))
                ELSE UNCHANGED <<mem, free, tlb>>
    /\ UNCHANGED <<pml4, current_vas, destroying>>

\* The first area that holds the address.
vmm_get_vm_area(s, addr, i) ==
    /\ addr \in AreaPages(region_list[s][i])
    /\ \A j \in 1..(i - 1) : addr \notin AreaPages(region_list[s][j])

\* Mutant: the TLB is not told.
FreeArea_NoInvlpg(s, i) ==
    LET area == region_list[s][i]
    IN  /\ region_list' = [region_list EXCEPT ![s] = RemoveAt(@, i)]
        /\ Becomes(paging_unmap_region(Memory, pml4[s], area.base, area.size, "MMIO" \notin area.flags), {})

\* Mutant: the frames of a device are freed as well.
FreeArea_Device(s, i) ==
    LET area == region_list[s][i]
    IN  /\ region_list' = [region_list EXCEPT ![s] = RemoveAt(@, i)]
        /\ Becomes(paging_unmap_region(Memory, pml4[s], area.base, area.size, TRUE), AreaPages(area))

\* The area leaves the list, its pages are unmapped and their frames freed.  The
\* TLB is told of the pages that have a table.
FreeArea(s, i) ==
    LET area == region_list[s][i]
    IN  /\ region_list' = [region_list EXCEPT ![s] = RemoveAt(@, i)]
        /\ Becomes(paging_unmap_region(Memory, pml4[s], area.base, area.size, "MMIO" \notin area.flags),
                   {p \in AreaPages(area) : vmm_get_pte(Memory, pml4[s], p, FALSE, FALSE).table # 0})

vmm_free(s, addr) ==
    /\ InUse(s)
    /\ \E i \in 1..Len(region_list[s]) : vmm_get_vm_area(s, addr, i) /\ FreeArea(s, i)
    /\ UNCHANGED <<pml4, current_vas, destroying>>

\* An access to a page of an area that is not present: the handler maps a frame
\* in the space of the area.  It halts the machine when there is no area or no
\* frame.
vmm_page_fault_handler(addr) ==
    LET s == IF addr >= VMM_KERNEL_START THEN Kernel ELSE current_vas
    IN  /\ InUse(s)
        /\ ~ Present(Translate(mem, pml4[current_vas], addr))
        /\ free # {}
        /\ \E i \in 1..Len(region_list[s]) :
             /\ vmm_get_vm_area(s, addr, i)
             /\ Becomes(paging_map_page([Memory EXCEPT !.free = @ \ {Min(free)}], pml4[s], addr, Min(free),
                                        vmm_generic_to_x86_flags(region_list[s][i].flags), FALSE),
                        {addr})
        /\ UNCHANGED <<region_list, pml4, current_vas, destroying>>

-----------------------------------------------------------------------------
(* Address spaces. *)

\* Mutant: the copy starts one entry too late.
HigherHalf_Late == [i \in Entries |-> IF i > Fanout \div 2 THEN mem[pml4[Kernel]][i] ELSE ZeroEntry]

\* The kernel's half of its root table, as it is now.
HigherHalf == [i \in Entries |-> IF i >= Fanout \div 2 THEN mem[pml4[Kernel]][i] ELSE ZeroEntry]

vmm_new_address_space(s) ==
    /\ pml4[s] = 0
    /\ free # {}
    /\ pml4' = [pml4 EXCEPT ![s] = Min(free)]
    /\ mem' = mem @@ (Min(free) :> HigherHalf)
    /\ free' = free \ {Min(free)}
    /\ UNCHANGED <<region_list, current_vas, tlb, destroying>>

\* Writing CR3 drops the translations that are not global.
vmm_switch_address_space(s) ==
    /\ InUse(s)
    /\ current_vas' = s
    /\ tlb' = {c \in tlb : "GLOBAL" \in c[2].flags} \cup Translations(mem, pml4[s])
    /\ UNCHANGED <<region_list, pml4, mem, free, destroying>>

\* The base of the i-th area, or 0 after the last.
BaseOf(s, i) == IF i <= Len(region_list[s]) THEN region_list[s][i].base ELSE 0

vmm_destroy_address_space(s) ==
    /\ s # Kernel
    /\ InUse(s)
    /\ destroying' = destroying @@ (s :> BaseOf(s, 1))
    /\ UNCHANGED <<region_list, pml4, mem, free, current_vas, tlb>>

\* The next area is looked up before this one is freed, by its address.
destroy_area(s) ==
    /\ s \in DOMAIN destroying /\ destroying[s] # 0
    /\ \E i, j \in 1..Len(region_list[s]) :
         /\ region_list[s][i].base = destroying[s]
         /\ destroying' = [destroying EXCEPT ![s] = BaseOf(s, i + 1)]
         /\ vmm_get_vm_area(s, destroying[s], j)
         /\ FreeArea(s, j)
    /\ UNCHANGED <<pml4, current_vas>>

\* The entries of s's own tables that are present (the kernel's half is the
\* kernel's, and the huge pages show all of RAM once more), and the tables of s.
TableLinks(s, tables) == {x \in tables \X Entries :
    /\ Present(mem[x[1]][x[2]]) /\ "PS" \notin mem[x[1]][x[2]].flags
    /\ x[1] = pml4[s] /\ s # Kernel => x[2] < Fanout \div 2}
Tables(s) ==
    LET at[level \in 1..Levels] ==
            IF level = Levels THEN {pml4[s]}
            ELSE {mem[x[1]][x[2]].addr : x \in TableLinks(s, at[level + 1])}
    IN  UNION {at[level] : level \in 1..Levels}

\* destroying without a space.
Destroyed(s) == [u \in DOMAIN destroying \ {s} |-> destroying[u]]

\* Mutant: the root table is not given back.
destroy_end_KeepsRoot(s) ==
    /\ s \in DOMAIN destroying /\ destroying[s] = 0
    /\ mem' = [f \in DOMAIN mem \ Tables(s) |-> mem[f]]
    /\ pml4' = [pml4 EXCEPT ![s] = 0]
    /\ destroying' = Destroyed(s)
    /\ UNCHANGED <<region_list, free, current_vas, tlb>>

\* The root table is given back; nothing leads to the lower tables any more.
destroy_end(s) ==
    /\ s \in DOMAIN destroying /\ destroying[s] = 0
    /\ free' = free \cup {pml4[s]}
    /\ mem' = [f \in DOMAIN mem \ Tables(s) |-> mem[f]]
    /\ pml4' = [pml4 EXCEPT ![s] = 0]
    /\ destroying' = Destroyed(s)
    /\ UNCHANGED <<region_list, current_vas, tlb>>

-----------------------------------------------------------------------------

\* paging_init, vmm_init, and the framebuffer that console_init maps.
VmmInit ==
    LET root == Min(Pool)
        fb == [base |-> VMM_KERNEL_START, size |-> 1, flags |-> {"WRITE", "MMIO"}]
        m == paging_map_region(paging_init(Pool), root, fb.base, Device, fb.size,
                               vmm_generic_to_x86_flags(fb.flags), FALSE)
    IN  /\ ~ m.hcf
        /\ region_list = [s \in AllSpaces |-> IF s = Kernel THEN <<fb>> ELSE <<>>]
        /\ pml4 = [s \in AllSpaces |-> IF s = Kernel THEN root ELSE 0]
        /\ mem = m.mem
        /\ free = m.free
        /\ current_vas = Kernel
        /\ tlb = Translations(m.mem, root)
        /\ destroying = <<>>

\* A space is destroyed when nobody uses it any more: that is up to the caller.
VmmNext ==
    \/ \E s \in AllSpaces : \/ \E size \in VmmSizes, flags \in Flags : vmm_alloc(s, size, flags)
                            \/ \E addr \in AllPages : vmm_free(s, addr)
                            \/ vmm_switch_address_space(s)
    \/ \E s \in AllSpaces \ {current_vas} : vmm_destroy_address_space(s)
    \/ \E addr \in AllPages : vmm_page_fault_handler(addr)
    \/ \E s \in Spaces : vmm_new_address_space(s) \/ destroy_area(s) \/ destroy_end(s)

VmmSpec == VmmInit /\ [][VmmNext]_vmm_vars

-----------------------------------------------------------------------------
(* Properties. *)

Live == {s \in AllSpaces : pml4[s] # 0}
InHigherHalf(page) == Index(page, Levels) >= Fanout \div 2

VmmTypeOK ==
    /\ region_list \in [AllSpaces -> Seq([base : AllPages, size : VmmSizes \cup {1}, flags : SUBSET UNION Flags])]
    /\ pml4 \in [AllSpaces -> Pool \cup {0}]
    /\ mem \in [DOMAIN mem -> [Entries -> [addr : Nat, flags : SUBSET {"PRESENT", "RW", "US", "NO_EXEC", "GLOBAL", "PS"}]]]
    /\ DOMAIN mem \subseteq Pool \ free
    /\ free \subseteq Pool
    /\ current_vas \in Live
    /\ DOMAIN destroying \subseteq Spaces /\ \A s \in DOMAIN destroying : destroying[s] \in AllPages \cup {0}

\* No size that is asked for reaches from a region over the top of the address space.
NoWrap == \A size \in VmmSizes : VMM_KERNEL_END + size <= AddressWrap

\* The list stays sorted, its areas disjoint and their bases in the region, whatever
\* is allocated and freed: the first-fit walk of vmm_alloc, which looks at one
\* neighbour only, relies on it.
AreasSorted ==
    \A s \in AllSpaces : LET areas == region_list[s] IN \A i \in 1..Len(areas) :
          /\ areas[i].base \in SearchStart(s)..(SearchEnd(s) - 1)
          /\ i < Len(areas) => areas[i].base + areas[i].size <= areas[i + 1].base

\* "We must not surpass the higher half region" (vmm_alloc, where it searches for a
\* hole): an area lies in its region from its first page to its last.
AreasInRegion ==
    \A s \in AllSpaces : \A i \in 1..Len(region_list[s]) :
          region_list[s][i].base + region_list[s][i].size <= SearchEnd(s)

\* Nothing is left behind: a page that is mapped belongs to an area of its
\* address space, so a new area never shows the contents of an old one
\* (vmm_free, vmm_page_fault_handler, vmm_destroy_address_space).
MappedOnlyInAreas ==
    \A s \in Live : \A p \in AllPages : Present(Translate(mem, pml4[s], p)) =>
        LET owner == IF InHigherHalf(p) THEN Kernel ELSE s
        IN  \E i \in 1..Len(region_list[owner]) : p \in AreaPages(region_list[owner][i])

\* "the kernel and everything else should be always mapped into every VAS"
\* (vmm_new_address_space): every address space translates the pages of the kernel
\* as the kernel's own does, although it only copied the root table once.
KernelAlwaysMapped ==
    \A s \in Live \ {Kernel} : \A p \in {q \in AllPages : InHigherHalf(q)} \cup {HHDM, HHDM + Ram - 1, Kernel_Start} :
        Translate(mem, pml4[s], p) = Translate(mem, pml4[Kernel], p)

\* Where frames are referred to from.
FrameUses == {<<s, 0, 0, pml4[s]>> : s \in Live}
        \cup UNION {{<<s, x[1], x[2], mem[x[1]][x[2]].addr>> : x \in TableLinks(s, Tables(s))} : s \in Live}

Used == {u[4] : u \in FrameUses} \cap Pool
Lost == Pool \ (free \cup Used)

\* No frame is shared: each has one use at most, as a root, as a table or as a page,
\* and a free one has none, whatever the order of faults, frees and destructions
\* (vmm_get_pte, paging_unmap_page, vmm_page_fault_handler, destroy_end).
FramesNotShared ==
    /\ VmmTypeOK
    /\ Cardinality({u \in FrameUses : u[4] \in Pool}) = Cardinality(Used)
    /\ free \cap Used = {}

\* Every fault, free, allocation and turn of a destruction keeps track of the frames:
\* one gets lost only at the end of vmm_destroy_address_space, and only as a lower
\* table of the space, never its root or a page of an area.
LostOnlyAsTables ==
    [][\A f \in Lost' \ Lost : \E s \in Spaces : pml4'[s] = 0 /\ f \in Tables(s) \ {pml4[s]}]_<<pml4, mem, free>>

\* "This function free's everything about a VAS" (vmm_destroy_address_space): every
\* frame is free, or something leads to it.
NothingLost == Lost = {}

\* The processor never reaches through a cached translation a frame that has been
\* freed, or that has another use by now, not even one of an address space that is
\* not current or was destroyed (invlpg in paging_map_page and paging_unmap_page).
\* Every cached translation is the one the tables of the current space give, but
\* for user pages that were mapped without VMM_FLAGS_USER: they are global, and
\* writing CR3 leaves them (vmm_generic_to_x86_flags, vmm_switch_address_space).
TlbIsCurrent ==
    \A c \in tlb :
        /\ c[2].addr \in Pool => \E s \in Live : Translate(mem, pml4[s], c[1]) = c[2]
        /\ InHigherHalf(c[1]) \/ "GLOBAL" \notin c[2].flags =>
              Translate(mem, pml4[current_vas], c[1]) = c[2]

=============================================================================
