------------------------------- MODULE Paging -------------------------------
(***************************************************************************)
(* The page tables (memory/paging.c), as operators on the memory that      *)
(* holds them.                                                             *)
(*                                                                         *)
(* Addresses are in pages and frames; frame 0 is never handed out, and the *)
(* zero entry holds it.  A table is a function from indexes to entries, an *)
(* entry an address with its flags.  The memory m of the operators has     *)
(*   mem    the contents of the frames that are tables,                    *)
(*   free   the frames pmm_alloc can return: it returns the lowest, frames *)
(*          being interchangeable,                                         *)
(*   hcf    whether the machine has halted.                                *)
(* The code has 4 levels of 512 entries.                                   *)
(***************************************************************************)
EXTENDS Integers, FiniteSets, SequencesExt

CONSTANTS
    Levels,      \* of tables: the root is at level Levels, a PT at level 1
    Fanout,      \* the entries of a table; those from Fanout \div 2 on are the kernel's
    AddressWrap, \* the pages of the addresses: the kernel's half is sign-extended, so it
                 \* ends here, and an address that gets this large wraps to 0
    Ram,         \* the frames of RAM are 0..(Ram - 1)
    HHDM,        \* the page the direct map of RAM starts at
    Kernel_Start,  \* _KERNEL_START: the page of the kernel's first segment
    Kernel_Phys    \* the frame the boot loader put that segment in

ASSUME PagingAssumption ==
    /\ Levels \in Nat /\ Levels >= 3 /\ Fanout \in Nat \ {0, 1} /\ Ram \in Nat \ {0}
    /\ AddressWrap \in Nat \ {0}
    /\ HHDM \in Nat /\ Kernel_Start \in Nat /\ Kernel_Phys \in 1..(Ram - 4)

ZeroEntry == [addr |-> 0, flags |-> {}]
Entries == 0..(Fanout - 1)
ZeroTable == [i \in Entries |-> ZeroEntry]
Present(e) == "PRESENT" \in e.flags

\* PAGING_GET_PML4INDEX .. PAGING_GET_PTINDEX.
Index(page, level) == (page \div Fanout^(level - 1)) % Fanout

\* One level of the walk: from the table to the one its entry names, which is
\* allocated, zeroed and linked if it is missing.  Without a frame the walk ends
\* (table 0), and the tables above stay.
Descend(w, page, level, allocate) ==
    LET i == Index(page, level)
        new == Min(w.free)
    IN  IF w.table = 0 THEN w
        ELSE IF Present(w.mem[w.table][i]) THEN [w EXCEPT !.table = w.mem[w.table][i].addr]
        ELSE IF ~ allocate \/ w.free = {} THEN [w EXCEPT !.table = 0]
        ELSE [mem |-> [w.mem EXCEPT ![w.table][i] = [addr |-> new, flags |-> {"PRESENT", "RW", "US"}]]
                      @@ (new :> ZeroTable),
              free |-> w.free \ {new}, table |-> new]

\* The table that holds the entry of the page (0: none), and the memory after the
\* walk.  The walk to a huge page ends one level earlier.
vmm_get_pte(m, root, page, allocate, huge) ==
    FoldLeft(LAMBDA w, level : Descend(w, page, level, allocate),
             [mem |-> m.mem, free |-> m.free, table |-> root],
             [k \in 1..(IF huge THEN Levels - 2 ELSE Levels - 1) |-> Levels + 1 - k])

\* Page 0 is not mapped, and a walk that fails halts the machine.
paging_map_page(m, root, page, frame, flags, huge) ==
    LET w == vmm_get_pte(m, root, page, TRUE, huge)
        entry == [addr |-> frame, flags |-> flags \cup {"PRESENT"} \cup (IF huge THEN {"PS"} ELSE {})]
    IN  IF m.hcf \/ page = 0 \/ w.table = 0 THEN [m EXCEPT !.hcf = TRUE]
        ELSE [mem |-> [w.mem EXCEPT ![w.table][Index(page, IF huge THEN 2 ELSE 1)] = entry],
              free |-> w.free, hcf |-> FALSE]

\* Mutant: the entry stays present.
paging_unmap_page_Kept(m, root, page, freePhysical) ==
    LET w == vmm_get_pte(m, root, page, FALSE, FALSE)
    IN  IF w.table = 0 THEN m
        ELSE [m EXCEPT !.free = IF freePhysical THEN @ \cup ({w.mem[w.table][Index(page, 1)].addr} \ {0}) ELSE @]

\* pmm_page_dec_ref ignores frame 0, the address in the entry of a page that was
\* never touched.  Nothing else refers to a frame, so its count drops to zero.
paging_unmap_page(m, root, page, freePhysical) ==
    LET w == vmm_get_pte(m, root, page, FALSE, FALSE)
        i == Index(page, 1)
    IN  IF w.table = 0 THEN m
        ELSE [m EXCEPT !.mem[w.table][i] = ZeroEntry,
                       !.free = IF freePhysical THEN @ \cup ({w.mem[w.table][i].addr} \ {0}) ELSE @]

\* The loop over a region runs from its first page to its end, which may have
\* wrapped: the distances from the first page, in steps of a (huge) page.
Steps(page, pages, step) ==
    LET end == (page + pages) % AddressWrap
    IN  [k \in 1..((end - page + step - 1) \div step) |-> (k - 1) * step]

paging_map_region(m, root, page, frame, pages, flags, huge) ==
    FoldLeft(LAMBDA n, k : paging_map_page(n, root, page + k, frame + k, flags, huge),
             m, Steps(page, pages, IF huge THEN Fanout ELSE 1))

paging_unmap_region(m, root, page, pages, freePhysical) ==
    FoldLeft(LAMBDA n, k : paging_unmap_page(n, root, page + k, freePhysical), m, Steps(page, pages, 1))

\* The kernel's root table, its four segments of a page each, and all of RAM in
\* huge pages.
paging_init(pool) ==
    LET root == Min(pool)
        m0 == [mem |-> root :> ZeroTable, free |-> pool \ {root}, hcf |-> FALSE]
        rights == << {"RW", "NO_EXEC"}, {}, {"NO_EXEC"}, {"RW", "NO_EXEC"} >>
        image == FoldLeft(LAMBDA m, k : paging_map_region(m, root, Kernel_Start + k - 1, Kernel_Phys + k - 1,
                                                          1, rights[k] \cup {"GLOBAL"}, FALSE),
                          m0, <<1, 2, 3, 4>>)
    IN  paging_map_region(image, root, HHDM, 0, Ram, {"RW", "GLOBAL"}, TRUE)

\* What the processor finds when it walks the tables: the entry of the page, with
\* the address of its own part of a huge page, or the zero entry.
Translate(mem, root, page) ==
    LET entry[level \in 1..Levels] ==
            LET table == IF level = Levels THEN root
                         ELSE IF Present(entry[level + 1]) THEN entry[level + 1].addr ELSE 0
            IN  IF level < Levels /\ "PS" \in entry[level + 1].flags
                THEN [entry[level + 1] EXCEPT !.addr = IF level = 1 THEN @ + Index(page, 1) ELSE @]
                ELSE IF table = 0 THEN ZeroEntry ELSE mem[table][Index(page, level)]
    IN  entry[1]

=============================================================================
