------------------------------- MODULE Boot --------------------------------
(***************************************************************************)
(* main.c: kmain brings up one component after another, on the processor   *)
(* and the boot stack of Context, creates the threads, enables interrupts  *)
(* and becomes the idle thread.  Every component uses those before it, and *)
(* most of them stop the machine with hcf when they cannot start.          *)
(***************************************************************************)
EXTENDS Context, Timer

VARIABLES
    stage,        \* what kmain does next, or "hcf": hlt for ever
    initialized,  \* the components whose pointers and tables are set
    rsdp          \* what acpi_init has found: rsdt and xsdt are NULL or a table

vars == <<context_vars, timer_vars, stage, initialized, rsdp>>

\* Mutant: the timer is calibrated before the LAPIC is mapped.
kmain_TimerFirst == <<"limine_verify_requests", "gdt_init", "idt_init", "pmm_init", "paging_init",
                      "kheap_init", "vmm_init", "console_init", "acpi_init", "timer_init",
                      "lapic_initialize", "scheduler_init", "create", "sti", "idle">>

kmain == <<"limine_verify_requests", "gdt_init", "idt_init", "pmm_init", "paging_init",
           "kheap_init", "vmm_init", "console_init", "acpi_init", "lapic_initialize",
           "timer_init", "scheduler_init", "create", "sti", "idle">>

After(s) == kmain[(CHOOSE i \in DOMAIN kmain : kmain[i] = s) + 1]

BootInit ==
    /\ ContextInit /\ TimerInit
    /\ stage = kmain[1] /\ initialized = {}
    /\ rsdp = [rsdt |-> FALSE, xsdt |-> FALSE]

Enter(s) == stage = s
Done(s, set) == stage' = After(s) /\ initialized' = initialized \cup set
hcf == stage' = "hcf" /\ UNCHANGED initialized

\* A stage that cannot fail, and one that stops the machine when it fails.
Always(s, set) == Enter(s) /\ Done(s, set) /\ UNCHANGED <<context_vars, timer_vars, rsdp>>
OrHcf(s, set) == Enter(s) /\ (Done(s, set) \/ hcf) /\ UNCHANGED <<context_vars, timer_vars, rsdp>>

limine_verify_requests == OrHcf("limine_verify_requests", {"limine"})
gdt_init == Always("gdt_init", {"gdt"})
idt_init == Always("idt_init", {"idt"})
pmm_init == OrHcf("pmm_init", {"pmm"})
boot_paging == OrHcf("paging_init", {"paging"})

\* kheap_init sets its pointers, and goes on with an empty heap when kheap_extend finds
\* no frames; it stops when it finds none for a page table.
kheap_init == OrHcf("kheap_init", {"kheap"})

\* Stages that need memory of the heap: kmalloc extends it again, an empty one too, and
\* they stop when that fails.
vmm_init == OrHcf("vmm_init", {"vmm"})
lapic_initialize == OrHcf("lapic_initialize", {"lapic"})
scheduler_init == OrHcf("scheduler_init", {"scheduler"})

\* console_init stops without a mapping; without a terminal it goes on, and
\* console_write_str drops what it is given.
console_init ==
    /\ Enter("console_init")
    /\ (\E set \in {{}, {"console"}} : Done("console_init", set)) \/ hcf
    /\ UNCHANGED <<context_vars, timer_vars, rsdp>>

\* acpi_init: a bad signature or checksum stops the machine; the xsdt is
\* taken if the revision has one and its address is not zero.
acpi_init(signature, v1, revision, address, v2) ==
    /\ Enter("acpi_init")
    /\ LET useXSDT == revision >= 2 /\ address # 0 IN
       IF ~signature \/ ~v1 \/ (useXSDT /\ ~v2)
       THEN hcf /\ UNCHANGED rsdp
       ELSE /\ Done("acpi_init", {"acpi"})
            /\ rsdp' = [rsdt |-> ~useXSDT, xsdt |-> useXSDT]
    /\ UNCHANGED <<context_vars, timer_vars>>

\* timer_init takes as long as its calibration.
boot_timer ==
    /\ Enter("timer_init")
    /\ timer_init
    /\ IF calibration' = "done" THEN Done("timer_init", {"timer"}) ELSE UNCHANGED <<stage, initialized>>
    /\ UNCHANGED <<context_vars, rsdp>>

\* kmain ignores a thread that cannot be created.
create ==
    /\ Enter("create")
    /\ \/ (\E t \in Threads : task_create_thread(t)) /\ UNCHANGED <<stage, initialized>>
       \/ Done("create", {}) /\ UNCHANGED context_vars
    /\ UNCHANGED <<timer_vars, rsdp>>

boot_sti ==
    /\ Enter("sti")
    /\ sti
    /\ Done("sti", {})
    /\ UNCHANGED <<timer_vars, rsdp>>

\* From sti on the threads run.
run == Run /\ UNCHANGED <<timer_vars, stage, initialized, rsdp>>

Next ==
    \/ limine_verify_requests \/ gdt_init \/ idt_init \/ pmm_init \/ boot_paging
    \/ kheap_init \/ vmm_init \/ console_init
    \/ \E signature, v1, v2 \in BOOLEAN, revision \in {0, 2}, address \in {0, 1} :
          acpi_init(signature, v1, revision, address, v2)
    \/ lapic_initialize \/ boot_timer \/ scheduler_init \/ create \/ boot_sti
    \/ run

Spec == BootInit /\ [][Next]_vars

----------------------------------------------------------------------------

\* What the code of a stage reads that an earlier one must have set.
Uses == [limine_verify_requests |-> {}, gdt_init |-> {}, idt_init |-> {"gdt"},
         pmm_init         |-> {"limine"},
         paging_init      |-> {"limine", "pmm"},
         kheap_init       |-> {"pmm", "paging"},
         vmm_init         |-> {"paging", "kheap"},
         console_init     |-> {"limine", "kheap", "vmm"},
         acpi_init        |-> {"limine"},
         lapic_initialize |-> {"kheap", "vmm"},
         timer_init       |-> {"lapic"},
         scheduler_init   |-> {"kheap", "vmm"},
         create           |-> {"idt", "kheap", "vmm", "scheduler"},
         sti              |-> {}]

\* What a handler of the timer, of a yield and of a page fault reads.
InterruptUses == {"gdt", "idt", "vmm", "lapic", "timer", "scheduler"}

\* kmain never reads a pointer that no component has set yet, whichever of
\* them could not start, and when the first interrupt can arrive everything
\* that a handler reads is there, the calibration of the timer included.
\* Interrupts stay off when kmain stops.
InterruptsFindKernel ==
    /\ stage \in DOMAIN Uses => Uses[stage] \subseteq initialized
    /\ cpu.rflags = IF_set => InterruptUses \subseteq initialized /\ lapic_ticks_per_ms > 0
    /\ stage = "hcf" => cpu.rflags # IF_set

=============================================================================
