# Plos: TLA+ models, model checking and proofs

Plos is a preemptive kernel for one x86_64 CPU. This directory holds TLA+
models of its concurrency core, its memory managers, its start and its library,
the TLC configurations that check them, and TLAPS proofs. `PROJECT.json` maps
each definition to the lines it models and lists the runs, the mutants, the
findings, the hazards and the theorems.

    tlc -config MCSched_safety.cfg MCSched     # one run
    tlapm SchedProofs.tla                      # the proofs of one module

## The system

| part | source | state | operations | what is hard |
|---|---|---|---|---|
| scheduler | `scheduling/scheduler.c` | `task_list`, `thread_current`, thread states | `scheduler_schedule`, `scheduler_wake_sleeping_threads`, `scheduler_yield` | a search loop with no exit of its own; the current thread may already have given up its state |
| tasks, reaper | `scheduling/task.c` | circular lists of tasks and threads | create, `thread_sleep`, `task_current_thread_exit`, `kernel_idle_thread` | unlinking from circular lists; the reaper itself blocks |
| mutex | `scheduling/lock.c` | `is_locked`, queue of waiters | `mutex_acquire`, `mutex_release` | hand-over; preemption between queueing and yielding |
| ticket spinlock | `scheduling/lock.c` | `ticket`, `turn`, saved flags | acquire, release | used in handlers: whoever has to wait stops the machine |
| interrupts, switch | `interrupts/isr.asm`, `isr.c` | frames on lazily mapped stacks | stubs, `interrupt_handler`, return to another frame | pushes, pops, `struct cpu_status` and the first frame of a thread must agree |
| timer | `devices/timer.c` | calibration, uptime | `timer_init`, `timer_handler` | counters that wrap and are read late |
| PMM | `memory/pmm.c`, `common/dll.c` | page structs, free lists | init, alloc, free, reference counts | buddies, stale flags, a free split in two sections |
| kernel heap | `memory/kheap.c` | list of nodes | `kmalloc`, `kheap_extend`, `kfree` | splitting, merging, an extension that fails half-way |
| VMM, paging | `memory/vmm.c`, `memory/paging.c` | sorted areas, page tables, TLB | alloc, free, fault, new, switch, destroy | lazy mapping, shared upper tables, cached translations |
| start, test | `main.c` | | `kmain`, `stress_test_worker` | order of the components; all of the above at once |
| library | `libk/`, `common/logging.c` | | string functions, formatted output, `log_line` | alignment, overlap, least numbers, the end of the buffer |

They interact as follows. The timer and `int $50` enter the scheduler, which
returns the frame of the thread to go on with. The heap is guarded by the
kernel's only mutex. `vmm_alloc` and `vmm_free` call the heap with the spinlock
of the address space held; the heap asks the PMM for frames. The idle thread
frees the stack of a zombie with `vmm_free` and its struct with `kfree`, so the
reaper is a user of both locks. A page fault takes the address-space lock.

## The modules

Concurrency:

* **RoundRobin**: what the two search loops compute, over lists as sequences:
  the first READY thread in round-robin order, the zombie the reaper takes.
* **RunLists**: the same lists as `next` pointers, and the loops of
  `scheduler_schedule` and `kernel_idle_thread` one iteration at a time. It shows
  that the loops end, keep the lists circular and return what RoundRobin says.
  The loops run with interrupts disabled, so nothing interleaves with them.
* **FifoMutex**: what the mutex promises, an owner and a queue.
* **Locks**: `lock.c` below the level of Sched. `RFLAGS.IF`, the flags each
  section saves, the tickets and turns, and the pointers of the mutex are
  variables; a thread can be interrupted wherever IF is set, and the handlers
  take `scheduler_lock` themselves. Some threads (`VmmUsers`) use the mutex inside
  the lock of the address space, as `vmm_alloc` and `vmm_free` do: they enter it
  with interrupts disabled, and so they leave it, also when they lost the processor
  in between. Which READY thread the scheduler picks is left open. **MutexFifo**
  maps its pointers to FifoMutex.
* **Sched**: threads, scheduler, timer, mutex, reaper and the address-space lock
  under preemption. `pc[t]` is the place of a thread in the kernel's code; a
  section with interrupts disabled that does not switch is one action, which
  Locks justifies. The window between a thread setting its own state and its
  `int $50` is kept, as the labels `block`, `sleep` and `exit`. Spinning is the
  label `spin` (or `fault`), where interrupts are disabled: nothing else can run.
  `hcf` only halts the processor in a loop. A thread that meets it in `vmm_alloc`,
  which has released the lock before, stays where it is while the others go on; with
  interrupts disabled the machine stops. `Halters` are the threads that may.
* **Stress**: Sched restricted to threads that run `stress_test_worker`.
* **Context**: the same switch seen from the processor: registers, stacks as
  arrays of words, the pushes and pops of `isr.asm` word by word, the frame that
  `task_create_thread` writes, and the pages of a stack that are mapped. What a
  thread believes of its registers and stack (`work`, `sp`) is kept beside what
  memory holds.

Memory:

* **Pmm**: page structs, free lists as sequences, and the gap in
  `pmm_page_dec_ref` between the release of the lock and the free. `PmmInit` is
  `pmm_init` up to its last loop, on any memory map of the boot loader; the loop
  then frees one block per step. Counters keep a width.
* **Dll**: every function of `dll.c` on the links of all nodes, and what list of
  elements the links stand for. `MergesAreListed` of Pmm is the precondition of
  `dll_delete`.
* **Kheap**: the list of nodes by address and size. `kmalloc` is a loop of steps,
  and so is the walk of `kfree` that merges neighbours; an extension maps pages
  one by one and may run out of frames in the middle, or stop the machine when there
  is none for a page table. `kheap_init` goes on with an empty heap when its first
  extension fails; the next `kmalloc` extends it. Sizes are rounded up modulo
  `SizeWrap`, 2^64 in the code; the sizes asked for are those that rounding does not
  wrap.
* **Paging**: page tables in frames, with any number of levels: the walk that
  allocates tables and may fail on the way, 4 KB and 2 MB pages, `paging_init`.
  `pmm_alloc` returns the lowest free frame; frames are interchangeable, so no
  behaviour is lost. `Translate` is the page walk of the processor (external).
* **Vmm**: address spaces and areas on top of Paging. `tlb` holds every
  translation the processor may have cached: all present translations of the
  current space are added at each step, and only `invlpg` and a write of CR3
  remove any. That is the worst case of a real TLB. Addresses wrap at the top of the
  address space (`AddressWrap`), as the sums in `vmm_alloc` do. `vmm_alloc` with
  flags that say neither MMIO nor ANON leaves its area in the list. A space is
  destroyed one area per step, with the next one remembered by its address; any
  space but the kernel's and the current one may be. That the current one is not is
  up to the caller: the code refuses NULL and `kernel_vas` only, and nothing calls it
  yet. Steps in which paging meets `hcf` are not taken: the lock is held and
  interrupts are disabled, so each would be the last.

Start and library:

* **Boot**: `kmain`, one action per component, each of which may fail the way
  its code does; then the threads of Context run. It extends **Timer**, the
  calibration, with delays between any two reads.
* **Strings** and **Printf**: operators, with what the standard says of them as
  the reference. **Library** has their properties, which a run of Boot checks at
  its start.

Proofs: **SchedProofs**, **ListProofs**, **LocksProofs**, **BuddyProofs** (which also has
the theorems about Dll) and **PmmProofs** (which extends it), **KheapProofs**,
**BootProofs**, **VmmProofs**.
**MC...** are the instances for TLC.

## Runs

| run | shows |
|---|---|
| `sched_safety` | 3 threads, 2 tasks; all use the heap and the address space, fault, exit, and may halt: at most one RUNNING thread, mutual exclusion, no lost waiter, FIFO order (`HeapMutexIsFifo`, a refinement), nothing in use is reaped, no zombie comes back |
| `sched_liveness` | 2 threads: a READY thread runs, a sleeper resumes, a waiter gets the heap, a task whose threads have all exited is cleaned up, the scheduler's search always finds a thread |
| `sched_zombie` | violated: a zombie at the head of its list is not reaped while a sibling lives |
| `locks` | 3 threads and the idle thread: nobody ever waits for a ticket of the internal locks, interrupts come back when the outermost section ends, the pointers implement FifoMutex, every waiter enters |
| `stress_two` | violated: two workers can stop the machine |
| `structures` | the lists of 3 threads in 2 tasks: the pointer loops are the operators of RoundRobin. Memory maps of about ten pages: no page is in two blocks, merged blocks were listed, an allocation fails only when no free run of pages is large enough, reference counts are right. The heap: nodes tile it, regions handed out stay whole, neighbours are merged, `kmalloc` and `kfree` return |
| `pmm_statistics` | violated: `used_pages` is too low after a free that merges |
| `boot` | no component reads what is not there yet; interrupts find everything; the clock is right up to the delays; each thread gets its registers and its stack back, and its stack as long as it lives; string functions and formatted output agree with the standard; a log line whose text was not cut is whole and in the buffer. After the framebuffer is mapped, the address spaces: areas are sorted and apart, pages are mapped only inside areas, every space translates the kernel's pages alike, a frame has one use, none is lost but the tables of a destroyed space, no cached translation leads to a frame with another use |
| `boot_stack` | violated: a thread that goes below the mapped page of its stack resets the processor |
| `vmm_higher_half` | violated: a kernel page in a slot of the root table that was empty is missing from the other spaces |
| `vmm_region` | violated: the last area of a list may end after its region |
| `vmm_leak` | violated: the lower tables of a destroyed space are lost |

`structures` and `boot` each hold several modules that share no variable. In
`structures` a behaviour moves one of the three, and the others stay in an initial
state: each structure has a lock of its own, and one step under it changes nothing
of the others. In `boot` a behaviour follows `kmain`, or leaves it where
`console_init` has mapped the framebuffer and follows the address spaces, whose
model starts there.

`NeverSpins` is about the internal lock of the mutex and `scheduler_lock`, which are
never held across a switch. The lock of an address space is: in `locks` one thread
uses it, so that nobody waits for it, and what happens with a second user is
`stress_two`.

Type invariants are conjuncts of the structural invariants (`EachPageOnce`,
`NodesTileHeap`, `FramesNotShared`); that of Sched is proved (`TypeCorrect`).

### Bounds

* Three threads make the waiting queue two long, which is what order and hand-over
  need; two tasks make the search cross a list boundary and meet an empty task.
  `sched_liveness` has two threads, so its queue has one waiter; that a waiter in a
  longer queue gets the mutex is `WaiterEnters` of `locks`.
* `INITIAL_TICKS` is 2 where the reload matters and 1 elsewhere; the code has 4.
  A quantum of 1 only preempts more often.
* `MaxSleep` and `MaxElapsed` are 2 in `sched_liveness`, so that a sleeper is due one
  or two ticks from now, or overdue when several periods pass at once; they are 1
  elsewhere.
* `Cycles` is 1 in `stress_two` and 3 in the code; the violation comes in the
  first cycle.
* `Wrap` is 2 in `locks` and 2^64 in the code: every second ticket wraps. The
  proof covers every width.
* Orders 0 to 2 (`PMM_MAX_ORDER` 3) and ten pages give a chain of two merges, a
  buddy beyond the last page, and a map whose blocks are not aligned. `MaxRefs`
  bounds the reference count; `Width` is that of the counters.
* The heap gets up to three frames of 16 units, one for the first extension, so that
  it extends once by two pages, and can fail at once or in the middle of an
  extension; frames that others give back make up for it. The sizes of a node and of a block keep the ratio of the code.
* Vmm has 3 levels of 8 entries instead of 4 of 512: a root, whose upper half is
  the kernel's, a level at which huge pages end, and a level of pages. The user
  region is the last page of one table and the kernel region the last two of
  another; an area of two pages at the end goes on into the next table. Ten
  frames are few enough to run out after some operations. The flag sets give a
  lazy area whose pages are global, a device area for users and one with neither
  flag. In
  `vmm_higher_half` the kernel region crosses into the next slot of the root,
  which is 512 GB in the code.
* In `boot` a page of a stack has 30 words and a stack two pages; the code has 512
  and four. A frame (23 words), its alignment and the handler's words fit in one
  page if the thread uses at most two words, and not if it uses six; 30 words
  fill the first page. The PIT wraps at 16 instead of 2^16, with the ratio of
  the calibration to the wrap larger than in the code. A delay of
  the loop may be longer than the wait, so that the loop sees its end late and after
  a wrap.
  Ints have 5 bits and longs 7, so that the least number of each type is among the
  arguments; addresses of Strings cover every alignment and overlap of small
  regions.

Symmetry is used for threads and tasks, in runs that check safety only; in `boot`
the address spaces do not mention the threads. `stress_two` does not check deadlock,
since the machine stops: that is the finding. `sched_safety`, `structures`, `boot` and
`boot_stack` do not, since `hcf`, a reset, and in `sched_safety` the wait for the
address-space lock, stop the machine.

### Fairness

`sti` is weakly fair: kmain is straight-line code. `timer_handler` is strongly
fair: the LAPIC is periodic and an interrupt that comes while interrupts are
disabled stays pending, so it is taken if they are enabled again and again. The
kernel's code on behalf of a thread is strongly fair: a thread that gets the CPU
again and again goes on from where it was. Nothing is assumed of what a thread's
own code does, except in Stress, where the worker's code is given and makes
progress like any other code. In Kheap and RunLists the loops are weakly fair.
No thread halts in `sched_liveness` and `sched_zombie`: one that meets `hcf` with the
processor to itself goes on halting, and what it holds stays held. None uses the
address space there either, so that the only user of its lock is the idle thread.

In Locks the choice of a thread by the scheduler is strongly fair for each thread,
and quanta end: this is what `ReadyRuns` of `sched_liveness` shows of the round
robin. A thread inside the mutex leaves it, as `kmalloc` and `kfree` do; a thread
outside need not call it.

## Findings

1. `task.c:213`: the reaper's scan skips the head of a list with other threads in
   it. A comment says that the idle process will free everything.
2. `vmm.c:151` and `vmm.c:274`: a spinlock is held while the heap mutex may block.
   The next thread that wants the lock spins with interrupts disabled.
3. `vmm.c:79`: the kernel's half of the root table is copied once. A comment says
   that the kernel is always mapped in every address space.
4. `pmm.c:121`: a free lowers `used_pages` by the size after merging, although the
   buddies were free before. `pmm_dump_state` prints it as the used memory.
5. `vmm.c:193`: the pages of a stack are left to the page-fault handler, which "will
   load the page", but the fault of a push is delivered on the same stack: below its
   first page a thread resets the processor. `StackSafe` says how much room keeps a
   thread safe.
6. `vmm.c:133`: the end of the region is compared before an area, not after the last
   one, which may reach over it. A comment says that this must not be.
7. `vmm.c:310`: `vmm_destroy_address_space`, which "free's everything about a VAS",
   frees the root of its page tables but not the tables below it. `LostOnlyAsTables`
   says that nothing else gets lost, and by no other operation.

Observations about cases that no caller meets:

* User pages mapped without `VMM_FLAGS_USER` are global and survive a switch
  (`TlbIsCurrent` excepts them).
* A text that does not fit in `log_buffer` is cut, but `vsnprintf` returns its whole
  length, and `log_line` writes the end of the line after the buffer.
  `logging.c:55` leaves room for the end of the line ("-2 for newline and NULL"),
  and for texts that are not cut it is enough (`LineFits`).
* A size so large that an area would reach over the top of the address space wraps,
  and the area would overlap others. `NoWrap` excludes it.
* `acpi_find_table` needs both table pointers and `acpi_init` sets one.

## Proofs

The theorems hold for every number of threads, tasks and spaces, and for every
value of the other constants that the named assumptions of the modules allow.

| module | theorem | states |
|---|---|---|
| SchedProofs | `TypeCorrect` | `Spec => []TypeOK` |
| SchedProofs | `OneRunning` | `Spec => []OnlyCurrentRuns` |
| SchedProofs | `MutualExclusion` | `Spec => []MutexExclusion` |
| SchedProofs | `NoLostWaiter` | `Spec => []WaitersQueued` |
| SchedProofs | `SearchFinds` | `Spec => []NoFreeze` |
| SchedProofs | `ExitIsFinal` | `Spec => ZombieIsFinal`, an action property |
| SchedProofs | `HeapIsFifo` | `Spec => HeapMutexIsFifo`: Sched implements FifoMutex |
| SchedProofs | `ReaperTakesTheDead` | `Spec => []ReaperSafe` |
| ListProofs | `ListsStayIntact` | `ListsSpec => []ListsIntact` |
| ListProofs | `SearchFindsNext` | `ListsSpec => SearchIsRoundRobin`, an action property |
| ListProofs | `ScanFindsFirst` | `ListsSpec => ScanReapsFirst`, an action property |
| LocksProofs | `SpinFree` | `Spec => []NeverSpins` |
| LocksProofs | `InterruptsComeBack` | `Spec => []InterruptsRestored` |
| LocksProofs | `MutexIsFifo` | `Spec => ImplementsFifo`: Locks implements FifoMutex |
| PmmProofs | `PagesAreKept` | `PmmSpec => []EachPageOnce` |
| PmmProofs | `BuddiesAreListed` | `PmmSpec => []MergesAreListed` |
| PmmProofs | `FailsWhenFull` | `PmmSpec => []FailsOnlyWhenFull` |
| PmmProofs | `CountsAreKept` | `PmmSpec => []CountsAreRight` |
| KheapProofs | `HeapIsTiled` | `HeapSpec => []NodesTileHeap` |
| KheapProofs | `RegionsStay` | `HeapSpec => []RegionsKept` |
| BootProofs | `ContextsAreKept` | `Spec => []ContextIntact` |
| BootProofs | `StacksAreSafe` | `Spec => []StackSafe` |
| BootProofs | `ClockIsCalibrated` | `Spec => []ClockIsRight` |
| BootProofs | `KernelIsReady` | `Spec => []InterruptsFindKernel` |
| VmmProofs | `AreasStaySorted` | `VmmSpec => []AreasSorted`, if `NoWrap` |
| BuddyProofs | `ListsAreSequences` | the list functions act on the links as on a sequence |

Assumptions, which TLC evaluates in its runs:

* Sched: the idle thread and task are not among the others, NULL is no thread, the
  quantum is positive. RunLists: the same of its threads and tasks, which are
  finitely many. Locks: the idle thread, NULL and the handler are not among
  the threads, the threads are finitely many, and a counter has at least two values.
* Pmm: sizes are positive; the count of the references to a block does not
  overflow (`MaxRefs < Pow2[Width]`; the code has 32 bits); a usable entry of the
  memory map ends before the entries after it begin, which Limine guarantees. Other
  entries may overlap.
* Kheap: a node and a block have a size, a page is larger than a node, and no size
  that is asked for wraps when it is rounded up.
* Context: a page of a stack has an even number of words, and a frame and the words
  of the handler fit in it. Timer: the delays are bounded, a turn of the loop is
  shorter than the rest of a turn of the PIT, the LAPIC timer does not reach zero in
  the measurement, and both counters are faster than one tick per millisecond.
* Vmm: the regions are not empty, the user's ends before the kernel's begins, the
  kernel's ends before the top of the address space, and sizes are positive. The
  theorem assumes `NoWrap` besides: no size asked for reaches from a region over the
  top. Without it the sums of `vmm_alloc` wrap and areas overlap. Dll: the elements of a list
  are distinct nodes other than its head.

**Sched.** All its theorems rest on one inductive invariant, `Inv`. None of the
properties is inductive alone. Exclusion needs to know that a mutex with waiters
is locked (`QueueLocked`), that only threads in `mutex_acquire` are BLOCKED
(`StatePc`) and that the executing thread is RUNNING outside its yield windows
(`CurrentState`). That no waiter is lost needs that a release finds its own thread
out of the queue. `NoFreeze` follows because the idle thread is READY, RUNNING or
waiting for the mutex (`IdleState`), and in the last case the mutex has an owner,
which is READY or RUNNING and in the lists (`AllLinked`). The proof has one lemma
per action and lemmas about sequences for the queue and the lists. TLC has checked
`Inv` on the instance of `sched_safety`.

`HeapIsFifo` maps the owner to the thread past `mutex_acquire` that is not
BLOCKED, which `Inv` makes unique, and shows that each step acquires, queues,
releases or hands over in FifoMutex, or stutters. `ReaperSafe` needs more than
`Inv`: a thread is in the lists once (`Once`), what is listed exists and is not
being freed (`Alive`), and what exists and is not being freed has its stack
(`Kept`). Otherwise unlinking a zombie could leave another link to it.

**RunLists.** The invariant `NInv` says that there are a sequence of tasks and, for
each task, a sequence of threads that the pointers go round (`Walked`). They are
determined by the pointers, so a new node, which goes after the last, appends to
one of them, and unlinking a zombie removes one element; in both cases the pointers
of the other nodes stay. Of the search of `scheduler_schedule` it says where it is
in the run order of RoundRobin, which is the concatenation of the lists of threads
from `current_task` on, and that no thread before that place is READY; of the scan
of the idle thread, that the tasks and threads that it has passed hold no zombie
that it could take. When a loop stops, the place where it is is therefore the first
that RoundRobin allows.

**Locks.** The invariant `LInv` says who has a ticket: nobody while interrupts are
enabled, and otherwise one user only, which is the thread on the processor inside
its section or the handler; whoever has one has the only one, so that it is its
turn. It also says which flags the lock of the address space has saved, and that the
frame of a thread that was switched out has IF set unless it holds that lock: a
section inside it must leave interrupts disabled. The width of the counters does not matter as long as two neighbouring
values differ. `MutexIsFifo` needs `MInv`: there is a sequence of waiters that the
pointers stand for, its last element is the tail, and it has exactly the BLOCKED
threads, each once. There is only one such sequence, so the queue of FifoMutex is
determined by the pointers; `next_waiter` of the other threads is arbitrary.

**Pmm.** The invariant speaks of blocks, those in the lists and those that are held.
`Good` says that they are aligned and apart (`Placed`), that flags and order tell
where a block is (`Marked`), that a page marked free is in the list of its order or
is a stale page of order 0 inside a larger block (`Honest`), and that two buddies
are never both free (`Coalescent`). `Honest` is what makes the merge sound: the
buddy of a block cannot be inside a larger block, so its mark is true. Freeing and
allocating then come down to one fact about numbers: a block of order k is the
union of any block of order o in it and of the buddies met at the orders o to k-1
on the way up, and these are apart. BuddyProofs proves it, with the operations on
sets of blocks; PmmProofs adds the lists as sequences (`Allocator`), the users and
their counts, the memory map and the progress of `pmm_init` (`PInv`). That an
allocation fails only when there is no room is a minimality argument: among the
free blocks that make up a run larger than each of them, take one of the least
order; its buddy is in the run too, so it is free, which `Coalescent` excludes.

**Kheap.** `HInv` is `NodesTileHeap` with three additions: nodes are ordered also
when they are not neighbours, so that addresses identify them; the request was
rounded up; frames and pages of the heap together are no more than there are. Regions are
compared with the set of nodes in use, which a merge does not change and a split
changes by one.

**Boot.** `CInv` says where the registers of each thread are: in the processor, in
the frame that the handler has, in the one that it returns, or in the frame that
`context` points to; a frame is below all that its thread has pushed. It does not
fix the depth of a stack. `TInv` follows the counters through the two snapshots;
their wraps cancel because each difference is smaller than its wrap. `BInv` adds
what each stage of `kmain` can rely on (`Given`).

**Vmm.** `AInv` says that the list of each space is sorted, that its areas start
inside the region and that only the last can end after it. A new area is inserted
where the first-fit walk stops: it starts at the end of the area before it, which
the walk has compared with the end of the region, and ends before the next. The
page tables, which are folds, do not matter to it.

**Dll.** The links of a list are described position by position, with the head
before the first and after the last element. The lemmas for adding and deleting
compare the links at each position before and after. Links outside the list are
arbitrary, which covers the stale pointers of nodes that have left a list.

Induction over numbers is used in the form of least elements (`Least`, `Induct`,
`Greatest` in BuddyProofs, PmmProofs and ListProofs), which the provers can instantiate.

Only model-checked:

* liveness, since the prover has no fairness: `SearchEnds`, `ReadyRuns`,
  `SleeperResumes`, `ExitedTaskReaped`, `WaiterGetsMutex`, `WaiterEnters`,
  `HeapCallsReturn`;
* `MappedOnlyInAreas`, `FramesNotShared`, `LostOnlyAsTables` and `TlbIsCurrent` of
  Vmm, which are about
  trees of page tables built by folds, and `KernelAlwaysMapped`, which depends on
  where the regions are: `vmm_higher_half` refutes it for others;
* Strings and Printf, which use RECURSIVE operators.

## Not modelled

* Device registers: LAPIC, PIC, PIT programming, serial port, framebuffer. That a
  periodic interrupt stays pending is the fairness of Sched; what the counters
  read is in Timer. `serial_init` is never called.
* The terminal, an external library. How `console_init` fails is in Boot.
* The bits of GDT and IDT descriptors and of the boot requests: tables that are
  written once, from constants.
* Cache attributes (PAT) and `paging_change_page_flags`, `acpi_find_table`,
  `timer_sleep`: no caller.
* The parts of nanoprintf that `stdio.c` compiles out (floating point, `%n`, `#`,
  short and char), and the wording of messages and dumps.
* pid, tid and names, which nothing reads but messages.
* One model that follows a frame through heap, VMM and PMM: its state is the
  product of three that are each near what TLC can search. The interfaces are
  modelled on both sides instead (frames that run out in Kheap and Paging, blocks
  that are held and dropped in Pmm, the locks in Sched).
