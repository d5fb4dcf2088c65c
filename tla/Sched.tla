------------------------------- MODULE Sched -------------------------------
(***************************************************************************)
(* The concurrency core of the kernel: the round-robin scheduler           *)
(* (scheduling/scheduler.c), the life cycle of threads and the reaper      *)
(* (scheduling/task.c), the blocking mutex (scheduling/lock.c), the timer  *)
(* interrupt (devices/timer.c) and the dispatcher (interrupts/isr.c).      *)
(*                                                                         *)
(* There is one CPU.  A section that runs with interrupts disabled and     *)
(* does not switch threads is one step, so the short sections under        *)
(* scheduler_lock, the internal lock of the mutex, the lock of the PMM and *)
(* the lock of the console need no variable.  Two locks are held across a  *)
(* thread switch and are state: the mutex kheap_lock, the only mutex of    *)
(* the kernel, and the spinlock of the kernel address space, because       *)
(* vmm_alloc and vmm_free call kmalloc and kfree while they hold it.       *)
(*                                                                         *)
(* A circular list is the sequence of its nodes from the head on.  Time is *)
(* counted in timer periods, and wake_time is the time that is left.       *)
(***************************************************************************)
EXTENDS RoundRobin

CONSTANTS
    Threads,        \* the threads kmain may create
    Idle,           \* the idle thread: kmain, then kernel_idle_thread
    Tasks,          \* the tasks kmain may create
    IdleTask,       \* the task of the idle thread
    NULL,
    INITIAL_TICKS,  \* THREAD_INITIAL_TICKS
    MaxSleep,       \* the longest sleep asked for
    MaxElapsed,     \* how many periods may pass between two timer interrupts
    VmmUsers,       \* the threads whose code uses the address space
    Halters,        \* the threads whose calls may end in hcf
    Exiters         \* the threads whose entry point returns

ASSUME ThreadsAssumption == /\ Idle \notin Threads
                            /\ NULL \notin Threads \cup {Idle}
                            /\ IdleTask \notin Tasks
ASSUME BoundsAssumption  == /\ INITIAL_TICKS \in Nat \ {0}
                            /\ MaxSleep \in Nat
                            /\ MaxElapsed \in Nat \ {0}
ASSUME UsersAssumption   == VmmUsers \cup Halters \cup Exiters \subseteq Threads

AllThreads == Threads \cup {Idle}
AllTasks   == Tasks \cup {IdleTask}

\* enum thread_state; "none" is a struct thread that is not allocated.
thread_state == {"READY", "RUNNING", "BLOCKED", "ZOMBIE", "SLEEPING"}

\* Where a thread is in the kernel's code:
\*   boot    kmain, before sti               run     its own code
\*   hlt     about to halt in the idle loop  halt    halted
\*   spin    acquiring the vas lock          dead    past the int $50 of its exit
\*   vmm     in vmm_alloc or vmm_free        unlock  about to release the vas lock
\*   heap    in kmalloc or kfree, past mutex_acquire
\*   fault   in the page-fault handler       stack, struct   freeing a zombie
\*   block, sleep, exit   about to execute int $50
\*   hcf     in the loop of hcf              oom     the same, in kmalloc
\*   none    does not exist
Labels == {"none", "boot", "run", "hlt", "halt", "spin", "vmm", "unlock", "heap", "fault",
           "stack", "struct", "block", "sleep", "exit", "dead", "hcf", "oom"}

VARIABLES
    task_list,        \* the tasks, in list order
    threads,          \* the threads of each task, in list order
    thread_current,
    state,            \* thread->state
    ticks_remaining,  \* thread->ticks_remaining
    wake_time,        \* thread->wake_time, less the uptime
    is_locked,        \* kheap_lock.is_locked
    waiting_queue,    \* kheap_lock, from waiting_queue_head to waiting_queue_tail
    vas_lock,         \* the thread that holds the vas lock, or NULL
    thread_to_delete, \* the zombie being freed by the idle thread, or NULL
    stacks,           \* the threads whose stack is mapped
    pc                \* where each thread is

lists == <<task_list, threads>>
mutex == <<is_locked, waiting_queue>>
reaper == <<thread_to_delete, stacks>>
vars == <<task_list, threads, thread_current, state, ticks_remaining, wake_time,
          is_locked, waiting_queue, vas_lock, thread_to_delete, stacks, pc>>

TypeOK ==
    /\ task_list \in Seq(AllTasks)
    /\ threads \in [AllTasks -> Seq(AllThreads)]
    /\ thread_current \in AllThreads
    /\ state \in [AllThreads -> thread_state \cup {"none"}]
    /\ ticks_remaining \in [AllThreads -> 1..INITIAL_TICKS]
    /\ wake_time \in [AllThreads -> 0..MaxSleep]
    /\ is_locked \in BOOLEAN
    /\ waiting_queue \in Seq(AllThreads)
    /\ vas_lock \in AllThreads \cup {NULL}
    /\ thread_to_delete \in AllThreads \cup {NULL}
    /\ stacks \in SUBSET AllThreads
    /\ pc \in [AllThreads -> Labels]

\* scheduler_init: the idle task and its thread, which executes kmain.
Init ==
    /\ task_list = <<IdleTask>>
    /\ threads = [k \in AllTasks |-> IF k = IdleTask THEN <<Idle>> ELSE <<>>]
    /\ thread_current = Idle
    /\ state = [t \in AllThreads |-> IF t = Idle THEN "RUNNING" ELSE "none"]
    /\ ticks_remaining = [t \in AllThreads |-> INITIAL_TICKS]
    /\ wake_time = [t \in AllThreads |-> 0]
    /\ is_locked = FALSE
    /\ waiting_queue = <<>>
    /\ vas_lock = NULL
    /\ thread_to_delete = NULL
    /\ stacks = {Idle}
    /\ pc = [t \in AllThreads |-> IF t = Idle THEN "boot" ELSE "none"]

Goto(t, label) == pc' = [pc EXCEPT ![t] = label]

Linked(t) == \E k \in 1..Len(task_list) :
                \E i \in 1..Len(threads[task_list[k]]) : threads[task_list[k]][i] = t

-----------------------------------------------------------------------------
(* Boot: kmain creates the tasks and the threads with interrupts disabled,  *)
(* then enables them and becomes the idle thread.                           *)

\* A creation that fails for want of memory changes nothing here.
task_create(k) ==
    /\ pc[Idle] = "boot"
    /\ ~ InList(task_list, k)
    /\ task_list' = Append(task_list, k)
    /\ UNCHANGED <<threads, thread_current, state, ticks_remaining, wake_time, mutex,
                   vas_lock, reaper, pc>>

task_create_thread(k, t) ==
    /\ pc[Idle] = "boot"
    /\ InList(task_list, k)
    /\ pc[t] = "none"
    /\ threads' = [threads EXCEPT ![k] = Append(@, t)]
    /\ state' = [state EXCEPT ![t] = "READY"]
    /\ ticks_remaining' = [ticks_remaining EXCEPT ![t] = INITIAL_TICKS]
    /\ stacks' = stacks \cup {t}
    /\ Goto(t, "run")
    /\ UNCHANGED <<task_list, thread_current, wake_time, mutex, vas_lock, thread_to_delete>>

sti ==
    /\ pc[Idle] = "boot"
    /\ Goto(Idle, "run")
    /\ UNCHANGED <<lists, thread_current, state, ticks_remaining, wake_time, mutex,
                   vas_lock, reaper>>

-----------------------------------------------------------------------------
(* The scheduler. *)

\* Mutant: the search starts at the head of the lists, not after the current thread.
IsNext_FromHead(st, t) == LET order == RunOrder(task_list, threads)
                          IN  FirstReady(order, LastOf(order), st, t)

\* The search never ends when no thread is READY.
IsNext(st, t) == FirstReady(RunOrder(task_list, threads), thread_current, st, t)

\* Mutant: the old thread becomes READY whatever its state.
Pause_Always(st) == [st EXCEPT ![thread_current] = "READY"]

\* Only a RUNNING thread becomes READY: one that blocks, sleeps or exits has
\* already set its own state.
Pause(st) == [st EXCEPT ![thread_current] = IF @ = "RUNNING" THEN "READY" ELSE @]

\* Mutant: thread_current is not updated.
scheduler_schedule_Stale(st) ==
    \E next \in AllThreads :
        /\ IsNext(Pause(st), next)
        /\ state' = [Pause(st) EXCEPT ![next] = "RUNNING"]
        /\ UNCHANGED thread_current

scheduler_schedule(st) ==
    \E next \in AllThreads :
        /\ IsNext(Pause(st), next)
        /\ state' = [Pause(st) EXCEPT ![next] = "RUNNING"]
        /\ thread_current' = next

\* Where a thread goes on when it runs again after its int $50.
AfterYield(label) == CASE label = "block" -> "heap"
                       [] label = "exit"  -> "dead"
                       [] OTHER           -> "run"

scheduler_yield(t) ==
    /\ t = thread_current
    /\ pc[t] \in {"block", "sleep", "exit"} \/ (pc[t] = "run" /\ t # Idle)
    /\ Goto(t, AfterYield(pc[t]))
    /\ scheduler_schedule(state)
    /\ UNCHANGED <<lists, ticks_remaining, wake_time, mutex, vas_lock, reaper>>

-----------------------------------------------------------------------------
(* The timer interrupt. *)

\* Interrupts are disabled in kmain before sti, from spinlock_irq_acquire to
\* spinlock_irq_release, and in an exception handler.
interrupts_enabled ==
    /\ pc[thread_current] \notin {"boot", "spin", "fault"}
    /\ vas_lock # thread_current

Due(t, elapsed) == wake_time[t] <= elapsed

\* Mutant: only the first thread of each task is looked at.
scheduler_wake_sleeping_threads_Heads(elapsed) ==
    [t \in AllThreads |-> IF /\ state[t] = "SLEEPING" /\ Due(t, elapsed)
                             /\ \E k \in AllTasks : threads[k] # <<>> /\ Head(threads[k]) = t
                          THEN "READY" ELSE state[t]]

scheduler_wake_sleeping_threads(elapsed) ==
    [t \in AllThreads |-> IF Linked(t) /\ state[t] = "SLEEPING" /\ Due(t, elapsed)
                          THEN "READY" ELSE state[t]]

\* ticks_remaining after a tick, and whether the quantum is over.
Quantum(ticks) == IF ticks = 1 THEN INITIAL_TICKS ELSE ticks - 1
Expired(ticks) == ticks = 1

timer_handler ==
    /\ interrupts_enabled
    /\ \E elapsed \in 1..MaxElapsed :
         LET woken == scheduler_wake_sleeping_threads(elapsed)
         IN  /\ wake_time' = [t \in AllThreads |->
                                IF Due(t, elapsed) THEN 0 ELSE wake_time[t] - elapsed]
             /\ \/ /\ Expired(ticks_remaining[thread_current])
                   /\ scheduler_schedule(woken)
                \/ /\ ~ Expired(ticks_remaining[thread_current])
                   /\ state' = woken
                   /\ UNCHANGED thread_current
    /\ ticks_remaining' = [ticks_remaining EXCEPT ![thread_current] = Quantum(@)]
    /\ Goto(thread_current, IF pc[thread_current] = "halt" THEN "run" ELSE pc[thread_current])
    /\ UNCHANGED <<lists, mutex, vas_lock, reaper>>

-----------------------------------------------------------------------------
(* Sleeping and exiting: the new state is set under scheduler_lock, and the  *)
(* thread yields after it has released the lock, with interrupts enabled.    *)

thread_sleep(t, ms) ==
    /\ t = thread_current
    /\ pc[t] = "run"
    /\ wake_time' = [wake_time EXCEPT ![t] = ms]
    /\ state' = [state EXCEPT ![t] = "SLEEPING"]
    /\ Goto(t, "sleep")
    /\ UNCHANGED <<lists, thread_current, ticks_remaining, mutex, vas_lock, reaper>>

task_current_thread_exit(t) ==
    /\ t = thread_current
    /\ pc[t] = "run"
    /\ state' = [state EXCEPT ![t] = "ZOMBIE"]
    /\ Goto(t, "exit")
    /\ UNCHANGED <<lists, thread_current, ticks_remaining, wake_time, mutex, vas_lock, reaper>>

-----------------------------------------------------------------------------
(* The heap.  kmalloc and kfree hold the mutex from mutex_acquire to         *)
(* mutex_release.  They are called by a thread's own code, by vmm_alloc and  *)
(* vmm_free, and by the idle thread for the struct of a zombie.              *)

\* Mutant: the thread is put in front of the other waiters.
mutex_acquire_Front(t) ==
    \/ /\ ~ is_locked
       /\ is_locked' = TRUE
       /\ Goto(t, "heap")
       /\ UNCHANGED <<waiting_queue, state>>
    \/ /\ is_locked
       /\ waiting_queue' = <<t>> \o waiting_queue
       /\ state' = [state EXCEPT ![t] = "BLOCKED"]
       /\ Goto(t, "block")
       /\ UNCHANGED is_locked

mutex_acquire(t) ==
    \/ /\ ~ is_locked
       /\ is_locked' = TRUE
       /\ Goto(t, "heap")
       /\ UNCHANGED <<waiting_queue, state>>
    \/ /\ is_locked
       /\ waiting_queue' = Append(waiting_queue, t)
       /\ state' = [state EXCEPT ![t] = "BLOCKED"]
       /\ Goto(t, "block")
       /\ UNCHANGED is_locked

CallsHeap(t) == pc[t] \in {"vmm", "struct"} \/ (pc[t] = "run" /\ t # Idle)

heap_enter(t) ==
    /\ t = thread_current
    /\ CallsHeap(t)
    /\ mutex_acquire(t)
    /\ UNCHANGED <<lists, thread_current, ticks_remaining, wake_time, vas_lock, reaper>>

\* Mutant: the mutex is unlocked although it is handed over.
mutex_release_Unlocks ==
    /\ is_locked' = FALSE
    /\ waiting_queue' = IF waiting_queue = <<>> THEN <<>> ELSE Tail(waiting_queue)

\* The mutex stays locked when it is handed to the first waiter.
mutex_release ==
    \/ /\ waiting_queue = <<>>
       /\ is_locked' = FALSE
       /\ UNCHANGED waiting_queue
    \/ /\ waiting_queue # <<>>
       /\ waiting_queue' = Tail(waiting_queue)
       /\ UNCHANGED is_locked

\* Mutant: the waiter is not made READY.
Woken_Not == state

Woken == IF waiting_queue = <<>> THEN state ELSE [state EXCEPT ![Head(waiting_queue)] = "READY"]

\* kfree(thread_to_delete) ends the life of the zombie.
FreesZombie(t) == t = Idle /\ vas_lock # Idle

\* Mutant: the mutex is unlocked and the waiters stay in the queue.
heap_leave_NoWake(t) ==
    /\ t = thread_current
    /\ pc[t] = "heap"
    /\ is_locked' = FALSE
    /\ state' = IF FreesZombie(t) THEN [state EXCEPT ![thread_to_delete] = "none"] ELSE state
    /\ thread_to_delete' = IF FreesZombie(t) THEN NULL ELSE thread_to_delete
    /\ Goto(t, IF vas_lock = t THEN "unlock" ELSE "run")
    /\ UNCHANGED <<lists, thread_current, ticks_remaining, wake_time, waiting_queue, vas_lock, stacks>>

heap_leave(t) ==
    /\ t = thread_current
    /\ pc[t] = "heap"
    /\ mutex_release
    /\ IF FreesZombie(t)
       THEN /\ state' = [Woken EXCEPT ![thread_to_delete] = "none"]
            /\ thread_to_delete' = NULL
       ELSE /\ state' = Woken
            /\ UNCHANGED thread_to_delete
    /\ Goto(t, IF vas_lock = t THEN "unlock" ELSE "run")
    /\ UNCHANGED <<lists, thread_current, ticks_remaining, wake_time, vas_lock, stacks>>

-----------------------------------------------------------------------------
(* The kernel address space.  vmm_alloc and vmm_free take the vas lock,      *)
(* change the list of areas, call the heap and release the lock.             *)

vmm_call(t) ==
    /\ t = thread_current
    /\ pc[t] = "stack" \/ (pc[t] = "run" /\ t \in VmmUsers)
    /\ Goto(t, "spin")
    /\ UNCHANGED <<lists, thread_current, state, ticks_remaining, wake_time, mutex,
                   vas_lock, reaper>>

\* Interrupts are disabled while the thread spins: nothing else can run until
\* the lock is free.  vmm_free unmaps the area before it calls kfree.
vmm_lock(t) ==
    /\ t = thread_current
    /\ pc[t] = "spin"
    /\ vas_lock = NULL
    /\ vas_lock' = t
    /\ stacks' = IF t = Idle THEN stacks \ {thread_to_delete} ELSE stacks
    /\ Goto(t, "vmm")
    /\ UNCHANGED <<lists, thread_current, state, ticks_remaining, wake_time, mutex,
                   thread_to_delete>>

\* vmm_alloc found no hole, or vmm_free no area: the heap is not called.
vmm_not_found(t) ==
    /\ t = thread_current
    /\ pc[t] = "vmm"
    /\ Goto(t, "unlock")
    /\ UNCHANGED <<lists, thread_current, state, ticks_remaining, wake_time, mutex,
                   vas_lock, reaper>>

vmm_unlock(t) ==
    /\ t = thread_current
    /\ pc[t] = "unlock"
    /\ vas_lock' = NULL
    /\ Goto(t, IF t = Idle THEN "struct" ELSE "run")
    /\ UNCHANGED <<lists, thread_current, state, ticks_remaining, wake_time, mutex, reaper>>

\* The first access to a lazily mapped page traps.
page_fault(t) ==
    /\ t = thread_current
    /\ pc[t] = "run"
    /\ t \in VmmUsers
    /\ Goto(t, "fault")
    /\ UNCHANGED <<lists, thread_current, state, ticks_remaining, wake_time, mutex,
                   vas_lock, reaper>>

\* The handler takes the vas lock, maps the page and releases the lock, or halts.
vmm_page_fault_handler(t) ==
    /\ t = thread_current
    /\ pc[t] = "fault"
    /\ vas_lock = NULL
    /\ Goto(t, "run")
    /\ UNCHANGED <<lists, thread_current, state, ticks_remaining, wake_time, mutex,
                   vas_lock, reaper>>

\* hcf is an endless loop of hlt that leaves the interrupt flag and every lock as
\* they are.  The page-fault handler ends there for an address outside the areas,
\* a protection fault or want of a frame; vmm_alloc for want of a page table or,
\* after it has released the lock, for flags it does not know; kmalloc for want of
\* a page table.
hcf(t) ==
    /\ t = thread_current
    /\ t \in Halters
    /\ \/ pc[t] = "fault" /\ vas_lock = NULL /\ vas_lock' = t /\ Goto(t, "hcf")
       \/ pc[t] = "unlock" /\ vas_lock' \in {t, NULL} /\ Goto(t, "hcf")
       \/ pc[t] = "heap" /\ UNCHANGED vas_lock /\ Goto(t, "oom")
    /\ UNCHANGED <<lists, thread_current, state, ticks_remaining, wake_time, mutex, reaper>>

-----------------------------------------------------------------------------
(* The idle thread: kernel_idle_thread unlinks one zombie under              *)
(* scheduler_lock and then frees its stack and its struct, or halts.         *)

reap ==
    /\ thread_current = Idle
    /\ pc[Idle] = "run"
    /\ \E k \in 1..Len(task_list) : \E i \in 1..Len(threads[task_list[k]]) :
         /\ FirstZombie(task_list, threads, state, k, i)
         /\ thread_to_delete' = threads[task_list[k]][i]
         /\ threads' = [threads EXCEPT ![task_list[k]] = Unlink(@, i)]
    /\ Goto(Idle, "stack")
    /\ UNCHANGED <<task_list, thread_current, state, ticks_remaining, wake_time, mutex,
                   vas_lock, stacks>>

no_zombie ==
    /\ thread_current = Idle
    /\ pc[Idle] = "run"
    /\ \A k \in 1..Len(task_list) : \A i \in 1..Len(threads[task_list[k]]) :
          ~ ZombieAt(task_list, threads, state, k, i)
    /\ Goto(Idle, "hlt")
    /\ UNCHANGED <<lists, thread_current, state, ticks_remaining, wake_time, mutex,
                   vas_lock, reaper>>

\* An interrupt that arrives before the hlt does not wake it.
hlt ==
    /\ thread_current = Idle
    /\ pc[Idle] = "hlt"
    /\ Goto(Idle, "halt")
    /\ UNCHANGED <<lists, thread_current, state, ticks_remaining, wake_time, mutex,
                   vas_lock, reaper>>

-----------------------------------------------------------------------------

Boot == \/ \E k \in Tasks : task_create(k)
        \/ \E k \in Tasks, t \in Threads : task_create_thread(k, t)
        \/ sti

\* What a thread's own code may call next.
ThreadCode(t) == /\ pc[t] = "run"
                 /\ \/ heap_enter(t)
                    \/ vmm_call(t)
                    \/ page_fault(t)
                    \/ \E ms \in 0..MaxSleep : thread_sleep(t, ms)
                    \/ t \in Exiters /\ task_current_thread_exit(t)
                    \/ scheduler_yield(t)

\* The steps of the kernel's code on behalf of t.
KernelStep(t) == \/ pc[t] # "run" /\ scheduler_yield(t)
                 \/ pc[t] # "run" /\ heap_enter(t)
                 \/ heap_leave(t)
                 \/ pc[t] # "run" /\ vmm_call(t)
                 \/ vmm_lock(t)
                 \/ vmm_unlock(t)
                 \/ vmm_page_fault_handler(t)
                 \/ t = Idle /\ (reap \/ no_zombie \/ hlt)

Next == \/ Boot
        \/ timer_handler
        \/ \E t \in Threads : ThreadCode(t) \/ vmm_not_found(t) \/ hcf(t)
        \/ \E t \in AllThreads : KernelStep(t)

Spec == Init /\ [][Next]_vars

\* The LAPIC timer is periodic, and an interrupt that arrives while interrupts
\* are disabled stays pending until they are enabled.  A thread that is given the
\* CPU again and again finishes the kernel code it is in.  Nothing is assumed of
\* what a thread's own code calls.
Fairness == /\ WF_vars(sti)
            /\ SF_vars(timer_handler)
            /\ \A t \in AllThreads : SF_vars(KernelStep(t))

FairSpec == Spec /\ Fairness

-----------------------------------------------------------------------------
(* Properties. *)

\* A thread is RUNNING only while it is the thread on the CPU: a switch never
\* leaves two threads RUNNING (scheduler_schedule).
OnlyCurrentRuns == \A t \in AllThreads : state[t] = "RUNNING" => t = thread_current

\* t holds the mutex: it is past mutex_acquire, or mutex_release has handed the
\* mutex to it while it was blocked.
Owns(t) == pc[t] \in {"block", "heap", "oom"} /\ state[t] # "BLOCKED"

\* The heap is used by one thread at a time, and the mutex is marked locked
\* exactly while some thread holds it, hand-over included (mutex_acquire,
\* mutex_release).
MutexExclusion ==
    /\ \A t, u \in AllThreads : Owns(t) /\ Owns(u) => t = u
    /\ is_locked <=> \E t \in AllThreads : Owns(t)

Heap == INSTANCE FifoMutex WITH
            Threads <- AllThreads,
            owner <- IF \E t \in AllThreads : Owns(t)
                     THEN CHOOSE t \in AllThreads : Owns(t) ELSE NULL,
            queue <- waiting_queue

\* Under preemption at any point outside the short sections, with the reaper and
\* the address space among its users, the heap mutex is a first-in first-out
\* mutex with hand-over (mutex_acquire, mutex_release).
HeapMutexIsFifo == Heap!Spec

\* No waiter is lost: a thread is BLOCKED exactly while it is in the waiting
\* queue, once, so the release that reaches it wakes it (mutex_acquire,
\* mutex_release).
WaitersQueued ==
    /\ \A t \in AllThreads : state[t] = "BLOCKED" <=> InList(waiting_queue, t)
    /\ IsInjective(waiting_queue)

\* The search of scheduler_schedule always ends: some thread in the lists is
\* READY or RUNNING, even when the idle thread waits for the heap mutex.
NoFreeze == \E t \in AllThreads : Linked(t) /\ state[t] \in {"READY", "RUNNING"}

\* The reaper takes nothing that is in use: a thread that is current, can be
\* chosen or waits has a struct that is linked and a mapped stack.
ReaperSafe ==
    /\ \A t \in AllThreads : t = thread_current \/ state[t] \notin {"none", "ZOMBIE"} =>
          t \in stacks /\ Linked(t)
    /\ \A t \in AllThreads : Linked(t) => state[t] # "none"

\* A thread that has exited never runs its code again (scheduler_schedule,
\* mutex_release and the timer leave a ZOMBIE alone).
ZombieIsFinal ==
    [][\A t \in AllThreads : state[t] = "ZOMBIE" => state'[t] \in {"ZOMBIE", "none"}]_vars



\* A READY thread is eventually run (scheduler_schedule and the quantum).
ReadyRuns == \A t \in AllThreads : state[t] = "READY" ~> state[t] = "RUNNING"

\* A thread that waits for the heap mutex eventually holds it and runs.
WaiterGetsMutex == \A t \in AllThreads :
    state[t] = "BLOCKED" ~> (t = thread_current /\ pc[t] = "heap")

\* A sleeping thread eventually runs its own code again.
SleeperResumes == \A t \in AllThreads :
    state[t] = "SLEEPING" ~> (t = thread_current /\ pc[t] = "run")

\* When all threads of a task have exited they are all eventually freed.
ExitedTaskReaped == \A k \in Tasks :
    (threads[k] # <<>> /\ \A i \in 1..Len(threads[k]) : state[threads[k][i]] = "ZOMBIE")
        ~> threads[k] = <<>>

\* "the idle process will eventually free everything" (task.c): every thread
\* that exits is eventually freed.
ZombieReaped == \A t \in Threads : state[t] = "ZOMBIE" ~> state[t] = "none"

-----------------------------------------------------------------------------
(* The inductive invariant behind the safety properties, in parts. *)

\* Where the code is, and what state the thread can then have.
StatePc ==
    \A t \in AllThreads :
        /\ state[t] = "BLOCKED" => pc[t] \in {"block", "heap"}
        /\ pc[t] \in {"block", "heap"} => state[t] \in {"BLOCKED", "READY", "RUNNING"}
        /\ pc[t] = "oom" => state[t] \in {"READY", "RUNNING"}
        /\ pc[t] \in {"exit", "dead"} => state[t] \in {"ZOMBIE", "none"}
        /\ pc[t] = "none" => state[t] = "none"
        /\ state[t] = "none" => pc[t] \in {"none", "exit", "dead"}
        /\ state[t] = "ZOMBIE" => pc[t] \in {"exit", "dead"}
        /\ state[t] = "SLEEPING" => pc[t] \in {"sleep", "run"}

\* The executing thread is RUNNING, except between the moment it sets another
\* state for itself and its int $50.
CurrentState ==
    /\ state[thread_current] # "none"
    /\ pc[thread_current] \notin {"block", "sleep", "exit"} => state[thread_current] = "RUNNING"

\* The idle thread only ever waits for the heap, and frees one zombie at a time.
IdleState ==
    /\ state[Idle] \in {"READY", "RUNNING", "BLOCKED"}
    /\ pc[Idle] \notin {"sleep", "fault", "hcf", "oom"}
    /\ pc[Idle] \in {"stack", "spin", "vmm", "unlock", "struct", "block", "heap"}
          <=> thread_to_delete # NULL
    /\ thread_to_delete # NULL => /\ state[thread_to_delete] = "ZOMBIE"
                                  /\ thread_to_delete # thread_current

\* A mutex with waiters is locked.
QueueLocked == waiting_queue # <<>> => is_locked

\* Every thread that exists is in the lists, but for the one being freed.
AllLinked == \A t \in AllThreads : state[t] # "none" /\ t # thread_to_delete => Linked(t)

Inv == /\ TypeOK /\ OnlyCurrentRuns /\ MutexExclusion /\ WaitersQueued /\ QueueLocked
       /\ StatePc /\ CurrentState /\ IdleState /\ AllLinked

=============================================================================
