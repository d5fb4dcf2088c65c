---------------------------- MODULE SchedProofs ----------------------------
(*****************************************************************************)
(* The types and the safety properties of Sched, for any sets of threads and *)
(* tasks and any bounds: facts about the scheduler's search and the lists,   *)
(* the types of the variables, the invariant Inv from which the safety       *)
(* properties follow, and what follows from it step by step: an exited       *)
(* thread stays exited, the heap mutex implements FifoMutex, and the reaper  *)
(* takes nothing that is in use.                                             *)
(*****************************************************************************)
EXTENDS Sched, TLAPS

\* What the proofs use of the sets of threads.
LEMMA ThreadSets ==
    /\ Idle \in AllThreads
    /\ Threads \subseteq AllThreads
    /\ NULL \notin AllThreads
    /\ Idle \notin Threads
BY ThreadsAssumption DEF AllThreads

\* The search of scheduler_schedule stops at a READY thread only.
LEMMA NextIsReady ==
    ASSUME NEW st, NEW t, IsNext(st, t)
    PROVE  st[t] = "READY"
BY DEF IsNext, FirstReady

\* What a switch does to the states: the old thread is paused, the new one was
\* READY and is RUNNING, and no other thread is touched.
LEMMA ScheduleEffect ==
    ASSUME NEW st \in [AllThreads -> thread_state \cup {"none"}],
           thread_current \in AllThreads,
           scheduler_schedule(st)
    PROVE  /\ thread_current' \in AllThreads
           /\ Pause(st)[thread_current'] = "READY"
           /\ state' = [Pause(st) EXCEPT ![thread_current'] = "RUNNING"]
           /\ state' \in [AllThreads -> thread_state \cup {"none"}]
           /\ Pause(st) = [t \in AllThreads |->
                IF t = thread_current /\ st[t] = "RUNNING" THEN "READY" ELSE st[t]]
<1>1. PICK next \in AllThreads : /\ IsNext(Pause(st), next)
                                 /\ state' = [Pause(st) EXCEPT ![next] = "RUNNING"]
                                 /\ thread_current' = next
  BY Zenon DEF scheduler_schedule
<1>2. Pause(st)[next] = "READY"
  BY <1>1, NextIsReady
<1>3. Pause(st) = [t \in AllThreads |->
                IF t = thread_current /\ st[t] = "RUNNING" THEN "READY" ELSE st[t]]
  BY Zenon DEF Pause
<1>4. state' \in [AllThreads -> thread_state \cup {"none"}]
  BY <1>1, <1>3 DEF thread_state
<1>. QED
  BY <1>1, <1>2, <1>3, <1>4

\* Unlink removes one node and keeps the others.
LEMMA UnlinkSeq ==
    ASSUME NEW S, NEW s \in Seq(S), NEW i \in 1..Len(s)
    PROVE  /\ Unlink(s, i) \in Seq(S)
           /\ Len(Unlink(s, i)) = Len(s) - 1
           /\ \A j \in 1..(Len(s) - 1) :
                 Unlink(s, i)[j] = IF j < i THEN s[j] ELSE s[j + 1]
<1> DEFINE a == SubSeq(s, 1, i - 1)
           b == SubSeq(s, i + 1, Len(s))
<1>1. a \in Seq(S) /\ b \in Seq(S)
  OBVIOUS
<1>2. Len(a) = i - 1 /\ Len(b) = Len(s) - i
  OBVIOUS
<1>3. /\ \A j \in 1..(i - 1) : a[j] = s[j]
      /\ \A j \in 1..(Len(s) - i) : b[j] = s[i + j]
  OBVIOUS
<1>4. Unlink(s, i) = a \o b
  BY DEF Unlink
<1>5. Len(a) \in Nat /\ Len(b) \in Nat /\ Len(s) \in Nat
  BY <1>1
<1> HIDE DEF a, b
<1>6. a \o b \in Seq(S) /\ Len(a \o b) = Len(a) + Len(b)
  BY <1>1
<1>7. \A j \in 1..(Len(a) + Len(b)) : (a \o b)[j] = IF j <= Len(a) THEN a[j] ELSE b[j - Len(a)]
  BY <1>1
<1>. QED
  BY <1>2, <1>3, <1>4, <1>5, <1>6, <1>7

\* The initial state, which scheduler_init builds, satisfies the invariant.
LEMMA InitInv == Init => Inv
<1> SUFFICES ASSUME Init PROVE Inv
  OBVIOUS
<1> USE ThreadSets DEF Init
<1>1. TypeOK
  <2>1. task_list \in Seq(AllTasks) /\ waiting_queue \in Seq(AllThreads)
    BY DEF AllTasks
  <2>2. threads \in [AllTasks -> Seq(AllThreads)]
    <3>1. <<Idle>> \in Seq(AllThreads) /\ <<>> \in Seq(AllThreads)
      OBVIOUS
    <3>. QED
      BY <3>1
  <2>3. ticks_remaining \in [AllThreads -> 1..INITIAL_TICKS] /\ wake_time \in [AllThreads -> 0..MaxSleep]
    BY BoundsAssumption
  <2>4. state \in [AllThreads -> thread_state \cup {"none"}] /\ pc \in [AllThreads -> Labels]
    BY DEF thread_state, Labels
  <2>. QED
    BY <2>1, <2>2, <2>3, <2>4, Zenon DEF TypeOK
<1>2. OnlyCurrentRuns /\ QueueLocked /\ StatePc /\ CurrentState /\ IdleState
  BY ThreadsAssumption DEF OnlyCurrentRuns, QueueLocked, StatePc, CurrentState, IdleState
<1>3. MutexExclusion
  BY DEF MutexExclusion, Owns
<1>4. WaitersQueued
  BY DEF WaitersQueued, InList, IsInjective
<1>5. AllLinked
  BY DEF AllLinked, Linked, AllTasks
<1>. QED
  BY <1>1, <1>2, <1>3, <1>4, <1>5 DEF Inv

-----------------------------------------------------------------------------
(* Type correctness, action by action. *)

\* kmain's creation of tasks and threads, and its sti, keep the types.
LEMMA BootType == TypeOK /\ Boot => TypeOK'
<1> SUFFICES ASSUME TypeOK, Boot PROVE TypeOK'
  OBVIOUS
<1> USE ThreadSets DEF TypeOK, Goto, mutex, reaper, lists
<1>1. CASE \E k \in Tasks : task_create(k)
  BY <1>1 DEF task_create, AllTasks
<1>2. ASSUME NEW k \in Tasks, NEW t \in Threads, task_create_thread(k, t) PROVE TypeOK'
  <2>1. threads' \in [AllTasks -> Seq(AllThreads)]
    BY <1>2 DEF task_create_thread, AllTasks
  <2>2. state' \in [AllThreads -> thread_state \cup {"none"}] /\ pc' \in [AllThreads -> Labels]
    BY <1>2 DEF task_create_thread, thread_state, Labels
  <2>3. ticks_remaining' \in [AllThreads -> 1..INITIAL_TICKS]
    BY <1>2, BoundsAssumption DEF task_create_thread
  <2>. QED
    BY <1>2, <2>1, <2>2, <2>3 DEF task_create_thread
<1>3. CASE sti
  BY <1>3 DEF sti, Labels
<1>. QED
  BY <1>1, <1>2, <1>3, Zenon DEF Boot

\* The timer interrupt (timer_handler) keeps the types.
LEMMA TimerType == TypeOK /\ timer_handler => TypeOK'
<1> SUFFICES ASSUME TypeOK, timer_handler PROVE TypeOK'
  OBVIOUS
<1> USE ThreadSets DEF TypeOK
<1>1. PICK elapsed \in 1..MaxElapsed :
         /\ wake_time' = [t \in AllThreads |->
                            IF Due(t, elapsed) THEN 0 ELSE wake_time[t] - elapsed]
         /\ \/ scheduler_schedule(scheduler_wake_sleeping_threads(elapsed))
            \/ /\ state' = scheduler_wake_sleeping_threads(elapsed)
               /\ UNCHANGED thread_current
  BY DEF timer_handler
<1>2. scheduler_wake_sleeping_threads(elapsed) \in [AllThreads -> thread_state \cup {"none"}]
  BY DEF scheduler_wake_sleeping_threads, thread_state
<1>3. state' \in [AllThreads -> thread_state \cup {"none"}] /\ thread_current' \in AllThreads
  BY <1>1, <1>2, ScheduleEffect
<1>4. wake_time' \in [AllThreads -> 0..MaxSleep]
  BY <1>1, BoundsAssumption DEF Due
<1>5. ticks_remaining' \in [AllThreads -> 1..INITIAL_TICKS]
  BY BoundsAssumption DEF timer_handler, Quantum
<1>6. pc' \in [AllThreads -> Labels]
  BY DEF timer_handler, Goto, Labels
<1>. QED
  BY <1>3, <1>4, <1>5, <1>6, Zenon DEF timer_handler, lists, mutex, reaper

\* A voluntary switch (scheduler_yield) keeps the types.
LEMMA YieldType == ASSUME NEW t \in AllThreads PROVE TypeOK /\ scheduler_yield(t) => TypeOK'
<1> SUFFICES ASSUME TypeOK, scheduler_yield(t) PROVE TypeOK'
  OBVIOUS
<1>1. state' \in [AllThreads -> thread_state \cup {"none"}] /\ thread_current' \in AllThreads
  BY ScheduleEffect DEF TypeOK, scheduler_yield
<1>2. pc' \in [AllThreads -> Labels]
  BY DEF TypeOK, scheduler_yield, Goto, AfterYield, Labels
<1>. QED
  BY <1>1, <1>2 DEF TypeOK, scheduler_yield, lists, mutex, reaper

\* thread_sleep and task_current_thread_exit keep the types.
LEMMA SleepExitType ==
    ASSUME NEW t \in AllThreads
    PROVE  TypeOK /\ ((\E ms \in 0..MaxSleep : thread_sleep(t, ms)) \/ task_current_thread_exit(t))
              => TypeOK'
<1>1. ASSUME TypeOK, NEW ms \in 0..MaxSleep, thread_sleep(t, ms) PROVE TypeOK'
  BY <1>1 DEF TypeOK, thread_sleep, Goto, Labels, thread_state, lists, mutex, reaper
<1>2. ASSUME TypeOK, task_current_thread_exit(t) PROVE TypeOK'
  BY <1>2 DEF TypeOK, task_current_thread_exit, Goto, Labels, thread_state, lists, mutex, reaper
<1>. QED
  BY <1>1, <1>2

\* The two outcomes of a call of the heap, and of its return.
LEMMA EnterEffect ==
    ASSUME NEW t, heap_enter(t)
    PROVE  \/ /\ ~ is_locked /\ is_locked' /\ is_locked' \in BOOLEAN
              /\ waiting_queue' = waiting_queue /\ state' = state
              /\ pc' = [pc EXCEPT ![t] = "heap"]
           \/ /\ is_locked /\ is_locked' /\ is_locked' = is_locked
              /\ waiting_queue' = Append(waiting_queue, t)
              /\ state' = [state EXCEPT ![t] = "BLOCKED"]
              /\ pc' = [pc EXCEPT ![t] = "block"]
<1>1. mutex_acquire(t)
  BY DEF heap_enter
<1>2. CASE /\ ~ is_locked /\ is_locked' = TRUE /\ Goto(t, "heap")
           /\ UNCHANGED <<waiting_queue, state>>
  BY <1>2, Zenon DEF Goto
<1>3. CASE /\ is_locked /\ waiting_queue' = Append(waiting_queue, t)
           /\ state' = [state EXCEPT ![t] = "BLOCKED"] /\ Goto(t, "block") /\ UNCHANGED is_locked
  BY <1>3, Zenon DEF Goto
<1>. QED
  BY <1>1, <1>2, <1>3, Zenon DEF mutex_acquire

\* What mutex_release and the code around it do to the lock and the queue.
LEMMA LeaveEffect ==
    ASSUME NEW t, heap_leave(t)
    PROVE  \/ /\ ~ is_locked' /\ is_locked' \in BOOLEAN
              /\ waiting_queue = <<>> /\ waiting_queue' = waiting_queue
           \/ /\ is_locked' = is_locked
              /\ waiting_queue # <<>> /\ waiting_queue' = Tail(waiting_queue)
BY Zenon DEF heap_leave, mutex_release

\* Entering and leaving kmalloc and kfree keeps the types.
LEMMA HeapType ==
    ASSUME NEW t \in AllThreads
    PROVE  TypeOK /\ (heap_enter(t) \/ heap_leave(t)) => TypeOK'
<1> SUFFICES ASSUME TypeOK, heap_enter(t) \/ heap_leave(t) PROVE TypeOK'
  OBVIOUS
<1>1. CASE heap_enter(t)
  <2>1. waiting_queue' \in Seq(AllThreads)
    <3>1. waiting_queue \in Seq(AllThreads)
      BY DEF TypeOK
    <3>2. waiting_queue' = waiting_queue \/ waiting_queue' = Append(waiting_queue, t)
      BY <1>1, EnterEffect, Zenon
    <3>. QED
      BY <3>1, <3>2
  <2>2. is_locked' \in BOOLEAN
    BY <1>1, EnterEffect, Zenon DEF TypeOK
  <2>3. state' \in [AllThreads -> thread_state \cup {"none"}] /\ pc' \in [AllThreads -> Labels]
    BY <1>1, Zenon DEF TypeOK, heap_enter, mutex_acquire, Goto, thread_state, Labels
  <2>. QED
    BY <1>1, <2>1, <2>2, <2>3 DEF TypeOK, heap_enter, lists, reaper
<1>2. CASE heap_leave(t)
  <2>1. waiting_queue' \in Seq(AllThreads)
    <3>1. waiting_queue \in Seq(AllThreads)
      BY DEF TypeOK
    <3>2. waiting_queue' = waiting_queue \/ (waiting_queue # <<>> /\ waiting_queue' = Tail(waiting_queue))
      BY <1>2, LeaveEffect, Zenon
    <3>. QED
      BY <3>1, <3>2
  <2>2. is_locked' \in BOOLEAN
    BY <1>2, LeaveEffect, Zenon DEF TypeOK
  <2>3. Woken \in [AllThreads -> thread_state \cup {"none"}]
    BY DEF TypeOK, Woken, thread_state
  <2>4. state' \in [AllThreads -> thread_state \cup {"none"}] /\ thread_to_delete' \in AllThreads \cup {NULL}
    BY <1>2, <2>3, Zenon DEF TypeOK, heap_leave
  <2>5. pc' \in [AllThreads -> Labels]
    BY <1>2 DEF TypeOK, heap_leave, Goto, Labels
  <2>. QED
    BY <1>2, <2>1, <2>2, <2>4, <2>5 DEF TypeOK, heap_leave, lists
<1>. QED
  BY <1>1, <1>2

\* The steps of vmm_alloc, vmm_free and the page-fault handler keep the types.
LEMMA VmmType ==
    ASSUME NEW t \in AllThreads
    PROVE  TypeOK /\ (\/ vmm_call(t) \/ vmm_lock(t) \/ vmm_not_found(t) \/ hcf(t) \/ vmm_unlock(t)
                      \/ page_fault(t) \/ vmm_page_fault_handler(t)) => TypeOK'
BY Zenon DEF TypeOK, vmm_call, vmm_lock, vmm_not_found, hcf, vmm_unlock, page_fault,
       vmm_page_fault_handler, Goto, Labels, lists, mutex, reaper

\* The steps of kernel_idle_thread keep the types.
LEMMA IdleType == TypeOK /\ (reap \/ no_zombie \/ hlt) => TypeOK'
<1>1. ASSUME TypeOK, reap PROVE TypeOK'
  <2>1. PICK k \in 1..Len(task_list) : \E i \in 1..Len(threads[task_list[k]]) :
           /\ FirstZombie(task_list, threads, state, k, i)
           /\ thread_to_delete' = threads[task_list[k]][i]
           /\ threads' = [threads EXCEPT ![task_list[k]] = Unlink(@, i)]
    BY <1>1, Zenon DEF reap
  <2>2. PICK i \in 1..Len(threads[task_list[k]]) :
           /\ FirstZombie(task_list, threads, state, k, i)
           /\ thread_to_delete' = threads[task_list[k]][i]
           /\ threads' = [threads EXCEPT ![task_list[k]] = Unlink(@, i)]
    BY <2>1, Zenon
  <2>3. threads[task_list[k]] \in Seq(AllThreads)
    BY <1>1 DEF TypeOK
  <2>4. Unlink(threads[task_list[k]], i) \in Seq(AllThreads)
    BY <2>3, UnlinkSeq
  <2>5. thread_to_delete' \in AllThreads
    BY <2>2, <2>3
  <2>6. threads' \in [AllTasks -> Seq(AllThreads)]
    BY <1>1, <2>2, <2>4 DEF TypeOK
  <2>7. pc' \in [AllThreads -> Labels]
    BY <1>1 DEF TypeOK, reap, Goto, Labels
  <2>. QED
    BY <1>1, <2>5, <2>6, <2>7, Zenon DEF TypeOK, reap, mutex
<1>2. ASSUME TypeOK, no_zombie \/ hlt PROVE TypeOK'
  BY <1>2, Zenon DEF TypeOK, no_zombie, hlt, Goto, Labels, lists, mutex, reaper
<1>. QED
  BY <1>1, <1>2

\* Every step of the kernel keeps the types.
LEMMA NextType == TypeOK /\ [Next]_vars => TypeOK'
<1> SUFFICES ASSUME TypeOK, [Next]_vars PROVE TypeOK'
  OBVIOUS
<1>1. ASSUME NEW t \in Threads, ThreadCode(t) \/ vmm_not_found(t) \/ hcf(t) PROVE TypeOK'
  <2>1. t \in AllThreads
    BY ThreadSets
  <2>. QED
    BY <1>1, <2>1, YieldType, SleepExitType, HeapType, VmmType DEF ThreadCode
<1>2. ASSUME NEW t \in AllThreads, KernelStep(t) PROVE TypeOK'
  BY <1>2, YieldType, HeapType, VmmType, IdleType DEF KernelStep
<1>3. CASE UNCHANGED vars
  BY <1>3 DEF TypeOK, vars
<1>. QED
  BY <1>1, <1>2, <1>3, BootType, TimerType DEF Next

\* Every variable keeps its type, whatever the interleaving.
THEOREM TypeCorrect == Spec => []TypeOK
<1>1. Init => TypeOK
  BY InitInv DEF Inv
<1>. QED
  BY <1>1, NextType, PTL DEF Spec

-----------------------------------------------------------------------------
(* The steps that leave the heap mutex alone keep Inv.                     *)

\* The labels of code that neither waits, nor is about to yield, nor has ended.
Plain == {"boot", "run", "hlt", "halt", "spin", "vmm", "unlock", "fault", "stack", "struct", "hcf"}

Parts == /\ OnlyCurrentRuns /\ MutexExclusion /\ WaitersQueued /\ QueueLocked
         /\ StatePc /\ CurrentState /\ IdleState /\ AllLinked

\* Who owns the mutex decides MutexExclusion.
LEMMA SameOwners ==
    ASSUME MutexExclusion, is_locked' = is_locked,
           \A t \in AllThreads : Owns(t)' <=> Owns(t)
    PROVE  MutexExclusion'
BY Zenon DEF MutexExclusion

\* A step of plain code of one thread moves its label only.
LEMMA PlainStep ==
    ASSUME Inv, NEW t \in AllThreads, NEW l \in Plain,
           pc[t] \in Plain, state[t] # "SLEEPING",
           pc' = [pc EXCEPT ![t] = l],
           t = Idle => /\ l \notin {"fault", "hcf"}
                       /\ l \in {"stack", "spin", "vmm", "unlock", "struct"} <=> thread_to_delete # NULL,
           UNCHANGED <<task_list, threads, thread_current, state, is_locked, waiting_queue,
                       thread_to_delete>>
    PROVE  Parts'
<1> USE DEF Inv
<1>1. \A u \in AllThreads : Owns(u)' <=> Owns(u)
  BY DEF Owns, Plain, TypeOK
<1>2. MutexExclusion'
  BY <1>1, SameOwners
<1>3. OnlyCurrentRuns' /\ WaitersQueued' /\ QueueLocked'
  BY DEF OnlyCurrentRuns, WaitersQueued, QueueLocked
<1>4. StatePc'
  BY DEF StatePc, Plain, TypeOK
<1>5. CurrentState'
  BY DEF CurrentState, Plain, TypeOK
<1>6. IdleState'
  BY DEF IdleState, Plain, TypeOK
<1>7. AllLinked'
  BY DEF AllLinked, Linked
<1>. QED
  BY <1>2, <1>3, <1>4, <1>5, <1>6, <1>7 DEF Parts

\* A thread that halts in kmalloc keeps the heap mutex.
LEMMA OomParts == ASSUME Inv, NEW t \in Threads, hcf(t), pc[t] = "heap" PROVE Parts'
<1> USE DEF Inv
<1>1. /\ t = thread_current /\ t \in AllThreads /\ t # Idle /\ state[t] = "RUNNING"
      /\ pc' = [pc EXCEPT ![t] = "oom"]
  BY ThreadSets DEF hcf, Goto, CurrentState
<1>2. UNCHANGED <<task_list, threads, thread_current, state, is_locked, waiting_queue,
                  thread_to_delete>>
  BY DEF hcf, lists, mutex, reaper
<1>3. \A u \in AllThreads : Owns(u)' <=> Owns(u)
  BY <1>1, <1>2 DEF Owns, TypeOK
<1>4. MutexExclusion'
  BY <1>2, <1>3, SameOwners
<1>5. OnlyCurrentRuns' /\ WaitersQueued' /\ QueueLocked'
  BY <1>2 DEF OnlyCurrentRuns, WaitersQueued, QueueLocked
<1>6. StatePc'
  BY <1>1, <1>2 DEF StatePc, TypeOK
<1>7. CurrentState'
  BY <1>1, <1>2 DEF CurrentState, TypeOK
<1>8. IdleState'
  BY <1>1, <1>2 DEF IdleState, TypeOK
<1>9. AllLinked'
  BY <1>2 DEF AllLinked, Linked
<1>. QED
  BY <1>4, <1>5, <1>6, <1>7, <1>8, <1>9 DEF Parts

\* The steps of the address space, of the idle loop and of sti are plain, and so
\* is hcf outside kmalloc.
LEMMA VmmParts ==
    ASSUME Inv, NEW t \in AllThreads,
           \/ vmm_call(t) \/ vmm_lock(t) \/ vmm_not_found(t) \/ (hcf(t) /\ pc[t] # "heap")
           \/ vmm_unlock(t) \/ page_fault(t) \/ vmm_page_fault_handler(t)
    PROVE  Parts'
<1>1. t = thread_current /\ pc[t] \in Plain /\ pc[t] \notin {"block", "sleep", "exit"}
  BY DEF vmm_call, vmm_lock, vmm_not_found, hcf, vmm_unlock, page_fault, vmm_page_fault_handler, Plain
<1>2. state[t] = "RUNNING"
  BY <1>1 DEF Inv, CurrentState
<1>3. UNCHANGED <<task_list, threads, thread_current, state, is_locked, waiting_queue,
                  thread_to_delete>>
  BY DEF vmm_call, vmm_lock, vmm_not_found, hcf, vmm_unlock, page_fault, vmm_page_fault_handler,
         lists, mutex, reaper
<1>4. PICK l \in Plain : /\ pc' = [pc EXCEPT ![t] = l]
                         /\ t = Idle => /\ l \in {"spin", "vmm", "unlock", "struct"}
                                        /\ thread_to_delete # NULL
  BY ThreadSets, UsersAssumption
  DEF vmm_call, vmm_lock, vmm_not_found, hcf, vmm_unlock, page_fault, vmm_page_fault_handler,
      Goto, Plain, Inv, IdleState
<1>. QED
  BY <1>1, <1>2, <1>3, <1>4, PlainStep, Zenon

\* The idle loop without a zombie keeps the invariant.
LEMMA IdleLoopParts == ASSUME Inv, sti \/ no_zombie \/ hlt PROVE Parts'
<1>1. pc[Idle] \in Plain /\ state[Idle] # "SLEEPING" /\ thread_to_delete = NULL
  BY DEF sti, no_zombie, hlt, Plain, Inv, IdleState
<1>2. PICK l \in Plain : pc' = [pc EXCEPT ![Idle] = l] /\ l \in {"run", "hlt", "halt"}
  BY DEF sti, no_zombie, hlt, Plain, Goto
<1>3. UNCHANGED <<task_list, threads, thread_current, state, is_locked, waiting_queue,
                  thread_to_delete>>
  BY DEF sti, no_zombie, hlt, lists, mutex, reaper
<1>. QED
  BY <1>1, <1>2, <1>3, PlainStep, ThreadSets, Zenon

\* What a switch, or a timer interrupt that does not switch, may change.
SwitchEffect ==
    /\ thread_current' \in AllThreads
    /\ \A u \in AllThreads :
         /\ state'[u] # state[u] => /\ state[u] \in {"READY", "RUNNING", "SLEEPING"}
                                    /\ state'[u] \in {"READY", "RUNNING"}
         /\ state'[u] = "RUNNING" => u = thread_current'
         /\ \/ pc'[u] = pc[u]
            \/ pc[u] = "halt" /\ pc'[u] = "run"
            \/ pc[u] = "block" /\ pc'[u] = "heap"
            \/ pc[u] = "exit" /\ pc'[u] = "dead"
            \/ pc[u] = "sleep" /\ pc'[u] = "run"
    /\ \/ state'[thread_current'] = "RUNNING"
       \/ thread_current' = thread_current /\ pc'[thread_current] \in {"block", "sleep", "exit"}
    /\ UNCHANGED <<task_list, threads, is_locked, waiting_queue, thread_to_delete>>

\* The choice of the next thread touches the paused and the chosen thread only.
LEMMA ScheduleStates ==
    ASSUME Inv, NEW st \in [AllThreads -> thread_state \cup {"none"}],
           \A u \in AllThreads : st[u] # state[u] => state[u] = "SLEEPING" /\ st[u] = "READY",
           scheduler_schedule(st)
    PROVE  /\ thread_current' \in AllThreads
           /\ state'[thread_current'] = "RUNNING"
           /\ \A u \in AllThreads :
                /\ state'[u] # state[u] => /\ state[u] \in {"READY", "RUNNING", "SLEEPING"}
                                           /\ state'[u] \in {"READY", "RUNNING"}
                /\ state'[u] = "RUNNING" => u = thread_current'
<1>1. thread_current \in AllThreads /\ OnlyCurrentRuns
  BY DEF Inv, TypeOK
<1>2. /\ thread_current' \in AllThreads
      /\ Pause(st)[thread_current'] = "READY"
      /\ state' = [Pause(st) EXCEPT ![thread_current'] = "RUNNING"]
      /\ Pause(st) = [t \in AllThreads |->
            IF t = thread_current /\ st[t] = "RUNNING" THEN "READY" ELSE st[t]]
  BY <1>1, ScheduleEffect
<1>. QED
  BY <1>1, <1>2 DEF OnlyCurrentRuns

\* A voluntary switch (scheduler_yield) is a switch in the sense of SwitchEffect.
LEMMA YieldEffect == ASSUME Inv, NEW t \in AllThreads, scheduler_yield(t) PROVE SwitchEffect
<1>1. state \in [AllThreads -> thread_state \cup {"none"}] /\ pc \in [AllThreads -> Labels]
  BY DEF Inv, TypeOK
<1>2. scheduler_schedule(state)
  BY DEF scheduler_yield
<1>3. \A u \in AllThreads :
            \/ pc'[u] = pc[u]
            \/ pc[u] = "block" /\ pc'[u] = "heap"
            \/ pc[u] = "exit" /\ pc'[u] = "dead"
            \/ pc[u] = "sleep" /\ pc'[u] = "run"
  BY <1>1 DEF scheduler_yield, Goto, AfterYield
<1>4. UNCHANGED <<task_list, threads, is_locked, waiting_queue, thread_to_delete>>
  BY DEF scheduler_yield, lists, mutex, reaper
<1>. QED
  BY <1>1, <1>2, <1>3, <1>4, ScheduleStates DEF SwitchEffect

\* A timer interrupt (timer_handler) has the effect SwitchEffect describes.
LEMMA TimerEffect == ASSUME Inv, timer_handler PROVE SwitchEffect
<1> DEFINE woken(e) == scheduler_wake_sleeping_threads(e)
<1>1. PICK elapsed \in 1..MaxElapsed : \/ scheduler_schedule(woken(elapsed))
                                       \/ state' = woken(elapsed) /\ UNCHANGED thread_current
  BY DEF timer_handler
<1>2. TypeOK /\ OnlyCurrentRuns /\ CurrentState
  BY DEF Inv
<1>3. /\ woken(elapsed) \in [AllThreads -> thread_state \cup {"none"}]
      /\ \A u \in AllThreads : woken(elapsed)[u] # state[u] =>
            state[u] = "SLEEPING" /\ woken(elapsed)[u] = "READY"
  BY <1>2 DEF scheduler_wake_sleeping_threads, thread_state, TypeOK
<1> HIDE DEF woken
<1>4. \A u \in AllThreads : pc'[u] = pc[u] \/ (pc[u] = "halt" /\ pc'[u] = "run")
  BY <1>2 DEF timer_handler, Goto, TypeOK
<1>5. UNCHANGED <<task_list, threads, is_locked, waiting_queue, thread_to_delete>>
  BY DEF timer_handler, lists, mutex, reaper
<1>6. CASE scheduler_schedule(woken(elapsed))
  BY <1>3, <1>4, <1>5, <1>6, ScheduleStates DEF SwitchEffect
<1>7. CASE state' = woken(elapsed) /\ UNCHANGED thread_current
  BY <1>2, <1>3, <1>4, <1>5, <1>7 DEF SwitchEffect, OnlyCurrentRuns, CurrentState, TypeOK
<1>. QED
  BY <1>1, <1>6, <1>7

\* A switch of threads keeps the invariant.
LEMMA SwitchParts == ASSUME Inv, SwitchEffect PROVE Parts'
<1> USE ThreadSets DEF Inv
<1>1. thread_current \in AllThreads
  BY DEF TypeOK
<1>2. \A u \in AllThreads : Owns(u)' <=> Owns(u)
  BY DEF SwitchEffect, Owns
<1>3. MutexExclusion'
  BY <1>2, SameOwners DEF SwitchEffect
<1>4. OnlyCurrentRuns'
  BY DEF SwitchEffect, OnlyCurrentRuns
<1>5. WaitersQueued'
  <2>1. waiting_queue' = waiting_queue /\ \A u \in AllThreads : state'[u] = "BLOCKED" <=> state[u] = "BLOCKED"
    BY DEF SwitchEffect
  <2>. QED
    BY <2>1 DEF WaitersQueued
<1>6. QueueLocked'
  BY Zenon DEF SwitchEffect, QueueLocked
<1>7. StatePc'
  BY DEF SwitchEffect, StatePc
<1>8. CurrentState'
  BY <1>1 DEF SwitchEffect, CurrentState
<1>9. IdleState'
  <2>1. thread_to_delete' # NULL => /\ state'[thread_to_delete'] = "ZOMBIE"
                                    /\ thread_to_delete' # thread_current'
    BY <1>1, Zenon DEF SwitchEffect, IdleState, TypeOK
  <2>2. state'[Idle] \in {"READY", "RUNNING", "BLOCKED"}
    BY DEF SwitchEffect, IdleState
  <2>. QED
    BY <2>1, <2>2 DEF SwitchEffect, IdleState
<1>10. AllLinked'
  BY DEF SwitchEffect, AllLinked, Linked
<1>. QED
  BY <1>3, <1>4, <1>5, <1>6, <1>7, <1>8, <1>9, <1>10 DEF Parts

\* A thread that sleeps or exits keeps the invariant.
LEMMA StopParts ==
    ASSUME Inv, NEW t \in Threads,
           (\E ms \in 0..MaxSleep : thread_sleep(t, ms)) \/ task_current_thread_exit(t)
    PROVE  Parts'
<1> USE ThreadSets DEF Inv
<1>1. PICK s \in {"SLEEPING", "ZOMBIE"}, l \in {"sleep", "exit"} :
          /\ s = "SLEEPING" <=> l = "sleep"
          /\ state' = [state EXCEPT ![t] = s]
          /\ pc' = [pc EXCEPT ![t] = l]
  BY DEF thread_sleep, task_current_thread_exit, Goto
<1>2. UNCHANGED <<task_list, threads, thread_current, is_locked, waiting_queue, thread_to_delete>>
  BY DEF thread_sleep, task_current_thread_exit, lists, mutex, reaper
<1>3. t = thread_current /\ pc[t] = "run"
  BY DEF thread_sleep, task_current_thread_exit
<1>4. state[t] = "RUNNING" /\ t \in AllThreads /\ t # Idle
  BY <1>3 DEF CurrentState
<1>5. \A u \in AllThreads : /\ u # t => state'[u] = state[u] /\ pc'[u] = pc[u]
                            /\ u = t => state'[u] = s /\ pc'[u] = l
  BY <1>1 DEF TypeOK
<1>6. \A u \in AllThreads : Owns(u)' <=> Owns(u)
  BY <1>1, <1>3, <1>5 DEF Owns
<1>7. MutexExclusion'
  BY <1>2, <1>6, SameOwners
<1>8. OnlyCurrentRuns'
  BY <1>1, <1>2, <1>5 DEF OnlyCurrentRuns
<1>9. WaitersQueued'
  <2>1. \A u \in AllThreads : state'[u] = "BLOCKED" <=> state[u] = "BLOCKED"
    BY <1>1, <1>4, <1>5
  <2>. QED
    BY <1>2, <2>1 DEF WaitersQueued
<1>10. QueueLocked'
  BY <1>2, Zenon DEF QueueLocked
<1>11. StatePc'
  BY <1>1, <1>5 DEF StatePc
<1>12. CurrentState'
  BY <1>1, <1>2, <1>3, <1>4, <1>5 DEF CurrentState
<1>13. IdleState'
  BY <1>1, <1>2, <1>3, <1>4, <1>5 DEF IdleState, TypeOK
<1>14. AllLinked'
  <2>1. \A u \in AllThreads : Linked(u)' <=> Linked(u)
    BY <1>2 DEF Linked
  <2>. QED
    BY <1>2, <1>4, <1>5, <2>1 DEF AllLinked
<1>. QED
  BY <1>7, <1>8, <1>9, <1>10, <1>11, <1>12, <1>13, <1>14 DEF Parts

\* The creation of a task or of a thread keeps the invariant.
LEMMA CreateParts ==
    ASSUME Inv,
           \/ \E k \in Tasks : task_create(k)
           \/ \E k \in Tasks, t \in Threads : task_create_thread(k, t)
    PROVE  Parts'
<1> USE ThreadSets DEF Inv
<1>1. ASSUME NEW k \in Tasks, task_create(k) PROVE Parts'
  <2>1. UNCHANGED <<threads, thread_current, state, is_locked, waiting_queue, thread_to_delete, pc>>
    BY <1>1 DEF task_create, mutex, reaper
  <2>2. \A u \in AllThreads : Linked(u) => Linked(u)'
    <3>1. /\ task_list \in Seq(AllTasks) /\ k \in AllTasks
          /\ task_list' = Append(task_list, k)
      BY <1>1 DEF task_create, TypeOK, AllTasks
    <3>2. /\ Len(task_list') = Len(task_list) + 1 /\ Len(task_list) \in Nat
          /\ \A m \in 1..Len(task_list) : task_list'[m] = task_list[m]
      BY <3>1
    <3>. QED
      BY <2>1, <3>2 DEF Linked
  <2>3. AllLinked'
    BY <2>1, <2>2 DEF AllLinked
  <2>4. MutexExclusion'
    BY <2>1, SameOwners DEF Owns
  <2>5. OnlyCurrentRuns' /\ WaitersQueued' /\ StatePc' /\ CurrentState' /\ IdleState'
    BY <2>1 DEF OnlyCurrentRuns, WaitersQueued, StatePc, CurrentState, IdleState
  <2>6. QueueLocked'
    BY <2>1, Zenon DEF QueueLocked
  <2>. QED
    BY <2>3, <2>4, <2>5, <2>6 DEF Parts
<1>2. ASSUME NEW k \in Tasks, NEW t \in Threads, task_create_thread(k, t) PROVE Parts'
  <2>1. UNCHANGED <<task_list, thread_current, is_locked, waiting_queue, thread_to_delete>>
    BY <1>2 DEF task_create_thread, mutex
  <2>2. t \in AllThreads /\ t # Idle /\ pc[t] = "none" /\ state[t] = "none"
    BY <1>2 DEF task_create_thread, StatePc
  <2>3. \A u \in AllThreads : /\ u # t => state'[u] = state[u] /\ pc'[u] = pc[u]
                              /\ u = t => state'[u] = "READY" /\ pc'[u] = "run"
    BY <1>2, <2>2 DEF task_create_thread, Goto, TypeOK
  <2>4. t # thread_current /\ t # thread_to_delete
    BY <2>2 DEF CurrentState, IdleState
  <2>5. MutexExclusion'
    <3>1. \A u \in AllThreads : Owns(u)' <=> Owns(u)
      BY <2>2, <2>3 DEF Owns
    <3>. QED
      BY <2>1, <3>1, SameOwners
  <2>6. WaitersQueued'
    <3>1. \A u \in AllThreads : state'[u] = "BLOCKED" <=> state[u] = "BLOCKED"
      BY <2>2, <2>3
    <3>. QED
      BY <2>1, <3>1 DEF WaitersQueued
  <2>7. OnlyCurrentRuns' /\ StatePc' /\ CurrentState'
    <3>1. OnlyCurrentRuns'
      BY <2>1, <2>2, <2>3, <2>4 DEF OnlyCurrentRuns
    <3>2. StatePc'
      BY <2>1, <2>2, <2>3, <2>4 DEF StatePc
    <3>3. CurrentState'
      BY <2>1, <2>2, <2>3, <2>4 DEF CurrentState, TypeOK
    <3>. QED
      BY <3>1, <3>2, <3>3
  <2>8. IdleState'
    BY <2>1, <2>2, <2>3, <2>4 DEF IdleState, TypeOK
  <2>9. QueueLocked'
    BY <2>1, Zenon DEF QueueLocked
  <2>10. AllLinked'
    <3>1. k \in AllTasks /\ threads[k] \in Seq(AllThreads)
      BY DEF TypeOK, AllTasks
    <3>2. threads' = [threads EXCEPT ![k] = Append(threads[k], t)]
      BY <1>2 DEF task_create_thread
    <3>11. /\ threads'[k] = Append(threads[k], t)
           /\ \A j \in AllTasks : j # k => threads'[j] = threads[j]
      BY <3>1, <3>2 DEF TypeOK
    <3>12. /\ Len(threads'[k]) = Len(threads[k]) + 1 /\ Len(threads[k]) \in Nat
           /\ \A i \in 1..Len(threads[k]) : threads'[k][i] = threads[k][i]
           /\ threads'[k][Len(threads[k]) + 1] = t
      BY <3>1, <3>11
    <3>13. \A m \in 1..Len(task_list) : task_list[m] \in AllTasks
      BY DEF TypeOK
    <3>3. \A u \in AllThreads : Linked(u) => Linked(u)'
      <4> SUFFICES ASSUME NEW u \in AllThreads, NEW m \in 1..Len(task_list),
                          NEW i \in 1..Len(threads[task_list[m]]), threads[task_list[m]][i] = u
                   PROVE  Linked(u)'
        BY DEF Linked
      <4>1. i \in 1..Len(threads'[task_list[m]]) /\ threads'[task_list[m]][i] = u
        BY <3>11, <3>12, <3>13
      <4>. QED
        BY <2>1, <4>1 DEF Linked
    <3>4. PICK m \in 1..Len(task_list) : task_list[m] = k
      BY <1>2 DEF task_create_thread, InList
    <3>5. Linked(t)'
      <4>1. /\ Len(threads[k]) + 1 \in 1..Len(threads'[task_list'[m]])
            /\ threads'[task_list'[m]][Len(threads[k]) + 1] = t
            /\ m \in 1..Len(task_list')
        BY <2>1, <3>12, <3>4
      <4>2. \E i \in 1..Len(threads'[task_list'[m]]) : threads'[task_list'[m]][i] = t
        BY <4>1
      <4>. QED
        BY <4>1, <4>2, Zenon DEF Linked
    <3>. QED
      BY <2>1, <2>3, <3>3, <3>5 DEF AllLinked
  <2>. QED
    BY <2>5, <2>6, <2>7, <2>8, <2>9, <2>10 DEF Parts
<1>. QED
  BY <1>1, <1>2

\* Unlinking one node leaves every other element in the list.
LEMMA UnlinkKeeps ==
    ASSUME NEW S, NEW s \in Seq(S), NEW i \in 1..Len(s), NEW j \in 1..Len(s), s[j] # s[i]
    PROVE  \E m \in 1..Len(Unlink(s, i)) : Unlink(s, i)[m] = s[j]
<1> DEFINE r == Unlink(s, i)
<1>0. Len(s) \in Nat
  OBVIOUS
<1>1. /\ Len(r) = Len(s) - 1
      /\ \A m \in 1..(Len(s) - 1) : r[m] = IF m < i THEN s[m] ELSE s[m + 1]
  BY UnlinkSeq, Zenon
<1> HIDE DEF r
<1>2. CASE j < i
  <2>1. j \in 1..Len(r) /\ r[j] = s[j]
    BY <1>0, <1>1, <1>2
  <2>. QED
    BY <2>1 DEF r
<1>3. CASE j > i
  <2>1. j - 1 \in 1..Len(r) /\ r[j - 1] = s[j]
    BY <1>0, <1>1, <1>3
  <2>. QED
    BY <2>1 DEF r
<1>. QED
  BY <1>2, <1>3

\* The reaper's scan keeps the invariant: the zombie it unlinks becomes the one
\* that is being freed, and everyone else stays linked.
LEMMA ReapParts == ASSUME Inv, reap PROVE Parts'
<1> USE ThreadSets DEF Inv
<1>1. PICK k \in 1..Len(task_list) : \E i \in 1..Len(threads[task_list[k]]) :
         /\ FirstZombie(task_list, threads, state, k, i)
         /\ thread_to_delete' = threads[task_list[k]][i]
         /\ threads' = [threads EXCEPT ![task_list[k]] = Unlink(@, i)]
  BY Zenon DEF reap
<1>2. PICK i \in 1..Len(threads[task_list[k]]) :
         /\ FirstZombie(task_list, threads, state, k, i)
         /\ thread_to_delete' = threads[task_list[k]][i]
         /\ threads' = [threads EXCEPT ![task_list[k]] = Unlink(@, i)]
  BY <1>1, Zenon
<1>3. UNCHANGED <<task_list, thread_current, state, is_locked, waiting_queue>>
  BY DEF reap, mutex
<1>4. thread_current = Idle /\ pc[Idle] = "run" /\ thread_to_delete = NULL /\ state[Idle] = "RUNNING"
  BY DEF reap, IdleState, CurrentState
<1>5. state[thread_to_delete'] = "ZOMBIE"
  BY <1>2 DEF FirstZombie, ZombieAt
<1>6. task_list[k] \in AllTasks /\ threads[task_list[k]] \in Seq(AllThreads)
  BY DEF TypeOK
<1>7. thread_to_delete' \in AllThreads
  BY <1>2, <1>6
<1>8. \A u \in AllThreads : /\ u # Idle => pc'[u] = pc[u]
                            /\ u = Idle => pc'[u] = "stack"
  BY DEF reap, Goto, TypeOK
<1>9. MutexExclusion'
  <2>1. \A u \in AllThreads : Owns(u)' <=> Owns(u)
    BY <1>3, <1>4, <1>8 DEF Owns
  <2>. QED
    BY <1>3, <2>1, SameOwners
<1>10. OnlyCurrentRuns' /\ WaitersQueued'
  BY <1>3 DEF OnlyCurrentRuns, WaitersQueued
<1>11. QueueLocked'
  BY <1>3, Zenon DEF QueueLocked
<1>12. StatePc' /\ CurrentState'
  BY <1>3, <1>4, <1>8, Zenon DEF StatePc, CurrentState, TypeOK
<1>13. IdleState'
  BY <1>3, <1>4, <1>5, <1>7, <1>8 DEF IdleState
<1>14. AllLinked'
  <2> SUFFICES ASSUME NEW u \in AllThreads, state[u] # "none", u # thread_to_delete'
               PROVE  Linked(u)'
    BY <1>3 DEF AllLinked
  <2>1. Linked(u)
    BY <1>4 DEF AllLinked
  <2>2. PICK m \in 1..Len(task_list) : \E j \in 1..Len(threads[task_list[m]]) : threads[task_list[m]][j] = u
    BY <2>1 DEF Linked
  <2>3. PICK j \in 1..Len(threads[task_list[m]]) : threads[task_list[m]][j] = u
    BY <2>2
  <2>4. task_list[m] \in AllTasks
    BY DEF TypeOK
  <2>5. \E n \in 1..Len(threads'[task_list[m]]) : threads'[task_list[m]][n] = u
    <3>1. CASE task_list[m] = task_list[k]
      <4>1. threads'[task_list[m]] = Unlink(threads[task_list[k]], i)
        BY <1>2, <1>6, <3>1, Zenon DEF TypeOK
      <4>2. \E n \in 1..Len(Unlink(threads[task_list[k]], i)) :
               Unlink(threads[task_list[k]], i)[n] = threads[task_list[k]][j]
        <5>1. /\ j \in 1..Len(threads[task_list[k]])
              /\ threads[task_list[k]][j] # threads[task_list[k]][i]
          BY <1>2, <2>3, <3>1
        <5>. QED
          BY <1>2, <1>6, <5>1, UnlinkKeeps, Zenon
      <4>. QED
        BY <2>3, <3>1, <4>1, <4>2
    <3>2. CASE task_list[m] # task_list[k]
      <4>1. threads'[task_list[m]] = threads[task_list[m]]
        BY <1>2, <2>4, <3>2 DEF TypeOK
      <4>. QED
        BY <2>3, <4>1
    <3>. QED
      BY <3>1, <3>2
  <2>. QED
    BY <1>3, <2>5 DEF Linked
<1>. QED
  BY <1>9, <1>10, <1>11, <1>12, <1>13, <1>14 DEF Parts

-----------------------------------------------------------------------------
(* The heap mutex keeps Inv, so Inv always holds.                          *)

\* Joining and leaving the waiting queue.
LEMMA JoinQueue ==
    ASSUME NEW S, NEW q \in Seq(S), NEW t \in S, IsInjective(q), ~ InList(q, t)
    PROVE  /\ IsInjective(Append(q, t))
           /\ \A u \in S : InList(Append(q, t), u) <=> InList(q, u) \/ u = t
<1>1. /\ Len(Append(q, t)) = Len(q) + 1 /\ Len(q) \in Nat
      /\ DOMAIN Append(q, t) = 1..(Len(q) + 1) /\ DOMAIN q = 1..Len(q)
      /\ Append(q, t)[Len(q) + 1] = t
      /\ \A i \in 1..Len(q) : Append(q, t)[i] = q[i]
  OBVIOUS
<1> DEFINE r == Append(q, t)
<1> HIDE DEF r
<1>2. IsInjective(r)
  BY <1>1 DEF r, IsInjective, InList
<1>3. \A u \in S : InList(r, u) <=> InList(q, u) \/ u = t
  BY <1>1 DEF r, InList
<1>. QED
  BY <1>2, <1>3 DEF r

\* Taking the first waiter from the queue keeps the others, once each.
LEMMA LeaveQueue ==
    ASSUME NEW S, NEW q \in Seq(S), q # <<>>, IsInjective(q)
    PROVE  /\ Head(q) \in S /\ InList(q, Head(q))
           /\ IsInjective(Tail(q))
           /\ \A u \in S : InList(Tail(q), u) <=> InList(q, u) /\ u # Head(q)
<1>1. /\ Len(q) \in Nat \ {0} /\ Len(Tail(q)) = Len(q) - 1
      /\ DOMAIN Tail(q) = 1..(Len(q) - 1) /\ DOMAIN q = 1..Len(q)
      /\ \A i \in 1..(Len(q) - 1) : Tail(q)[i] = q[i + 1]
      /\ Head(q) = q[1]
  OBVIOUS
<1> DEFINE r == Tail(q)
<1> HIDE DEF r
<1>2. IsInjective(r)
  BY <1>1 DEF r, IsInjective
<1>3. ASSUME NEW u \in S, InList(r, u) PROVE InList(q, u) /\ u # Head(q)
  BY <1>1, <1>3 DEF r, InList, IsInjective
<1>4. ASSUME NEW u \in S, InList(q, u), u # Head(q) PROVE InList(r, u)
  <2>1. PICK i \in 1..Len(q) : q[i] = u
    BY <1>4 DEF InList
  <2>2. i - 1 \in 1..(Len(q) - 1) /\ r[i - 1] = u
    BY <1>1, <1>4, <2>1 DEF r
  <2>. QED
    BY <1>1, <2>2 DEF r, InList
<1>5. InList(q, Head(q)) /\ Head(q) \in S
  BY <1>1 DEF InList
<1>. QED
  BY <1>2, <1>3, <1>4, <1>5 DEF r

\* mutex_acquire keeps the invariant: the caller owns the free mutex, or joins
\* the queue of the locked one.
LEMMA EnterParts == ASSUME Inv, NEW t \in AllThreads, heap_enter(t) PROVE Parts'
<1> USE ThreadSets DEF Inv
<1>1. UNCHANGED <<task_list, threads, thread_current, thread_to_delete>>
  BY DEF heap_enter, lists, reaper
<1>2. /\ t = thread_current /\ pc[t] \in {"vmm", "struct", "run"}
      /\ t = Idle => pc[t] # "run"
      /\ state[t] = "RUNNING"
  BY DEF heap_enter, CallsHeap, CurrentState
<1>3. t = Idle => thread_to_delete # NULL
  BY <1>2 DEF IdleState
<1>4. CASE /\ ~ is_locked /\ is_locked'
           /\ waiting_queue' = waiting_queue /\ state' = state
           /\ pc' = [pc EXCEPT ![t] = "heap"]
  <2>1. \A u \in AllThreads : /\ u # t => pc'[u] = pc[u]
                              /\ u = t => pc'[u] = "heap"
    BY <1>4 DEF TypeOK
  <2>2. \A u \in AllThreads : Owns(u)' <=> u = t
    <3>1. \A u \in AllThreads : ~ Owns(u)
      BY <1>4, Zenon DEF MutexExclusion
    <3>2. state' = state
      BY <1>4
    <3>. QED
      BY <1>2, <2>1, <3>1, <3>2 DEF Owns
  <2>3. MutexExclusion'
    BY <1>4, <2>2, Zenon DEF MutexExclusion
  <2>4. state' = state /\ waiting_queue' = waiting_queue
    BY <1>4
  <2>5. OnlyCurrentRuns' /\ WaitersQueued'
    BY <1>1, <2>4 DEF OnlyCurrentRuns, WaitersQueued
  <2>6. QueueLocked'
    BY <1>4, Zenon DEF QueueLocked
  <2>7. StatePc' /\ CurrentState'
    BY <1>1, <1>2, <2>1, <2>4 DEF StatePc, CurrentState, TypeOK
  <2>8. IdleState'
    BY <1>1, <1>2, <1>3, <2>1, <2>4 DEF IdleState
  <2>9. AllLinked'
    BY <1>1, <2>4 DEF AllLinked, Linked
  <2>. QED
    BY <2>3, <2>5, <2>6, <2>7, <2>8, <2>9 DEF Parts
<1>5. CASE /\ is_locked' /\ is_locked' = is_locked
           /\ waiting_queue' = Append(waiting_queue, t)
           /\ state' = [state EXCEPT ![t] = "BLOCKED"]
           /\ pc' = [pc EXCEPT ![t] = "block"]
  <2>1. \A u \in AllThreads : /\ u # t => pc'[u] = pc[u] /\ state'[u] = state[u]
                              /\ u = t => pc'[u] = "block" /\ state'[u] = "BLOCKED"
    BY <1>5 DEF TypeOK
  <2>2. MutexExclusion'
    <3>1. \A u \in AllThreads : Owns(u)' <=> Owns(u)
      BY <1>2, <2>1 DEF Owns
    <3>. QED
      BY <1>5, <3>1, SameOwners, Zenon
  <2>3. WaitersQueued'
    <3>1. waiting_queue \in Seq(AllThreads) /\ IsInjective(waiting_queue) /\ ~ InList(waiting_queue, t)
      BY <1>2 DEF TypeOK, WaitersQueued
    <3>2. waiting_queue' = Append(waiting_queue, t)
      BY <1>5
    <3>3. /\ IsInjective(waiting_queue')
          /\ \A u \in AllThreads : InList(waiting_queue', u) <=> InList(waiting_queue, u) \/ u = t
      BY <3>1, <3>2, JoinQueue
    <3>. QED
      BY <2>1, <3>3 DEF WaitersQueued
  <2>4. OnlyCurrentRuns' /\ StatePc' /\ CurrentState'
    BY <1>1, <1>2, <2>1 DEF OnlyCurrentRuns, StatePc, CurrentState, TypeOK
  <2>5. QueueLocked'
    BY <1>5, Zenon DEF QueueLocked
  <2>6. IdleState'
    BY <1>1, <1>2, <1>3, <2>1 DEF IdleState, TypeOK
  <2>7. AllLinked'
    <3>1. \A u \in AllThreads : Linked(u)' <=> Linked(u)
      BY <1>1 DEF Linked
    <3>. QED
      BY <1>1, <1>2, <2>1, <3>1 DEF AllLinked
  <2>. QED
    BY <2>2, <2>3, <2>4, <2>5, <2>6, <2>7 DEF Parts
<1>. QED
  BY <1>4, <1>5, EnterEffect, Zenon

\* mutex_release keeps the invariant: the mutex is free, or belongs to the
\* thread that was first in the queue.
LEMMA LeaveParts == ASSUME Inv, NEW t \in AllThreads, heap_leave(t) PROVE Parts'
<1> USE ThreadSets DEF Inv
<1> DEFINE h == Head(waiting_queue)
           z == thread_to_delete
<1>1. UNCHANGED <<task_list, threads, thread_current>>
  BY DEF heap_leave, lists
<1>2. t = thread_current /\ pc[t] = "heap" /\ state[t] = "RUNNING"
  BY DEF heap_leave, CurrentState
<1>3. Owns(t) /\ \A u \in AllThreads : Owns(u) => u = t
  BY <1>2, Zenon DEF Owns, MutexExclusion
<1>4. is_locked
  BY <1>3, Zenon DEF MutexExclusion
<1>5. /\ waiting_queue \in Seq(AllThreads) /\ IsInjective(waiting_queue)
      /\ \A u \in AllThreads : state[u] = "BLOCKED" <=> InList(waiting_queue, u)
  BY DEF TypeOK, WaitersQueued
<1>6. waiting_queue # <<>> => /\ h \in AllThreads /\ state[h] = "BLOCKED" /\ pc[h] \in {"block", "heap"}
                              /\ h # t /\ h # z
  BY <1>2, <1>5, LeaveQueue DEF StatePc, IdleState, TypeOK
<1>7. \A u \in AllThreads : /\ u # t => pc'[u] = pc[u]
                            /\ u = t => pc'[u] = IF vas_lock = t THEN "unlock" ELSE "run"
  BY DEF heap_leave, Goto, TypeOK
<1>8. FreesZombie(t) => z \in AllThreads /\ state[z] = "ZOMBIE" /\ z # t
  BY <1>2 DEF FreesZombie, IdleState, TypeOK
<1>9. \A u \in AllThreads :
         state'[u] = IF waiting_queue # <<>> /\ u = h THEN "READY"
                     ELSE IF FreesZombie(t) /\ u = z THEN "none" ELSE state[u]
  <2>1. Woken = [u \in AllThreads |-> IF waiting_queue # <<>> /\ u = h THEN "READY" ELSE state[u]]
    BY <1>6, Zenon DEF Woken, TypeOK
  <2>2. CASE FreesZombie(t)
    <3>1. state' = [Woken EXCEPT ![z] = "none"]
      BY <2>2 DEF heap_leave
    <3>. QED
      BY <1>6, <1>8, <2>1, <2>2, <3>1
  <2>3. CASE ~ FreesZombie(t)
    <3>1. state' = Woken
      BY <2>3 DEF heap_leave
    <3>. QED
      BY <2>1, <2>3, <3>1
  <2>. QED
    BY <2>2, <2>3
<1>10. /\ FreesZombie(t) => thread_to_delete' = NULL
       /\ ~ FreesZombie(t) => thread_to_delete' = z
  BY DEF heap_leave
<1> HIDE DEF h, z
<1>11. \A u \in AllThreads : Owns(u)' <=> waiting_queue # <<>> /\ u = h
  <2> SUFFICES ASSUME NEW u \in AllThreads PROVE Owns(u)' <=> waiting_queue # <<>> /\ u = h
    OBVIOUS
  <2>1. CASE waiting_queue # <<>> /\ u = h
    BY <1>6, <1>7, <1>9, <2>1 DEF Owns
  <2>2. CASE u = t /\ ~ (waiting_queue # <<>> /\ u = h)
    BY <1>7, <2>2 DEF Owns
  <2>3. CASE u # t /\ ~ (waiting_queue # <<>> /\ u = h)
    <3>1. ~ Owns(u)
      BY <1>3, <2>3
    <3>2. pc'[u] = pc[u] /\ (state'[u] = state[u] \/ (FreesZombie(t) /\ u = z))
      BY <1>7, <1>9, <2>3
    <3>3. u = z /\ FreesZombie(t) => pc[u] \notin {"block", "heap", "oom"}
      BY <1>8 DEF StatePc
    <3>. QED
      BY <2>3, <3>1, <3>2, <3>3 DEF Owns
  <2>. QED
    BY <2>1, <2>2, <2>3
<1>12. MutexExclusion'
  <2>1. CASE ~ is_locked' /\ waiting_queue = <<>>
    BY <1>11, <2>1, Zenon DEF MutexExclusion
  <2>2. CASE is_locked' = is_locked /\ waiting_queue # <<>>
    BY <1>4, <1>6, <1>11, <2>2, Zenon DEF MutexExclusion
  <2>. QED
    BY <2>1, <2>2, LeaveEffect, Zenon
<1>13. QueueLocked'
  <2>1. CASE waiting_queue = <<>> /\ waiting_queue' = waiting_queue
    BY <2>1, Zenon DEF QueueLocked
  <2>2. CASE is_locked' = is_locked
    BY <1>4, <2>2, Zenon DEF QueueLocked
  <2>. QED
    BY <2>1, <2>2, LeaveEffect, Zenon
<1>14. WaitersQueued'
  <2>1. CASE waiting_queue = <<>> /\ waiting_queue' = waiting_queue
    <3>1. \A u \in AllThreads : state'[u] = "BLOCKED" <=> state[u] = "BLOCKED"
      BY <1>8, <1>9, <2>1
    <3>. QED
      BY <2>1, <3>1 DEF WaitersQueued
  <2>2. CASE waiting_queue # <<>> /\ waiting_queue' = Tail(waiting_queue)
    <3>1. /\ IsInjective(waiting_queue')
          /\ \A u \in AllThreads : InList(waiting_queue', u) <=> InList(waiting_queue, u) /\ u # h
      BY <1>5, <2>2, LeaveQueue DEF h
    <3>2. \A u \in AllThreads : state'[u] = "BLOCKED" <=> state[u] = "BLOCKED" /\ u # h
      BY <1>8, <1>9, <2>2
    <3>. QED
      BY <1>5, <3>1, <3>2 DEF WaitersQueued
  <2>. QED
    BY <2>1, <2>2, LeaveEffect, Zenon
<1>15. OnlyCurrentRuns'
  BY <1>1, <1>9 DEF OnlyCurrentRuns
<1>16. StatePc'
  <2>1. \A u \in AllThreads : u # t /\ (waiting_queue = <<>> \/ u # h) /\ ~ (FreesZombie(t) /\ u = z)
            => state'[u] = state[u] /\ pc'[u] = pc[u]
    BY <1>7, <1>9
  <2>2. state'[t] = "RUNNING" /\ pc'[t] \in {"unlock", "run"}
    BY <1>2, <1>6, <1>7, <1>8, <1>9
  <2>3. waiting_queue # <<>> => state'[h] = "READY" /\ pc'[h] \in {"block", "heap"}
    BY <1>6, <1>7, <1>9
  <2>4. FreesZombie(t) => state'[z] = "none" /\ pc'[z] \in {"exit", "dead"}
    BY <1>6, <1>7, <1>8, <1>9 DEF StatePc
  <2>. QED
    BY <2>1, <2>2, <2>3, <2>4 DEF StatePc
<1>17. CurrentState'
  BY <1>1, <1>2, <1>6, <1>8, <1>9 DEF CurrentState
<1>18. IdleState'
  <2>1. state'[Idle] \in {"READY", "RUNNING", "BLOCKED"}
    BY <1>8, <1>9 DEF IdleState
  <2>2. pc'[Idle] \notin {"sleep", "fault", "hcf", "oom"}
    BY <1>7 DEF IdleState
  <2>3. pc'[Idle] \in {"stack", "spin", "vmm", "unlock", "struct", "block", "heap"}
           <=> thread_to_delete' # NULL
    BY <1>2, <1>7, <1>10 DEF IdleState, FreesZombie, z
  <2>4. thread_to_delete' # NULL => state'[thread_to_delete'] = "ZOMBIE" /\ thread_to_delete' # thread_current'
    BY <1>1, <1>6, <1>9, <1>10 DEF IdleState, TypeOK, z
  <2>. QED
    BY <2>1, <2>2, <2>3, <2>4 DEF IdleState
<1>19. AllLinked'
  <2>1. \A u \in AllThreads : Linked(u)' <=> Linked(u)
    BY <1>1 DEF Linked
  <2>2. \A u \in AllThreads : state'[u] # "none" /\ u # thread_to_delete' => state[u] # "none" /\ u # z
    BY <1>6, <1>9, <1>10
  <2>. QED
    BY <2>1, <2>2 DEF AllLinked, z
<1>. QED
  BY <1>12, <1>13, <1>14, <1>15, <1>16, <1>17, <1>18, <1>19 DEF Parts

\* A stuttering step.
LEMMA StutterParts == ASSUME Inv, UNCHANGED vars PROVE Parts'
<1>1. MutexExclusion' /\ QueueLocked'
  BY Zenon DEF Inv, vars, MutexExclusion, Owns, QueueLocked
<1>. QED
  BY <1>1, SMTT(30) DEF Inv, vars, Parts, OnlyCurrentRuns, WaitersQueued, StatePc, CurrentState, IdleState,
             AllLinked, Linked

\* Every step of the system keeps the invariant.
LEMMA NextInv == Inv /\ [Next]_vars => Inv'
<1> SUFFICES ASSUME Inv, [Next]_vars PROVE Inv'
  OBVIOUS
<1>1. TypeOK'
  BY NextType DEF Inv
<1>2. Parts'
  <2>1. CASE Boot
    BY <2>1, CreateParts, IdleLoopParts DEF Boot
  <2>2. CASE timer_handler
    BY <2>2, TimerEffect, SwitchParts
  <2>3. ASSUME NEW t \in Threads, ThreadCode(t) \/ vmm_not_found(t) \/ hcf(t) PROVE Parts'
    <3>1. t \in AllThreads
      BY ThreadSets
    <3>. QED
      BY <2>3, <3>1, EnterParts, OomParts, VmmParts, StopParts, YieldEffect, SwitchParts DEF ThreadCode
  <2>4. ASSUME NEW t \in AllThreads, KernelStep(t) PROVE Parts'
    BY <2>4, EnterParts, LeaveParts, VmmParts, YieldEffect, SwitchParts, ReapParts, IdleLoopParts
    DEF KernelStep
  <2>5. CASE UNCHANGED vars
    BY <2>5, StutterParts
  <2>. QED
    BY <2>1, <2>2, <2>3, <2>4, <2>5 DEF Next
<1>. QED
  BY <1>1, <1>2 DEF Inv, Parts

\* Every reachable state of the kernel satisfies the invariant.
LEMMA InvAlways == Spec => []Inv
BY InitInv, NextInv, PTL DEF Spec

\* A switch never leaves two threads RUNNING, for any number of threads.
THEOREM OneRunning == Spec => []OnlyCurrentRuns
<1>1. Inv => OnlyCurrentRuns
  BY DEF Inv
<1>. QED
  BY <1>1, InvAlways, PTL

\* The heap mutex has one owner at a time, and is marked locked exactly while
\* it has one, for any number of threads and any interleaving.
THEOREM MutualExclusion == Spec => []MutexExclusion
<1>1. Inv => MutexExclusion
  BY DEF Inv
<1>. QED
  BY <1>1, InvAlways, PTL

\* No waiter of the heap mutex is lost: a thread is BLOCKED exactly while it is
\* in the waiting queue, once.
THEOREM NoLostWaiter == Spec => []WaitersQueued
<1>1. Inv => WaitersQueued
  BY DEF Inv
<1>. QED
  BY <1>1, InvAlways, PTL

\* The search of the scheduler always finds a thread: when the idle thread is
\* BLOCKED the mutex is locked, and its owner is READY or RUNNING.
THEOREM SearchFinds == Spec => []NoFreeze
<1>1. Inv => NoFreeze
  <2> SUFFICES ASSUME Inv PROVE NoFreeze
    OBVIOUS
  <2>1. \E t \in AllThreads : state[t] \in {"READY", "RUNNING"}
    <3>1. CASE state[Idle] # "BLOCKED"
      BY <3>1, ThreadSets DEF Inv, IdleState
    <3>2. CASE state[Idle] = "BLOCKED"
      <4>1. InList(waiting_queue, Idle)
        BY <3>2, ThreadSets DEF Inv, WaitersQueued
      <4>2. waiting_queue # <<>>
        BY <4>1 DEF InList
      <4>3. PICK t \in AllThreads : Owns(t)
        BY <4>2, Zenon DEF Inv, QueueLocked, MutexExclusion
      <4>. QED
        BY <4>3 DEF Inv, Owns, StatePc
    <3>. QED
      BY <3>1, <3>2
  <2>2. PICK t \in AllThreads : state[t] \in {"READY", "RUNNING"}
    BY <2>1
  <2>3. t # thread_to_delete
    BY <2>2, ThreadSets DEF Inv, IdleState, TypeOK
  <2>. QED
    BY <2>2, <2>3 DEF Inv, AllLinked, NoFreeze
<1>. QED
  BY <1>1, InvAlways, PTL

-----------------------------------------------------------------------------
(* What follows from the invariant step by step. *)

\* A zombie stays one, until it is freed.
StaysZombie == \A t \in AllThreads : state[t] = "ZOMBIE" => state'[t] \in {"ZOMBIE", "none"}

\* kmalloc and kfree are entered by the RUNNING thread, which is no zombie.
LEMMA EnterZombie == ASSUME Inv, NEW t \in AllThreads, heap_enter(t) PROVE StaysZombie
<1>1. state[t] = "RUNNING"
  BY DEF Inv, heap_enter, CallsHeap, CurrentState
<1>2. state' = state \/ state' = [state EXCEPT ![t] = "BLOCKED"]
  BY EnterEffect, Zenon
<1>. QED
  BY <1>1, <1>2 DEF Inv, TypeOK, StaysZombie

\* mutex_release wakes a BLOCKED thread, and the idle thread's kfree ends a zombie.
LEMMA LeaveZombie == ASSUME Inv, NEW t \in AllThreads, heap_leave(t) PROVE StaysZombie
<1>1. waiting_queue # <<>> => /\ Head(waiting_queue) \in AllThreads
                              /\ state[Head(waiting_queue)] = "BLOCKED"
  <2>1. waiting_queue \in Seq(AllThreads) /\ IsInjective(waiting_queue)
    BY DEF Inv, TypeOK, WaitersQueued
  <2>. QED
    BY <2>1, LeaveQueue DEF Inv, WaitersQueued
<1>2. \A u \in AllThreads : state[u] = "ZOMBIE" => Woken[u] = "ZOMBIE"
  BY <1>1 DEF Woken, Inv, TypeOK
<1>3. Woken \in [AllThreads -> thread_state \cup {"none"}]
  BY DEF Inv, TypeOK, Woken, thread_state
<1>4. state' = Woken \/ state' = [Woken EXCEPT ![thread_to_delete] = "none"]
  BY DEF heap_leave
<1>. QED
  BY <1>2, <1>3, <1>4 DEF StaysZombie

\* No step of the system makes a zombie anything else, but for its end.
LEMMA StepZombie == ASSUME Inv, [Next]_vars PROVE StaysZombie
<1>1. CASE Boot
  <2>1. ASSUME NEW k \in Tasks, NEW t \in Threads, task_create_thread(k, t) PROVE StaysZombie
    <3>1. state[t] = "none" /\ state' = [state EXCEPT ![t] = "READY"]
      BY <2>1, ThreadSets DEF task_create_thread, Inv, StatePc
    <3>. QED
      BY <3>1 DEF Inv, TypeOK, StaysZombie
  <2>2. ASSUME (\E k \in Tasks : task_create(k)) \/ sti PROVE StaysZombie
    BY <2>2 DEF task_create, sti, StaysZombie
  <2>. QED
    BY <1>1, <2>1, <2>2 DEF Boot
<1>2. ASSUME SwitchEffect PROVE StaysZombie
  BY <1>2 DEF SwitchEffect, StaysZombie
<1>3. ASSUME NEW t \in AllThreads,
             (\E ms \in 0..MaxSleep : thread_sleep(t, ms)) \/ task_current_thread_exit(t)
      PROVE  StaysZombie
  <2>1. state[t] = "RUNNING"
    BY <1>3 DEF thread_sleep, task_current_thread_exit, Inv, CurrentState
  <2>2. state' = [state EXCEPT ![t] = "SLEEPING"] \/ state' = [state EXCEPT ![t] = "ZOMBIE"]
    BY <1>3, SMTT(20) DEF thread_sleep, task_current_thread_exit
  <2>. QED
    BY <2>1, <2>2 DEF Inv, TypeOK, StaysZombie
<1>4. ASSUME NEW t \in AllThreads,
             \/ vmm_call(t) \/ vmm_lock(t) \/ vmm_not_found(t) \/ hcf(t) \/ vmm_unlock(t)
             \/ page_fault(t) \/ vmm_page_fault_handler(t)
             \/ reap \/ no_zombie \/ hlt
      PROVE  StaysZombie
  BY <1>4 DEF vmm_call, vmm_lock, vmm_not_found, hcf, vmm_unlock, page_fault, vmm_page_fault_handler,
              reap, no_zombie, hlt, StaysZombie
<1>5. CASE timer_handler
  BY <1>5, <1>2, TimerEffect
<1>6. ASSUME NEW t \in Threads, ThreadCode(t) \/ vmm_not_found(t) \/ hcf(t) PROVE StaysZombie
  <2>1. t \in AllThreads
    BY ThreadSets
  <2>. QED
    BY <1>2, <1>3, <1>4, <1>6, <2>1, EnterZombie, YieldEffect DEF ThreadCode
<1>7. ASSUME NEW t \in AllThreads, KernelStep(t) PROVE StaysZombie
  BY <1>2, <1>4, <1>7, EnterZombie, LeaveZombie, YieldEffect DEF KernelStep
<1>8. CASE UNCHANGED vars
  BY <1>8 DEF vars, StaysZombie
<1>. QED
  BY <1>1, <1>5, <1>6, <1>7, <1>8 DEF Next

\* A thread that has exited never runs again, for any number of threads and any
\* interleaving (scheduler_schedule, mutex_release and the timer).
THEOREM ExitIsFinal == Spec => ZombieIsFinal
<1>1. Inv /\ [Next]_vars =>
         [\A t \in AllThreads : state[t] = "ZOMBIE" => state'[t] \in {"ZOMBIE", "none"}]_vars
  BY StepZombie DEF StaysZombie
<1>. QED
  BY <1>1, InvAlways, PTL DEF Spec, ZombieIsFinal

-----------------------------------------------------------------------------
(* The heap mutex implements FifoMutex. *)

\* The owner of FifoMutex.
Owner == IF \E t \in AllThreads : Owns(t) THEN CHOOSE t \in AllThreads : Owns(t) ELSE NULL

\* A step that neither takes, waits for, nor leaves the heap.
Aside == /\ waiting_queue' = waiting_queue
         /\ \A t \in AllThreads : Owns(t)' <=> Owns(t)

\* The mutex has one owner, or none.
LEMMA OwnerIs ==
    ASSUME MutexExclusion
    PROVE  /\ \A t \in AllThreads : Owns(t) => Owner = t
           /\ (\A t \in AllThreads : ~ Owns(t)) => Owner = NULL
<1>1. ASSUME NEW t \in AllThreads, Owns(t) PROVE Owner = t
  <2>1. /\ (CHOOSE u \in AllThreads : Owns(u)) \in AllThreads
        /\ Owns(CHOOSE u \in AllThreads : Owns(u))
    BY <1>1, Zenon
  <2>. QED
    BY <1>1, <2>1, Zenon DEF Owner, MutexExclusion
<1>2. ASSUME \A t \in AllThreads : ~ Owns(t) PROVE Owner = NULL
  BY <1>2, Zenon DEF Owner
<1>. QED
  BY <1>1, <1>2

\* So it has after a step.
LEMMA OwnerBecomes ==
    ASSUME MutexExclusion'
    PROVE  /\ \A t \in AllThreads : Owns(t)' => Owner' = t
           /\ (\A t \in AllThreads : ~ Owns(t)') => Owner' = NULL
<1>1. ASSUME NEW t \in AllThreads, Owns(t)' PROVE Owner' = t
  <2> DEFINE Holds(u) == pc'[u] \in {"block", "heap", "oom"} /\ state'[u] # "BLOCKED"
             c == CHOOSE u \in AllThreads : Holds(u)
  <2>1. Owner' = c
    BY <1>1, Zenon DEF Owner, Owns
  <2>2. c \in AllThreads /\ Holds(c)
    BY <1>1, Zenon DEF Owns
  <2> HIDE DEF c
  <2>3. \A u \in AllThreads : Holds(u) => u = t
    BY <1>1, Zenon DEF MutexExclusion, Owns
  <2>. QED
    BY <2>1, <2>2, <2>3
<1>2. ASSUME \A t \in AllThreads : ~ Owns(t)' PROVE Owner' = NULL
  BY <1>2, Zenon DEF Owner
<1>. QED
  BY <1>1, <1>2

\* mutex_acquire makes the caller the owner of the free mutex, or the last of
\* those who wait for the locked one.
LEMMA EnterMaps ==
    ASSUME Inv, Inv', NEW t \in AllThreads, heap_enter(t)
    PROVE  \/ Owner = NULL /\ Owner' = t /\ waiting_queue' = waiting_queue
           \/ /\ Owner \notin {NULL, t} /\ ~ InList(waiting_queue, t)
              /\ waiting_queue' = Append(waiting_queue, t) /\ Owner' = Owner
<1>1. pc[t] \notin {"block", "heap", "oom"} /\ state[t] = "RUNNING"
  BY DEF heap_enter, CallsHeap, Inv, CurrentState
<1>2. MutexExclusion /\ MutexExclusion'
  BY DEF Inv
<1>3. CASE /\ ~ is_locked /\ waiting_queue' = waiting_queue /\ state' = state
           /\ pc' = [pc EXCEPT ![t] = "heap"]
  <2>1. \A u \in AllThreads : ~ Owns(u)
    BY <1>2, <1>3, Zenon DEF MutexExclusion
  <2>2. Owns(t)'
    BY <1>1, <1>3 DEF Owns, Inv, TypeOK
  <2>. QED
    BY <1>2, <1>3, <2>1, <2>2, OwnerIs, OwnerBecomes
<1>4. CASE /\ is_locked /\ waiting_queue' = Append(waiting_queue, t)
           /\ state' = [state EXCEPT ![t] = "BLOCKED"]
           /\ pc' = [pc EXCEPT ![t] = "block"]
  <2>1. PICK u \in AllThreads : Owns(u)
    BY <1>2, <1>4, Zenon DEF MutexExclusion
  <2>2. u # t
    BY <1>1, <2>1, SMTT(20) DEF Owns
  <2>3. Owns(u)'
    BY <1>4, <2>1, <2>2 DEF Owns, Inv, TypeOK
  <2>4. Owner = u /\ Owner' = u /\ u # NULL
    BY <1>2, <2>1, <2>3, OwnerIs, OwnerBecomes, ThreadSets
  <2>5. ~ InList(waiting_queue, t)
    BY <1>1 DEF Inv, WaitersQueued
  <2>. QED
    BY <1>4, <2>2, <2>4, <2>5
<1>. QED
  BY <1>3, <1>4, EnterEffect, Zenon

\* mutex_release makes the first of those who wait the owner, or frees the mutex.
LEMMA LeaveMaps ==
    ASSUME Inv, Inv', NEW t \in AllThreads, heap_leave(t)
    PROVE  /\ Owner # NULL
           /\ \/ waiting_queue = <<>> /\ Owner' = NULL /\ waiting_queue' = waiting_queue
              \/ waiting_queue # <<>> /\ Owner' = Head(waiting_queue) /\ waiting_queue' = Tail(waiting_queue)
<1>1. t = thread_current /\ pc[t] = "heap" /\ state[t] = "RUNNING"
  BY DEF heap_leave, Inv, CurrentState
<1>2. MutexExclusion /\ MutexExclusion'
  BY DEF Inv
<1>3. Owner # NULL
  BY <1>1, <1>2, OwnerIs, ThreadSets DEF Owns
<1>4. CASE waiting_queue = <<>> /\ waiting_queue' = waiting_queue /\ ~ is_locked'
  <2>1. \A u \in AllThreads : ~ Owns(u)'
    BY <1>2, <1>4, Zenon DEF MutexExclusion
  <2>. QED
    BY <1>2, <1>3, <1>4, <2>1, OwnerBecomes
<1>5. CASE waiting_queue # <<>> /\ waiting_queue' = Tail(waiting_queue)
  <2>1. PICK h \in AllThreads : /\ h = Head(waiting_queue) /\ h # t
                                /\ state[h] = "BLOCKED" /\ pc[h] \in {"block", "heap"}
    <3>1. waiting_queue \in Seq(AllThreads) /\ IsInjective(waiting_queue)
      BY DEF Inv, TypeOK, WaitersQueued
    <3>. QED
      BY <1>1, <1>5, <3>1, LeaveQueue DEF Inv, WaitersQueued, StatePc
  <2>2. pc'[h] = pc[h]
    BY <2>1 DEF heap_leave, Goto, Inv, TypeOK
  <2>3. state'[h] = "READY"
    <3>1. Woken = [state EXCEPT ![h] = "READY"]
      BY <1>5, <2>1 DEF Woken
    <3>2. FreesZombie(t) => thread_to_delete # h
      BY <1>1, <2>1 DEF FreesZombie, Inv, IdleState
    <3>3. IF FreesZombie(t) THEN state' = [Woken EXCEPT ![thread_to_delete] = "none"] ELSE state' = Woken
      BY DEF heap_leave
    <3>. QED
      BY <2>1, <3>1, <3>2, <3>3 DEF Inv, TypeOK
  <2>4. Owns(h)'
    BY <2>1, <2>2, <2>3 DEF Owns
  <2>. QED
    BY <1>2, <1>3, <1>5, <2>1, <2>4, OwnerBecomes, SMTT(20)
<1>. QED
  BY <1>4, <1>5, LeaveEffect, Zenon

\* The other steps leave the owners and the queue as they are.
LEMMA AsideMaps ==
    ASSUME Inv, Inv', Aside
    PROVE  Owner' = Owner /\ waiting_queue' = waiting_queue
<1>1. MutexExclusion /\ MutexExclusion'
  BY DEF Inv
<1>2. CASE \E t \in AllThreads : Owns(t)
  BY <1>1, <1>2, OwnerIs, OwnerBecomes DEF Aside
<1>3. CASE \A t \in AllThreads : ~ Owns(t)
  BY <1>1, <1>3, OwnerIs, OwnerBecomes DEF Aside
<1>. QED
  BY <1>2, <1>3 DEF Aside

\* Code that leaves the states alone and moves between plain labels is aside.
LEMMA PlainAside ==
    ASSUME Inv, NEW t \in AllThreads,
           \/ vmm_call(t) \/ vmm_lock(t) \/ vmm_not_found(t) \/ hcf(t) \/ vmm_unlock(t)
           \/ page_fault(t) \/ vmm_page_fault_handler(t)
           \/ reap \/ no_zombie \/ hlt \/ sti \/ (\E k \in Tasks : task_create(k))
    PROVE  Aside
<1>1. state' = state /\ waiting_queue' = waiting_queue
  BY Zenon DEF vmm_call, vmm_lock, vmm_not_found, hcf, vmm_unlock, page_fault, vmm_page_fault_handler,
         reap, no_zombie, hlt, sti, task_create, mutex
<1>2. \/ pc' = pc
      \/ \E u \in AllThreads, l \in Plain : pc[u] \in Plain /\ pc' = [pc EXCEPT ![u] = l]
      \/ \E u \in AllThreads : pc[u] = "heap" /\ pc' = [pc EXCEPT ![u] = "oom"]
  <2>0. CASE hcf(t) /\ pc[t] = "heap"
    BY <2>0 DEF hcf, Goto
  <2>1. CASE \/ vmm_call(t) \/ vmm_lock(t) \/ vmm_not_found(t) \/ (hcf(t) /\ pc[t] # "heap")
             \/ vmm_unlock(t) \/ page_fault(t) \/ vmm_page_fault_handler(t)
    <3>1. pc[t] \in Plain /\ \E l \in Plain : pc' = [pc EXCEPT ![t] = l]
      BY <2>1 DEF vmm_call, vmm_lock, vmm_not_found, hcf, vmm_unlock, page_fault,
                  vmm_page_fault_handler, Goto, Plain
    <3>. QED
      BY <3>1, Zenon
  <2>2. CASE reap \/ no_zombie \/ hlt \/ sti
    <3>1. pc[Idle] \in Plain /\ \E l \in Plain : pc' = [pc EXCEPT ![Idle] = l]
      BY <2>2 DEF reap, no_zombie, hlt, sti, Goto, Plain
    <3>. QED
      BY <3>1, ThreadSets, Zenon
  <2>3. CASE \E k \in Tasks : task_create(k)
    BY <2>3 DEF task_create
  <2>. QED
    BY <2>0, <2>1, <2>2, <2>3
<1>. QED
  BY <1>1, <1>2, SMTT(20) DEF Aside, Owns, Plain, Inv, TypeOK

\* So is a creation, a switch, a sleep and an exit.
LEMMA OtherAside ==
    ASSUME Inv,
           \/ SwitchEffect
           \/ \E k \in Tasks, t \in Threads : task_create_thread(k, t)
           \/ \E t \in AllThreads : \/ \E ms \in 0..MaxSleep : thread_sleep(t, ms)
                                    \/ task_current_thread_exit(t)
           \/ UNCHANGED vars
    PROVE  Aside
<1>1. CASE SwitchEffect
  BY <1>1 DEF SwitchEffect, Aside, Owns
<1>2. ASSUME NEW k \in Tasks, NEW t \in Threads, task_create_thread(k, t) PROVE Aside
  <2>1. /\ t \in AllThreads /\ pc[t] = "none" /\ waiting_queue' = waiting_queue
        /\ pc' = [pc EXCEPT ![t] = "run"] /\ state' = [state EXCEPT ![t] = "READY"]
    BY <1>2, ThreadSets DEF task_create_thread, Goto, mutex
  <2>. QED
    BY <2>1 DEF Aside, Owns, Inv, TypeOK
<1>3. ASSUME NEW t \in AllThreads,
             (\E ms \in 0..MaxSleep : thread_sleep(t, ms)) \/ task_current_thread_exit(t)
      PROVE  Aside
  <2>1. PICK s \in {"SLEEPING", "ZOMBIE"}, l \in {"sleep", "exit"} :
            state' = [state EXCEPT ![t] = s] /\ pc' = [pc EXCEPT ![t] = l]
    BY <1>3 DEF thread_sleep, task_current_thread_exit, Goto
  <2>2. waiting_queue' = waiting_queue /\ pc[t] = "run"
    BY <1>3 DEF thread_sleep, task_current_thread_exit, mutex
  <2>. QED
    BY <2>1, <2>2 DEF Aside, Owns, Inv, TypeOK
<1>4. CASE UNCHANGED vars
  BY <1>4 DEF vars, Aside, Owns
<1>. QED
  BY <1>1, <1>2, <1>3, <1>4

\* Every step of the system is a step of FifoMutex, or leaves it as it is.
LEMMA StepMaps == ASSUME Inv, Inv', [Next]_vars PROVE [Heap!Next]_<<Owner, waiting_queue>>
<1>1. ASSUME NEW t \in AllThreads, heap_enter(t) PROVE Heap!Next
  BY <1>1, EnterMaps DEF Heap!Next, Heap!Acquire, InList, Owner
<1>2. ASSUME NEW t \in AllThreads, heap_leave(t) PROVE Heap!Next
  BY <1>2, LeaveMaps DEF Heap!Next, Heap!Release, Owner
<1>3. ASSUME Aside PROVE UNCHANGED <<Owner, waiting_queue>>
  BY <1>3, AsideMaps
<1>4. CASE Boot
  BY <1>3, <1>4, PlainAside, OtherAside, ThreadSets DEF Boot
<1>5. CASE timer_handler
  BY <1>3, <1>5, TimerEffect, OtherAside
<1>6. ASSUME NEW t \in Threads, ThreadCode(t) \/ vmm_not_found(t) \/ hcf(t)
      PROVE  [Heap!Next]_<<Owner, waiting_queue>>
  <2>1. t \in AllThreads
    BY ThreadSets
  <2>2. \/ heap_enter(t)
        \/ vmm_call(t) \/ page_fault(t) \/ vmm_not_found(t) \/ hcf(t)
        \/ \E ms \in 0..MaxSleep : thread_sleep(t, ms)
        \/ task_current_thread_exit(t)
        \/ scheduler_yield(t)
    BY <1>6 DEF ThreadCode
  <2>. QED
    BY <1>1, <1>3, <2>1, <2>2, PlainAside, OtherAside, YieldEffect
<1>7. ASSUME NEW t \in AllThreads, KernelStep(t) PROVE [Heap!Next]_<<Owner, waiting_queue>>
  BY <1>1, <1>2, <1>3, <1>7, PlainAside, OtherAside, YieldEffect DEF KernelStep
<1>8. CASE UNCHANGED vars
  BY <1>3, <1>8, OtherAside
<1>. QED
  BY <1>4, <1>5, <1>6, <1>7, <1>8 DEF Next

\* The heap mutex is a first-in first-out mutex with hand-over (FifoMutex), for
\* any number of threads and any interleaving (mutex_acquire, mutex_release).
THEOREM HeapIsFifo == Spec => HeapMutexIsFifo
<1>1. Init => Heap!Init
  <2> SUFFICES ASSUME Init PROVE Heap!Init
    OBVIOUS
  <2>1. \A t \in AllThreads : ~ Owns(t)
    BY DEF Init, Owns
  <2>2. MutexExclusion
    BY InitInv DEF Inv
  <2>3. Owner = NULL
    BY <2>1, <2>2, OwnerIs
  <2>. QED
    BY <2>3 DEF Heap!Init, Owner, Init
<1>2. Inv /\ Inv' /\ [Next]_vars => [Heap!Next]_<<Owner, waiting_queue>>
  BY StepMaps
<1>. QED
  BY <1>1, <1>2, InvAlways, PTL DEF Spec, HeapMutexIsFifo, Heap!Spec, Owner

-----------------------------------------------------------------------------
(* The reaper: a thread is in the lists once, so an unlinked one is out.   *)

\* A thread is in one place of one list.
Once == \A k, l \in AllTasks : \A i \in 1..Len(threads[k]), j \in 1..Len(threads[l]) :
           threads[k][i] = threads[l][j] => k = l /\ i = j

\* A listed thread exists and is not being freed.
Alive == \A k \in AllTasks : \A i \in 1..Len(threads[k]) :
            threads[k][i] # thread_to_delete /\ state[threads[k][i]] # "none"

\* A thread that exists and is not being freed has its stack.
Kept == \A t \in AllThreads : state[t] # "none" /\ t # thread_to_delete => t \in stacks

Reaps == Once /\ Alive /\ Kept

\* scheduler_init lists the idle thread only.
LEMMA InitReaps == Init => Reaps
<1> SUFFICES ASSUME Init PROVE Reaps
  OBVIOUS
<1>1. \A k \in AllTasks : /\ k = IdleTask => threads[k] = <<Idle>>
                          /\ k # IdleTask => threads[k] = <<>>
  BY DEF Init
<1>2. \A k \in AllTasks : \A i \in 1..Len(threads[k]) : k = IdleTask /\ i = 1 /\ threads[k][i] = Idle
  <2>1. Len(<<Idle>>) = 1 /\ <<Idle>>[1] = Idle /\ 1..1 = {1} /\ 1..0 = {}
    OBVIOUS
  <2>2. \A k \in AllTasks : k # IdleTask => 1..Len(threads[k]) = {}
    BY <1>1
  <2>. QED
    BY <1>1, <2>1, <2>2, Zenon
<1>3. Once
  BY <1>2, Zenon DEF Once
<1>4. Alive /\ Kept
  BY <1>2, ThreadSets DEF Init, Alive, Kept
<1>. QED
  BY <1>3, <1>4 DEF Reaps

\* A step that leaves the lists alone, ends no thread and unmaps no stack but the
\* zombie's.
LEMMA CalmReaps ==
    ASSUME Inv, Reaps, UNCHANGED <<threads, thread_to_delete>>,
           \A t \in AllThreads : state'[t] = "none" <=> state[t] = "none",
           \A t \in stacks : t # thread_to_delete => t \in stacks'
    PROVE  Reaps'
<1>1. \A k \in AllTasks : \A i \in 1..Len(threads[k]) : threads[k][i] \in AllThreads
  BY SMTT(20) DEF Inv, TypeOK
<1>2. Once' /\ Kept'
  BY DEF Reaps, Once, Kept
<1>3. Alive'
  BY <1>1 DEF Reaps, Alive
<1>. QED
  BY <1>2, <1>3 DEF Reaps

\* Most steps are of that kind: creation of a task, plain code, mutex_acquire,
\* switches, sleep and exit.
LEMMA PlainReaps ==
    ASSUME Inv, Reaps, NEW t \in AllThreads,
           \/ vmm_call(t) \/ vmm_lock(t) \/ vmm_not_found(t) \/ hcf(t) \/ vmm_unlock(t)
           \/ page_fault(t) \/ vmm_page_fault_handler(t)
           \/ no_zombie \/ hlt \/ sti \/ (\E k \in Tasks : task_create(k))
    PROVE  Reaps'
<1>1. UNCHANGED <<threads, thread_to_delete, state>>
  BY Zenon DEF vmm_call, vmm_lock, vmm_not_found, hcf, vmm_unlock, page_fault, vmm_page_fault_handler,
         no_zombie, hlt, sti, task_create, lists, reaper
<1>2. stacks' = stacks \/ stacks' = stacks \ {thread_to_delete}
  BY SMTT(60) DEF vmm_call, vmm_lock, vmm_not_found, hcf, vmm_unlock, page_fault, vmm_page_fault_handler,
         no_zombie, hlt, sti, task_create, reaper
<1>. QED
  BY <1>1, <1>2, CalmReaps, SMTT(20)

\* A switch ends no thread.
LEMMA SwitchReaps == ASSUME Inv, Reaps, SwitchEffect, stacks' = stacks PROVE Reaps'
<1>1. \A t \in AllThreads : state'[t] = "none" <=> state[t] = "none"
  BY Zenon DEF SwitchEffect
<1>. QED
  BY <1>1, CalmReaps, Zenon DEF SwitchEffect

\* The executing thread is RUNNING before it sleeps, exits or waits.
LEMMA StopReaps ==
    ASSUME Inv, Reaps, NEW t \in AllThreads,
           \/ \E ms \in 0..MaxSleep : thread_sleep(t, ms)
           \/ task_current_thread_exit(t)
           \/ heap_enter(t)
    PROVE  Reaps'
<1>1. state[t] = "RUNNING"
  BY DEF thread_sleep, task_current_thread_exit, heap_enter, CallsHeap, Inv, CurrentState
<1>2. UNCHANGED <<threads, thread_to_delete, stacks>>
  BY DEF thread_sleep, task_current_thread_exit, heap_enter, lists, reaper
<1>3. state' = state \/ \E s \in {"SLEEPING", "ZOMBIE", "BLOCKED"} : state' = [state EXCEPT ![t] = s]
  <2>1. CASE heap_enter(t)
    BY <2>1, EnterEffect, Zenon
  <2>2. CASE (\E ms \in 0..MaxSleep : thread_sleep(t, ms)) \/ task_current_thread_exit(t)
    BY <2>2 DEF thread_sleep, task_current_thread_exit
  <2>. QED
    BY <2>1, <2>2
<1>4. \A u \in AllThreads : state'[u] = "none" <=> state[u] = "none"
  BY <1>1, <1>3 DEF Inv, TypeOK
<1>. QED
  BY <1>2, <1>4, CalmReaps, Zenon

\* task_create_thread lists a thread that was in no list.
LEMMA CreateReaps ==
    ASSUME Inv, Reaps, NEW n \in Tasks, NEW t \in Threads, task_create_thread(n, t)
    PROVE  Reaps'
<1>1. t \in AllThreads /\ n \in AllTasks /\ pc[t] = "none" /\ state[t] = "none"
  BY ThreadSets DEF task_create_thread, Inv, StatePc, AllTasks
<1>2. /\ threads' = [threads EXCEPT ![n] = Append(@, t)]
      /\ state' = [state EXCEPT ![t] = "READY"]
      /\ stacks' = stacks \cup {t} /\ thread_to_delete' = thread_to_delete
  BY DEF task_create_thread
<1>3. /\ threads \in [AllTasks -> Seq(AllThreads)] /\ state \in [AllThreads -> thread_state \cup {"none"}]
      /\ \A k \in AllTasks : \A i \in 1..Len(threads[k]) : threads[k][i] \in AllThreads /\ threads[k][i] # t
  BY <1>1 DEF Inv, TypeOK, Reaps, Alive
<1>4. t # thread_to_delete
  BY <1>1, ThreadSets DEF Inv, IdleState
<1>5. /\ Len(threads[n]) \in Nat /\ Len(threads'[n]) = Len(threads[n]) + 1
      /\ threads'[n][Len(threads[n]) + 1] = t
      /\ \A i \in 1..Len(threads[n]) : threads'[n][i] = threads[n][i]
      /\ \A k \in AllTasks : k # n => threads'[k] = threads[k]
  BY <1>1, <1>2, <1>3
<1>6. \A k \in AllTasks : \A i \in 1..Len(threads'[k]) :
         \/ i \in 1..Len(threads[k]) /\ threads'[k][i] = threads[k][i]
         \/ k = n /\ i = Len(threads[n]) + 1 /\ threads'[k][i] = t
  BY <1>5
<1>7. Once'
  <2> SUFFICES ASSUME NEW k \in AllTasks, NEW l \in AllTasks,
                      NEW i \in 1..Len(threads'[k]), NEW j \in 1..Len(threads'[l]),
                      threads'[k][i] = threads'[l][j]
               PROVE  k = l /\ i = j
    BY DEF Once
  <2>1. /\ \/ i \in 1..Len(threads[k]) /\ threads'[k][i] = threads[k][i]
           \/ k = n /\ i = Len(threads[n]) + 1 /\ threads'[k][i] = t
        /\ \/ j \in 1..Len(threads[l]) /\ threads'[l][j] = threads[l][j]
           \/ l = n /\ j = Len(threads[n]) + 1 /\ threads'[l][j] = t
    BY <1>6, Zenon
  <2>2. CASE i \in 1..Len(threads[k]) /\ j \in 1..Len(threads[l])
             /\ threads'[k][i] = threads[k][i] /\ threads'[l][j] = threads[l][j]
    <3>1. threads[k][i] = threads[l][j]
      BY <2>2
    <3>2. Once
      BY DEF Reaps
    <3>. QED
      BY <2>2, <3>1, <3>2 DEF Once
  <2>3. /\ i \in 1..Len(threads[k]) => threads[k][i] # t
        /\ j \in 1..Len(threads[l]) => threads[l][j] # t
    BY <1>3, Zenon
  <2>. QED
    BY <2>1, <2>2, <2>3, Zenon
<1>8. Alive'
  BY <1>1, <1>2, <1>3, <1>4, <1>6 DEF Reaps, Alive
<1>9. Kept'
  BY <1>2, <1>3 DEF Reaps, Kept
<1>. QED
  BY <1>7, <1>8, <1>9, SMTT(20) DEF Reaps

\* The reaper takes the only place of the zombie in the lists.
LEMMA ReapReaps == ASSUME Inv, Reaps, reap PROVE Reaps'
<1>0. PICK n \in AllTasks : \E p \in 1..Len(threads[n]) :
         /\ thread_to_delete' = threads[n][p]
         /\ threads' = [threads EXCEPT ![n] = Unlink(@, p)]
  <2>1. \A k \in 1..Len(task_list) : task_list[k] \in AllTasks
    BY DEF Inv, TypeOK
  <2>. QED
    BY <2>1, Zenon DEF reap
<1>1. PICK p \in 1..Len(threads[n]) : /\ thread_to_delete' = threads[n][p]
                                      /\ threads' = [threads EXCEPT ![n] = Unlink(@, p)]
  BY <1>0, Zenon
<1>2. UNCHANGED <<state, stacks>> /\ thread_to_delete = NULL
  BY DEF reap, Inv, IdleState
<1>3. threads \in [AllTasks -> Seq(AllThreads)]
  BY DEF Inv, TypeOK
<1>4. threads'[n] = Unlink(threads[n], p) /\ \A k \in AllTasks : k # n => threads'[k] = threads[k]
  BY <1>1, <1>3, Zenon
<1>5. /\ Len(threads[n]) \in Nat /\ Len(threads'[n]) = Len(threads[n]) - 1
      /\ \A i \in 1..(Len(threads[n]) - 1) :
            threads'[n][i] = IF i < p THEN threads[n][i] ELSE threads[n][i + 1]
  <2>1. threads[n] \in Seq(AllThreads)
    BY <1>3
  <2>. QED
    BY <1>4, <2>1, UnlinkSeq
<1> DEFINE Old(k, i) == IF k = n /\ i >= p THEN i + 1 ELSE i
<1>6. \A k \in AllTasks : \A i \in 1..Len(threads'[k]) :
         /\ Old(k, i) \in 1..Len(threads[k]) /\ threads'[k][i] = threads[k][Old(k, i)]
         /\ k = n => Old(k, i) # p
  <2> SUFFICES ASSUME NEW k \in AllTasks, NEW i \in 1..Len(threads'[k])
               PROVE  /\ Old(k, i) \in 1..Len(threads[k]) /\ threads'[k][i] = threads[k][Old(k, i)]
                      /\ k = n => Old(k, i) # p
    OBVIOUS
  <2>1. CASE k = n
    <3>1. /\ i \in 1..(Len(threads[n]) - 1) /\ i \in Int /\ p \in Int /\ Len(threads[n]) \in Int
          /\ threads'[n][i] = IF i < p THEN threads[n][i] ELSE threads[n][i + 1]
      BY <1>5, <2>1
    <3>2. CASE i < p
      BY <2>1, <3>1, <3>2
    <3>3. CASE i >= p
      <4>1. ~ (i < p) /\ i + 1 \in 1..Len(threads[n]) /\ i + 1 # p
        BY <3>1, <3>3
      <4>. QED
        BY <2>1, <3>1, <3>3, <4>1
    <3>. QED
      BY <3>1, <3>2, <3>3
  <2>2. CASE k # n
    BY <1>4, <2>2
  <2>. QED
    BY <2>1, <2>2
<1>7. \A k \in AllTasks : \A i, j \in 1..Len(threads'[k]) : Old(k, i) = Old(k, j) => i = j
  <2>1. ASSUME NEW k \in AllTasks, NEW i \in 1..Len(threads'[k]), NEW j \in 1..Len(threads'[k]),
               Old(k, i) = Old(k, j)
        PROVE  i = j
    <3>1. i \in Int /\ j \in Int /\ p \in Int
      OBVIOUS
    <3>. QED
      BY <2>1, <3>1
  <2> HIDE DEF Old
  <2>. QED
    BY <2>1
<1> HIDE DEF Old
<1>8. Once'
  <2> SUFFICES ASSUME NEW k \in AllTasks, NEW l \in AllTasks,
                      NEW i \in 1..Len(threads'[k]), NEW j \in 1..Len(threads'[l]),
                      threads'[k][i] = threads'[l][j]
               PROVE  k = l /\ i = j
    BY DEF Once
  <2>1. k = l /\ Old(k, i) = Old(l, j)
    <3>1. /\ Old(k, i) \in 1..Len(threads[k]) /\ Old(l, j) \in 1..Len(threads[l])
          /\ threads[k][Old(k, i)] = threads[l][Old(l, j)]
      BY <1>6
    <3>2. Once
      BY DEF Reaps
    <3>. QED
      BY <3>1, <3>2, ZenonT(30) DEF Once
  <2>. QED
    BY <1>7, <2>1
<1>9. Alive'
  <2> SUFFICES ASSUME NEW k \in AllTasks, NEW i \in 1..Len(threads'[k])
               PROVE  threads'[k][i] # thread_to_delete' /\ state[threads'[k][i]] # "none"
    BY <1>2 DEF Alive
  <2>1. threads[k][Old(k, i)] # threads[n][p]
    <3>1. Old(k, i) \in 1..Len(threads[k]) /\ (k = n => Old(k, i) # p)
      BY <1>6
    <3>2. Once
      BY DEF Reaps
    <3>. QED
      BY <3>1, <3>2, ZenonT(30) DEF Once
  <2>. QED
    BY <1>1, <1>6, <2>1 DEF Reaps, Alive
<1>10. Kept'
  BY <1>2, ThreadSets DEF Reaps, Kept
<1>. QED
  BY <1>8, <1>9, <1>10 DEF Reaps

\* kfree ends the zombie, which is in no list.
LEMMA LeaveReaps == ASSUME Inv, Reaps, NEW t \in AllThreads, heap_leave(t) PROVE Reaps'
<1>1. UNCHANGED <<threads, stacks>>
  BY DEF heap_leave, lists
<1>2. waiting_queue # <<>> => Head(waiting_queue) \in AllThreads /\ state[Head(waiting_queue)] = "BLOCKED"
  <2>1. waiting_queue \in Seq(AllThreads) /\ IsInjective(waiting_queue)
    BY DEF Inv, TypeOK, WaitersQueued
  <2>. QED
    BY <2>1, LeaveQueue DEF Inv, WaitersQueued
<1>3. \A u \in AllThreads : Woken[u] = "none" <=> state[u] = "none"
  <2>1. CASE waiting_queue = <<>>
    BY <2>1 DEF Woken
  <2>2. CASE waiting_queue # <<>>
    <3>1. Woken = [state EXCEPT ![Head(waiting_queue)] = "READY"]
      BY <2>2 DEF Woken
    <3>. QED
      BY <1>2, <2>2, <3>1 DEF Inv, TypeOK
  <2>. QED
    BY <2>1, <2>2
<1>4. Woken \in [AllThreads -> thread_state \cup {"none"}]
  BY DEF Inv, TypeOK, Woken, thread_state
<1>5. CASE FreesZombie(t)
  <2>1. state' = [Woken EXCEPT ![thread_to_delete] = "none"] /\ thread_to_delete' = NULL
    BY <1>5 DEF heap_leave
  <2>2. thread_to_delete \in AllThreads
    BY <1>5 DEF heap_leave, FreesZombie, Inv, IdleState, TypeOK
  <2>3. \A u \in AllThreads : state'[u] = "none" <=> state[u] = "none" \/ u = thread_to_delete
    BY <1>3, <1>4, <2>1, <2>2
  <2>4. \A k \in AllTasks : \A i \in 1..Len(threads[k]) : threads[k][i] \in AllThreads
    BY DEF Inv, TypeOK
  <2>5. Alive'
    BY <1>1, <2>1, <2>3, <2>4, ThreadSets, SMTT(20) DEF Reaps, Alive
  <2>6. Once' /\ Kept'
    BY <1>1, <2>3 DEF Reaps, Once, Kept
  <2>. QED
    BY <2>5, <2>6 DEF Reaps
<1>6. CASE ~ FreesZombie(t)
  BY <1>1, <1>3, <1>6, CalmReaps DEF heap_leave
<1>. QED
  BY <1>5, <1>6

\* Every step keeps the lists and the stacks right.
LEMMA NextReaps == Inv /\ Reaps /\ [Next]_vars => Reaps'
<1> SUFFICES ASSUME Inv, Reaps, [Next]_vars PROVE Reaps'
  OBVIOUS
<1>1. CASE Boot
  BY <1>1, PlainReaps, CreateReaps, ThreadSets DEF Boot
<1>2. CASE timer_handler
  <2>1. stacks' = stacks
    BY <1>2 DEF timer_handler, reaper
  <2>. QED
    BY <1>2, <2>1, TimerEffect, SwitchReaps
<1>3. ASSUME NEW t \in AllThreads, scheduler_yield(t) PROVE Reaps'
  <2>1. stacks' = stacks
    BY <1>3 DEF scheduler_yield, reaper
  <2>. QED
    BY <1>3, <2>1, YieldEffect, SwitchReaps
<1>4. ASSUME NEW t \in Threads, ThreadCode(t) \/ vmm_not_found(t) \/ hcf(t) PROVE Reaps'
  <2>1. t \in AllThreads
    BY ThreadSets
  <2>. QED
    BY <1>3, <1>4, <2>1, PlainReaps, StopReaps DEF ThreadCode
<1>5. ASSUME NEW t \in AllThreads, KernelStep(t) PROVE Reaps'
  BY <1>3, <1>5, PlainReaps, StopReaps, LeaveReaps, ReapReaps DEF KernelStep
<1>6. CASE UNCHANGED vars
  BY <1>6, CalmReaps DEF vars
<1>. QED
  BY <1>1, <1>2, <1>4, <1>5, <1>6 DEF Next

\* The reaper takes nothing that is in use, for any number of threads and tasks:
\* a thread that is current, can be chosen or waits has a linked struct and a
\* mapped stack, and the lists hold no freed struct (kernel_idle_thread).
THEOREM ReaperTakesTheDead == Spec => []ReaperSafe
<1>1. Inv /\ Reaps => ReaperSafe
  <2> SUFFICES ASSUME Inv, Reaps PROVE ReaperSafe
    OBVIOUS
  <2>1. ASSUME NEW t \in AllThreads, t = thread_current \/ state[t] \notin {"none", "ZOMBIE"}
        PROVE  t \in stacks /\ Linked(t)
    <3>1. state[t] # "none" /\ t # thread_to_delete
      BY <2>1, ThreadSets DEF Inv, CurrentState, IdleState
    <3>. QED
      BY <3>1 DEF Inv, AllLinked, Reaps, Kept
  <2>2. ASSUME NEW t \in AllThreads, Linked(t) PROVE state[t] # "none"
    <3>1. \A k \in 1..Len(task_list) : task_list[k] \in AllTasks
      BY DEF Inv, TypeOK
    <3>. QED
      BY <2>2, <3>1 DEF Linked, Reaps, Alive
  <2>. QED
    BY <2>1, <2>2 DEF ReaperSafe
<1>. QED
  BY <1>1, InitReaps, NextReaps, InvAlways, PTL DEF Spec

=============================================================================
