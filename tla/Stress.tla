------------------------------- MODULE Stress -------------------------------
(***************************************************************************)
(* The concurrency test that kmain starts (main.c): every thread runs      *)
(* stress_test_worker on top of the scheduler, the heap mutex and the lock *)
(* of the kernel address space.                                            *)
(***************************************************************************)
EXTENDS Sched

CONSTANT Cycles          \* the cycles of each worker: 3 in the code

VARIABLES stage,         \* where the worker is in its cycle
          cycle          \* the cycles it has completed

svars == <<vars, stage, cycle>>

\* A cycle: kmalloc, vmm_alloc, the access that traps, vmm_free, kfree,
\* thread_sleep.  log_line takes the console lock without switching.
Stages == <<"kmalloc", "vmm_alloc", "touch", "vmm_free", "kfree", "sleep">>

StressInit == /\ Init
              /\ stage = [t \in Threads |-> 1]
              /\ cycle = [t \in Threads |-> 0]

Advance(t) ==
    IF stage[t] < Len(Stages)
    THEN stage' = [stage EXCEPT ![t] = @ + 1] /\ UNCHANGED cycle
    ELSE stage' = [stage EXCEPT ![t] = 1] /\ cycle' = [cycle EXCEPT ![t] = @ + 1]

\* The next call of the worker's loop.
stress_test_worker(t) ==
    /\ pc[t] = "run"
    /\ cycle[t] < Cycles
    /\ \/ Stages[stage[t]] \in {"kmalloc", "kfree"} /\ heap_enter(t)
       \/ Stages[stage[t]] \in {"vmm_alloc", "vmm_free"} /\ vmm_call(t)
       \/ Stages[stage[t]] = "touch" /\ page_fault(t)
       \/ Stages[stage[t]] = "sleep" /\ thread_sleep(t, MaxSleep)
    /\ Advance(t)

\* The worker returns to task_current_thread_exit.
worker_returns(t) ==
    /\ cycle[t] = Cycles
    /\ task_current_thread_exit(t)
    /\ UNCHANGED <<stage, cycle>>

\* There is room for the areas: vmm_alloc succeeds.
Kernel == Boot \/ timer_handler \/ \E t \in AllThreads : KernelStep(t)

StressNext == \/ \E t \in Threads : stress_test_worker(t) \/ worker_returns(t)
              \/ Kernel /\ UNCHANGED <<stage, cycle>>

\* The workers' own code makes progress too: it never waits for anything.
StressSpec == /\ StressInit
              /\ [][StressNext]_svars
              /\ WF_svars(sti /\ UNCHANGED <<stage, cycle>>)
              /\ SF_svars(timer_handler /\ UNCHANGED <<stage, cycle>>)
              /\ \A t \in AllThreads : SF_svars(KernelStep(t) /\ UNCHANGED <<stage, cycle>>)
              /\ \A t \in Threads : SF_svars(stress_test_worker(t) \/ worker_returns(t))

\* "Test completato! Divento zombie." (main.c): every worker that was started
\* completes its cycles and exits.
StressTestCompletes == \A t \in Threads : state[t] = "READY" ~> state[t] = "ZOMBIE"

=============================================================================
