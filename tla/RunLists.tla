------------------------------ MODULE RunLists ------------------------------
(***************************************************************************)
(* The circular lists of tasks and threads at the level of their pointers: *)
(* the insertions of task_create and task_create_thread, the search of     *)
(* scheduler_schedule and the scan of kernel_idle_thread, loop iteration   *)
(* by loop iteration.  All of it runs under scheduler_lock.                *)
(***************************************************************************)
EXTENDS RoundRobin, FiniteSets

CONSTANTS Threads, Idle, Tasks, IdleTask, NULL

ASSUME ListsAssumption == /\ Idle \notin Threads /\ IdleTask \notin Tasks
                          /\ NULL \notin Threads \cup Tasks \cup {Idle, IdleTask}
                          /\ IsFiniteSet(Threads) /\ IsFiniteSet(Tasks)

AllThreads == Threads \cup {Idle}
AllTasks   == Tasks \cup {IdleTask}

VARIABLES
    task_next,       \* task->next, NULL for a task that does not exist
    task_threads,    \* task->threads
    thread_next,     \* thread->next, NULL for a thread that does not exist
    state,           \* thread->state
    task_current, thread_current,
    walk,            \* the loop that is running: none, search, scan
    w_task,          \* search_task or curr_task
    w_prev,          \* prev_thread
    w_thread         \* search_thread or curr_thread

heap == <<task_next, task_threads, thread_next>>
current_vars == <<task_current, thread_current>>
walkers == <<walk, w_task, w_prev, w_thread>>
list_vars == <<task_next, task_threads, thread_next, state, task_current, thread_current,
          walk, w_task, w_prev, w_thread>>

\* task_list never changes: it points to the idle task.
task_list == IdleTask

ListsTypeOK ==
    /\ task_next \in [AllTasks -> AllTasks \cup {NULL}]
    /\ task_threads \in [AllTasks -> AllThreads \cup {NULL}]
    /\ thread_next \in [AllThreads -> AllThreads \cup {NULL}]
    /\ state \in [AllThreads -> {"READY", "RUNNING", "BLOCKED", "ZOMBIE"}]
    /\ task_current \in AllTasks /\ thread_current \in AllThreads
    /\ walk \in {"none", "search", "scan"}
    /\ w_task \in AllTasks \cup {NULL}
    /\ w_prev \in AllThreads \cup {NULL} /\ w_thread \in AllThreads \cup {NULL}

\* scheduler_init.
ListsInit ==
    /\ task_next = [k \in AllTasks |-> IF k = IdleTask THEN IdleTask ELSE NULL]
    /\ task_threads = [k \in AllTasks |-> IF k = IdleTask THEN Idle ELSE NULL]
    /\ thread_next = [t \in AllThreads |-> IF t = Idle THEN Idle ELSE NULL]
    /\ state = [t \in AllThreads |-> IF t = Idle THEN "RUNNING" ELSE "READY"]
    /\ task_current = IdleTask /\ thread_current = Idle
    /\ walk = "none" /\ w_task = NULL /\ w_prev = NULL /\ w_thread = NULL

\* The ways through a set of nodes.
Walks(S) == UNION {[1..n -> S] : n \in 0..Cardinality(S)}

\* The nodes of a circular list from its head on: the last one leads back to it.
IsRing(q, head, next) ==
    \/ head = NULL /\ q = <<>>
    \/ /\ head # NULL /\ q # <<>> /\ q[1] = head
       /\ \A i \in 1..Len(q) : next[q[i]] = IF i < Len(q) THEN q[i + 1] ELSE head
       /\ \A i \in 2..Len(q) : q[i] # head

Ring(head, next) == CHOOSE q \in Walks(DOMAIN next) : IsRing(q, head, next)

TaskSeq   == Ring(task_list, task_next)
ThreadSeq == [k \in AllTasks |-> Ring(task_threads[k], thread_next)]

-----------------------------------------------------------------------------
\* Both insertions walk to the node whose next is the head and append there.
task_create(k) ==
    /\ walk = "none"
    /\ task_next[k] = NULL
    /\ task_next' = [task_next EXCEPT ![LastOf(TaskSeq)] = k, ![k] = task_list]
    /\ UNCHANGED <<task_threads, thread_next, state, current_vars, walkers>>

task_create_thread(k, t) ==
    /\ walk = "none"
    /\ task_next[k] # NULL
    /\ thread_next[t] = NULL
    /\ state' = [state EXCEPT ![t] = "READY"]
    /\ \/ /\ task_threads[k] = NULL
          /\ task_threads' = [task_threads EXCEPT ![k] = t]
          /\ thread_next' = [thread_next EXCEPT ![t] = t]
       \/ /\ task_threads[k] # NULL
          /\ thread_next' = [thread_next EXCEPT ![LastOf(ThreadSeq[k])] = t, ![t] = task_threads[k]]
          /\ UNCHANGED task_threads
    /\ UNCHANGED <<task_next, current_vars, walkers>>

\* The rest of the kernel: the current thread blocks (or sleeps: one state here)
\* or exits, and a blocked thread is woken.  The idle thread never exits.
stop(s) ==
    /\ walk = "none"
    /\ state[thread_current] = "RUNNING"
    /\ s = "ZOMBIE" => thread_current # Idle
    /\ state' = [state EXCEPT ![thread_current] = s]
    /\ UNCHANGED <<heap, current_vars, walkers>>

wake(t) ==
    /\ walk = "none"
    /\ state[t] = "BLOCKED"
    /\ state' = [state EXCEPT ![t] = "READY"]
    /\ UNCHANGED <<heap, current_vars, walkers>>

-----------------------------------------------------------------------------
(* scheduler_schedule. *)

\* The thread after t in the search; after the last thread of a task, the
\* first thread of the next task, NULL if that task has none.
StepTask(k, t)   == IF thread_next[t] = task_threads[k] THEN task_next[k] ELSE k
StepThread(k, t) == IF thread_next[t] = task_threads[k]
                    THEN task_threads[task_next[k]] ELSE thread_next[t]

\* Mutant: the search starts at the current thread.
search_start_AtCurrent ==
    /\ walk = "none"
    /\ state' = [state EXCEPT ![thread_current] = IF @ = "RUNNING" THEN "READY" ELSE @]
    /\ walk' = "search"
    /\ w_task' = task_current /\ w_thread' = thread_current
    /\ UNCHANGED <<heap, current_vars, w_prev>>

search_start ==
    /\ walk = "none"
    /\ state' = [state EXCEPT ![thread_current] = IF @ = "RUNNING" THEN "READY" ELSE @]
    /\ walk' = "search"
    /\ w_task' = StepTask(task_current, thread_current)
    /\ w_thread' = StepThread(task_current, thread_current)
    /\ UNCHANGED <<heap, current_vars, w_prev>>

\* Mutants: the search does not go on to the next task; it stops there.
search_skip_Stays ==
    /\ walk = "search"
    /\ w_thread = NULL
    /\ w_thread' = task_threads[w_task]
    /\ UNCHANGED <<heap, state, current_vars, walk, w_task, w_prev>>

\* A task without threads is skipped.
search_skip ==
    /\ walk = "search"
    /\ w_thread = NULL
    /\ w_task' = task_next[w_task]
    /\ w_thread' = task_threads[task_next[w_task]]
    /\ UNCHANGED <<heap, state, current_vars, walk, w_prev>>

\* Back at the current thread, the anti-freeze check goes on from the idle
\* thread unless the current thread is READY, which the next step finds out.
search_advance ==
    /\ walk = "search"
    /\ w_thread # NULL
    /\ state[w_thread] # "READY"
    /\ LET k == StepTask(w_task, w_thread)
           t == StepThread(w_task, w_thread)
           frozen == k = task_current /\ t = thread_current /\ state[t] # "READY"
       IN  /\ w_task' = IF frozen THEN task_list ELSE k
           /\ w_thread' = IF frozen THEN task_threads[task_list] ELSE t
    /\ UNCHANGED <<heap, state, current_vars, walk, w_prev>>

search_found ==
    /\ walk = "search"
    /\ w_thread # NULL
    /\ state[w_thread] = "READY"
    /\ task_current' = w_task
    /\ thread_current' = w_thread
    /\ state' = [state EXCEPT ![w_thread] = "RUNNING"]
    /\ walk' = "none" /\ w_task' = NULL /\ w_thread' = NULL
    /\ UNCHANGED <<heap, w_prev>>

-----------------------------------------------------------------------------
(* kernel_idle_thread: w_thread is NULL when the scan enters w_task. *)

scan_start ==
    /\ walk = "none"
    /\ thread_current = Idle /\ state[Idle] = "RUNNING"
    /\ walk' = "scan" /\ w_task' = task_list
    /\ UNCHANGED <<heap, state, current_vars, w_prev, w_thread>>

\* Mutant: the loop ends before the last task.
NextTask_Early == /\ w_task' = task_next[w_task]
                  /\ walk' = IF task_next[task_next[w_task]] = task_list THEN "none" ELSE walk
                  /\ w_thread' = NULL

NextTask == /\ w_task' = task_next[w_task]
            /\ walk' = IF task_next[w_task] = task_list THEN "none" ELSE walk
            /\ w_thread' = NULL

scan_enter ==
    /\ walk = "scan"
    /\ w_thread = NULL
    /\ \/ /\ task_threads[w_task] = NULL
          /\ NextTask
          /\ UNCHANGED w_prev
       \/ /\ task_threads[w_task] # NULL
          /\ w_prev' = task_threads[w_task]
          /\ w_thread' = thread_next[task_threads[w_task]]
          /\ UNCHANGED <<walk, w_task>>
    /\ UNCHANGED <<heap, state, current_vars>>

\* Mutant: prev_thread does not follow.
scan_pass_NoPrev ==
    /\ walk = "scan"
    /\ w_thread # NULL
    /\ state[w_thread] # "ZOMBIE"
    /\ \/ /\ thread_next[w_thread] = task_threads[w_task]
          /\ NextTask
       \/ /\ thread_next[w_thread] # task_threads[w_task]
          /\ w_thread' = thread_next[w_thread]
          /\ UNCHANGED <<walk, w_task>>
    /\ UNCHANGED <<heap, state, current_vars, w_prev>>

scan_pass ==
    /\ walk = "scan"
    /\ w_thread # NULL
    /\ state[w_thread] # "ZOMBIE"
    /\ w_prev' = w_thread
    /\ \/ /\ thread_next[w_thread] = task_threads[w_task]
          /\ NextTask
       \/ /\ thread_next[w_thread] # task_threads[w_task]
          /\ w_thread' = thread_next[w_thread]
          /\ UNCHANGED <<walk, w_task>>
    /\ UNCHANGED <<heap, state, current_vars>>

\* The node is unlinked; its struct is then freed, and may be used again.
scan_unlink ==
    /\ walk = "scan"
    /\ w_thread # NULL
    /\ state[w_thread] = "ZOMBIE"
    /\ \/ /\ thread_next[w_thread] = w_thread
          /\ task_threads' = [task_threads EXCEPT ![w_task] = NULL]
          /\ thread_next' = [thread_next EXCEPT ![w_thread] = NULL]
       \/ /\ thread_next[w_thread] # w_thread
          /\ task_threads' = [task_threads EXCEPT ![w_task] =
                                IF @ = w_thread THEN thread_next[w_thread] ELSE @]
          /\ thread_next' = [thread_next EXCEPT ![w_prev] = thread_next[w_thread],
                                                ![w_thread] = NULL]
    /\ walk' = "none" /\ w_thread' = NULL
    /\ UNCHANGED <<task_next, state, current_vars, w_task, w_prev>>

-----------------------------------------------------------------------------

Search == search_skip \/ search_advance \/ search_found
Scan   == scan_enter \/ scan_pass \/ scan_unlink

ListsNext == \/ \E k \in Tasks : task_create(k)
             \/ \E k \in Tasks, t \in Threads : task_create_thread(k, t)
             \/ \E s \in {"BLOCKED", "ZOMBIE"} : stop(s)
             \/ \E t \in AllThreads : wake(t)
             \/ search_start
             \/ Search
             \/ scan_start
             \/ Scan

ListsSpec == ListsInit /\ [][ListsNext]_list_vars

\* The loops run with interrupts disabled: nothing stops them.
FairListsSpec == ListsSpec /\ WF_list_vars(Search) /\ WF_list_vars(Scan)

-----------------------------------------------------------------------------
(* Properties. *)

\* The search stops at the thread round-robin order prescribes, and the current
\* task is the task of the current thread (scheduler_schedule).
SearchIsRoundRobin ==
    [][search_found =>
         /\ FirstReady(RunOrder(TaskSeq, ThreadSeq), thread_current, state, thread_current')
         /\ InList(ThreadSeq[task_current'], thread_current')]_list_vars

\* The search stops if some thread is READY: the anti-freeze check does not
\* make it miss one (scheduler_schedule).
SearchEnds ==
    (walk = "search" /\ \E t \in AllThreads : thread_next[t] # NULL /\ state[t] = "READY")
        ~> walk = "none"

\* The scan unlinks the first zombie it is meant to find, keeps the order of the
\* others, and ends without unlinking only when there is none
\* (kernel_idle_thread).
ScanReapsFirst ==
    [][walk = "scan" /\ walk' = "none" =>
         \/ \E k \in 1..Len(TaskSeq) : \E i \in 1..Len(ThreadSeq[TaskSeq[k]]) :
              /\ FirstZombie(TaskSeq, ThreadSeq, state, k, i)
              /\ ThreadSeq' = [ThreadSeq EXCEPT ![TaskSeq[k]] = Unlink(@, i)]
         \/ /\ \A k \in 1..Len(TaskSeq) : \A i \in 1..Len(ThreadSeq[TaskSeq[k]]) :
                 ~ ZombieAt(TaskSeq, ThreadSeq, state, k, i)
            /\ UNCHANGED ThreadSeq]_list_vars

\* Every list stays circular and no thread is in two lists or twice in one: the
\* threads that exist are exactly those found by following the pointers
\* (task_create, task_create_thread, kernel_idle_thread).
ListsIntact ==
    LET order == RunOrder(TaskSeq, ThreadSeq)
    IN  /\ ListsTypeOK
        /\ IsInjective(order)
        /\ Range(order) = {t \in AllThreads : thread_next[t] # NULL}
        /\ Range(TaskSeq) = {k \in AllTasks : task_next[k] # NULL}

=============================================================================
