------------------------------- MODULE Locks -------------------------------
(***************************************************************************)
(* scheduling/lock.c: the ticket spinlock that disables interrupts, and    *)
(* the blocking mutex that is built on it, with one processor, the timer   *)
(* interrupt and the yield interrupt that switch threads.                  *)
(*                                                                         *)
(* Nothing is atomic here because it is said to be: a thread loses the     *)
(* processor at any point at which RFLAGS.IF is set.  The handlers of the  *)
(* two interrupts take scheduler_lock, which thread_sleep takes too.       *)
(* vmm_alloc and vmm_free use the mutex, through the heap, while they hold *)
(* the spinlock of the address space: with interrupts disabled already.    *)
(* The scheduler may choose any thread that is READY; which one is the     *)
(* subject of Sched.                                                       *)
(***************************************************************************)
EXTENDS Naturals, FiniteSets

CONSTANTS
    Threads,
    VmmUsers, \* the threads that call vmm_alloc and vmm_free
    Idle,     \* the idle thread, which uses no lock and never stops
    NULL,
    Wrap      \* how many values a counter of a lock has: 2^64

ASSUME LocksAssumption == /\ NULL \notin Threads \cup {Idle} /\ Idle \notin Threads /\ "handler" \notin Threads
                          /\ VmmUsers \subseteq Threads
                          /\ IsFiniteSet(Threads) /\ Wrap \in Nat \ {0, 1}

VARIABLES
    ticket, turn,     \* of each lock
    IF_,              \* RFLAGS.IF of the processor
    irq,              \* what the interrupt handler is about to do
    thread_current,
    state,            \* thread->state
    frame,            \* RFLAGS.IF in the interrupt frame of a thread
    flags,            \* irq_flags of the function a thread, or the handler, is in
    myticket,
    pc,
    vas_lock,         \* the thread that holds the spinlock of the address space, or NULL
    vas_flags,        \* irq_flags of the vmm_alloc or vmm_free a thread is in
    is_locked, waiting_queue_head, waiting_queue_tail,
    next_waiter       \* thread->next_waiter, left as it was when a thread is woken

lock_vars == <<ticket, turn, IF_, flags, myticket>>
queue_vars == <<waiting_queue_head, waiting_queue_tail, next_waiter>>
mutex_vars == <<is_locked, queue_vars>>
cpu_vars == <<irq, thread_current, frame>>
vas_vars == <<vas_lock, vas_flags>>
vars == <<lock_vars, cpu_vars, state, pc, mutex_vars, vas_vars>>

AllThreads == Threads \cup {Idle}
Locked == {"internal_lock", "scheduler_lock"}
Handler == "handler"                  \* the user of locks that is not a thread
Users == Threads \cup {Handler}

\* The section of a thread, by its place in the code, and what follows it.
Sections == [acquire  |-> "internal_lock",  taken  |-> "internal_lock", queued |-> "internal_lock",
             release  |-> "internal_lock",  passed |-> "internal_lock",
             sleep    |-> "scheduler_lock", asleep |-> "scheduler_lock"]
Outside == {"out", "vas", "vmm", "unlock", "inside", "wait", "yield", "drowsy"}

TypeOK ==
    /\ ticket \in [Locked -> 0..(Wrap - 1)]
    /\ turn \in [Locked -> 0..(Wrap - 1)]
    /\ IF_ \in BOOLEAN
    /\ irq \in {"none", "wake", "schedule"}
    /\ thread_current \in AllThreads
    /\ state \in [AllThreads -> {"READY", "RUNNING", "SLEEPING", "BLOCKED"}]
    /\ frame \in [AllThreads -> BOOLEAN]
    /\ flags \in [Users -> BOOLEAN]
    /\ myticket \in [Users -> 0..(Wrap - 1)]
    /\ pc \in [Threads -> Outside \cup DOMAIN Sections]
    /\ vas_lock \in Threads \cup {NULL}
    /\ vas_flags \in [Threads -> BOOLEAN]
    /\ is_locked \in BOOLEAN
    /\ waiting_queue_head \in Threads \cup {NULL}
    /\ waiting_queue_tail \in Threads \cup {NULL}
    /\ next_waiter \in [Threads -> Threads \cup {NULL}]

Init ==
    /\ ticket = [l \in Locked |-> 0]
    /\ turn = [l \in Locked |-> 0]
    /\ IF_ = TRUE
    /\ irq = "none"
    /\ thread_current = Idle
    /\ state = [t \in AllThreads |-> IF t = Idle THEN "RUNNING" ELSE "READY"]
    /\ frame = [t \in AllThreads |-> TRUE]
    /\ flags = [u \in Users |-> FALSE]
    /\ myticket = [u \in Users |-> 0]
    /\ pc = [t \in Threads |-> "out"]
    /\ vas_lock = NULL
    /\ vas_flags = [t \in Threads |-> FALSE]
    /\ is_locked = FALSE
    /\ waiting_queue_head = NULL
    /\ waiting_queue_tail = NULL
    /\ next_waiter = [t \in Threads |-> NULL]

-----------------------------------------------------------------------------
(* The spinlock. *)

\* A counter after an addition in 64 bits.
Inc(n) == IF n + 1 = Wrap THEN 0 ELSE n + 1

\* Mutant: the flags are saved and interrupts stay enabled.
take_ticket_NoCli(u, l) ==
    /\ flags' = [flags EXCEPT ![u] = IF_]
    /\ ticket' = [ticket EXCEPT ![l] = Inc(@)]
    /\ myticket' = [myticket EXCEPT ![u] = ticket[l]]
    /\ UNCHANGED <<turn, IF_>>

\* spinlock_irq_acquire up to its loop, and the condition that ends the loop.
take_ticket(u, l) ==
    /\ flags' = [flags EXCEPT ![u] = IF_]
    /\ IF_' = FALSE
    /\ ticket' = [ticket EXCEPT ![l] = Inc(@)]
    /\ myticket' = [myticket EXCEPT ![u] = ticket[l]]
    /\ UNCHANGED turn

MyTurn(u, l) == turn[l] = myticket[u]

\* The local variables of a user that has left its section.
Forget(u) == myticket' = [myticket EXCEPT ![u] = 0] /\ flags' = [flags EXCEPT ![u] = FALSE]

\* Mutant: interrupts are enabled, whatever the flags were.
spinlock_irq_release_Sti(u, l) ==
    /\ turn' = [turn EXCEPT ![l] = Inc(@)]
    /\ IF_' = TRUE
    /\ Forget(u)
    /\ UNCHANGED ticket

spinlock_irq_release(u, l) ==
    /\ turn' = [turn EXCEPT ![l] = Inc(@)]
    /\ IF_' = flags[u]
    /\ Forget(u)
    /\ UNCHANGED ticket

-----------------------------------------------------------------------------
(* Threads. *)

\* The thread executes, at that place in the code, and goes on at the other.
At(t, place) == irq = "none" /\ thread_current = t /\ pc[t] = place
Goto(t, place) == pc' = [pc EXCEPT ![t] = place]

\* vmm_alloc and vmm_free save the flags, disable interrupts, spin until the lock
\* of the address space is free, ...
vmm_call(t) ==
    /\ At(t, "out") /\ t \in VmmUsers
    /\ vas_flags' = [vas_flags EXCEPT ![t] = IF_]
    /\ IF_' = FALSE
    /\ Goto(t, "vas")
    /\ UNCHANGED <<ticket, turn, flags, myticket, cpu_vars, state, mutex_vars, vas_lock>>

vmm_lock(t) ==
    /\ At(t, "vas") /\ vas_lock = NULL
    /\ vas_lock' = t
    /\ Goto(t, "vmm")
    /\ UNCHANGED <<lock_vars, cpu_vars, state, mutex_vars, vas_flags>>

\* ... call the heap or find nothing to do, release the lock and restore the flags.
vmm_unlock(t) ==
    /\ At(t, "vmm") \/ At(t, "unlock")
    /\ vas_lock' = NULL
    /\ IF_' = vas_flags[t]
    /\ vas_flags' = [vas_flags EXCEPT ![t] = FALSE]
    /\ Goto(t, "out")
    /\ UNCHANGED <<ticket, turn, flags, myticket, cpu_vars, state, mutex_vars>>

\* A thread begins a section, in mutex_acquire, mutex_release or thread_sleep.
enter_section(t) ==
    /\ \E step \in {<<"out", "acquire">>, <<"vmm", "acquire">>, <<"inside", "release">>, <<"out", "sleep">>} :
          /\ At(t, step[1])
          /\ Goto(t, step[2])
          /\ take_ticket(t, Sections[step[2]])
    /\ UNCHANGED <<cpu_vars, state, mutex_vars, vas_vars>>

\* A thread leaves a section, and returns or goes on to yield.
leave_section(t) ==
    /\ \E step \in {<<"taken", "inside">>, <<"queued", "yield">>, <<"asleep", "drowsy">>,
                    <<"passed", IF vas_lock = t THEN "unlock" ELSE "out">>} :
          /\ At(t, step[1])
          /\ Goto(t, step[2])
          /\ spinlock_irq_release(t, Sections[step[1]])
    /\ UNCHANGED <<cpu_vars, state, mutex_vars, vas_vars>>

\* The mutex is not locked.
take(t) ==
    /\ At(t, "acquire") /\ MyTurn(t, "internal_lock")
    /\ ~ is_locked
    /\ is_locked' = TRUE
    /\ Goto(t, "taken")
    /\ UNCHANGED <<lock_vars, cpu_vars, state, queue_vars, vas_vars>>

\* Mutant: the thread is put in front of the waiters.
enqueue_Front(t) ==
    /\ At(t, "acquire") /\ MyTurn(t, "internal_lock")
    /\ is_locked
    /\ waiting_queue_head' = t
    /\ waiting_queue_tail' = IF waiting_queue_tail = NULL THEN t ELSE waiting_queue_tail
    /\ next_waiter' = [next_waiter EXCEPT ![t] = waiting_queue_head]
    /\ state' = [state EXCEPT ![t] = "BLOCKED"]
    /\ Goto(t, "queued")
    /\ UNCHANGED <<lock_vars, cpu_vars, is_locked, vas_vars>>

\* It is locked: the thread is the last waiter and is not scheduled again.
enqueue(t) ==
    /\ At(t, "acquire") /\ MyTurn(t, "internal_lock")
    /\ is_locked
    /\ waiting_queue_tail' = t
    /\ \/ /\ waiting_queue_tail = NULL
          /\ waiting_queue_head' = t
          /\ next_waiter' = [next_waiter EXCEPT ![t] = NULL]
       \/ /\ waiting_queue_tail # NULL
          /\ next_waiter' = [next_waiter EXCEPT ![t] = NULL, ![waiting_queue_tail] = t]
          /\ UNCHANGED waiting_queue_head
    /\ state' = [state EXCEPT ![t] = "BLOCKED"]
    /\ Goto(t, "queued")
    /\ UNCHANGED <<lock_vars, cpu_vars, is_locked, vas_vars>>

\* The tail after the first waiter has left a queue whose new head is given.
TailAfter(head) == IF head = NULL THEN NULL ELSE waiting_queue_tail

\* The states after the first waiter was woken.
Woken(t) == [state EXCEPT ![t] = "READY"]

\* The body of mutex_release: the mutex is unlocked, or handed to a waiter.
pass_on(t) ==
    /\ At(t, "release") /\ MyTurn(t, "internal_lock")
    /\ \/ /\ waiting_queue_head = NULL
          /\ is_locked' = FALSE
          /\ UNCHANGED <<waiting_queue_head, waiting_queue_tail, state>>
       \/ /\ waiting_queue_head # NULL
          /\ waiting_queue_head' = next_waiter[waiting_queue_head]
          /\ waiting_queue_tail' = TailAfter(waiting_queue_head')
          /\ state' = Woken(waiting_queue_head)
          /\ UNCHANGED is_locked
    /\ Goto(t, "passed")
    /\ UNCHANGED <<lock_vars, cpu_vars, next_waiter, vas_vars>>

\* The body of thread_sleep; the next tick is the one that wakes the thread.
thread_sleep(t) ==
    /\ At(t, "sleep") /\ MyTurn(t, "scheduler_lock")
    /\ state' = [state EXCEPT ![t] = "SLEEPING"]
    /\ Goto(t, "asleep")
    /\ UNCHANGED <<lock_vars, cpu_vars, mutex_vars, vas_vars>>

\* An interrupt is accepted: its gate clears RFLAGS.IF, and the handler gets as
\* far as the loop on scheduler_lock.
handler_takes_ticket ==
    /\ ticket' = [ticket EXCEPT !["scheduler_lock"] = Inc(@)]
    /\ myticket' = [myticket EXCEPT ![Handler] = ticket["scheduler_lock"]]

interrupt(stage) ==
    /\ frame' = [frame EXCEPT ![thread_current] = IF_]
    /\ IF_' = FALSE
    /\ irq' = stage
    /\ flags' = [flags EXCEPT ![Handler] = FALSE]
    /\ handler_takes_ticket
    /\ UNCHANGED <<turn, thread_current, state, mutex_vars, vas_vars>>

\* int $50, at the end of mutex_acquire and of thread_sleep.
scheduler_yield(t) ==
    /\ \E step \in {<<"yield", "wait">>, <<"drowsy", "out">>} : At(t, step[1]) /\ Goto(t, step[2])
    /\ interrupt("schedule")

\* Mutant: a thread that was woken waits until the mutex is unlocked.
resume_Rechecks(t) ==
    /\ At(t, "wait")
    /\ ~ is_locked
    /\ Goto(t, "inside")
    /\ UNCHANGED <<lock_vars, cpu_vars, state, mutex_vars, vas_vars>>

\* The interrupt returns, and with it mutex_acquire.
resume(t) ==
    /\ At(t, "wait")
    /\ Goto(t, "inside")
    /\ UNCHANGED <<lock_vars, cpu_vars, state, mutex_vars, vas_vars>>

-----------------------------------------------------------------------------
(* The handlers. *)

\* timer_handler, up to scheduler_wake_sleeping_threads.
timer_interrupt ==
    /\ IF_ /\ irq = "none"
    /\ interrupt("wake")
    /\ UNCHANGED pc

\* scheduler_wake_sleeping_threads; then iretq, or on to scheduler_schedule when
\* the quantum of the thread is over.
wake ==
    /\ irq = "wake" /\ MyTurn(Handler, "scheduler_lock")
    /\ state' = [t \in AllThreads |-> IF state[t] = "SLEEPING" THEN "READY" ELSE state[t]]
    /\ turn' = [turn EXCEPT !["scheduler_lock"] = Inc(@)]
    /\ \/ /\ irq' = "none"
          /\ IF_' = frame[thread_current]
          /\ Forget(Handler)
          /\ UNCHANGED ticket
       \/ /\ irq' = "schedule"
          /\ IF_' = flags[Handler]
          /\ handler_takes_ticket
          /\ UNCHANGED flags
    /\ UNCHANGED <<thread_current, frame, pc, mutex_vars, vas_vars>>

\* The states once the thread that ran is paused.
Paused == [state EXCEPT ![thread_current] = IF @ = "RUNNING" THEN "READY" ELSE @]

\* scheduler_schedule and iretq to the thread it chose.
scheduler_schedule(t) ==
    /\ irq = "schedule" /\ MyTurn(Handler, "scheduler_lock")
    /\ Paused[t] = "READY"
    /\ thread_current' = t
    /\ state' = [Paused EXCEPT ![t] = "RUNNING"]
    /\ irq' = "none"
    /\ turn' = [turn EXCEPT !["scheduler_lock"] = Inc(@)]
    /\ IF_' = frame[t]
    /\ Forget(Handler)
    /\ UNCHANGED <<ticket, frame, pc, mutex_vars, vas_vars>>

-----------------------------------------------------------------------------

step(t) == \/ vmm_call(t) \/ vmm_lock(t) \/ vmm_unlock(t)
           \/ enter_section(t) \/ take(t) \/ enqueue(t) \/ pass_on(t) \/ thread_sleep(t)
           \/ leave_section(t) \/ scheduler_yield(t) \/ resume(t)

Next == \/ \E t \in Threads : step(t)
        \/ timer_interrupt
        \/ wake
        \/ \E t \in AllThreads : scheduler_schedule(t)

Spec == Init /\ [][Next]_vars

\* A thread with the processor executes, unless it is the idle thread or stays
\* outside; ticks keep coming and quanta end; the round robin gets to every
\* thread that is READY (what Sched shows of it).
FairSpec ==
    /\ Spec
    /\ SF_vars(timer_interrupt) /\ WF_vars(wake)
    /\ SF_vars(wake /\ irq' = "schedule")
    /\ WF_vars(\E t \in AllThreads : scheduler_schedule(t))
    /\ \A t \in Threads : SF_vars(scheduler_schedule(t)) /\ SF_vars(pc[t] # "out" /\ step(t))

-----------------------------------------------------------------------------
(* Properties. *)

\* The lock that a user of locks has a ticket for, if any.
Wants(u, l) == IF u = Handler THEN irq # "none" /\ l = "scheduler_lock"
               ELSE pc[u] \in DOMAIN Sections /\ Sections[pc[u]] = l

\* "safe for use in ISR's" (spinlock_irq_acquire): whoever has taken a ticket of
\* the internal lock of the mutex or of scheduler_lock, in a thread or in the
\* handler that interrupted it, finds that it is its turn.  A user that had to wait
\* would spin for ever, with interrupts disabled on the only processor.
NeverSpins == \A l \in Locked : \A u \in Users : Wants(u, l) => MyTurn(u, l)

\* The thread is in vmm_alloc or vmm_free, with interrupts disabled.
InVmm(t) == vas_lock = t \/ (t \in Threads /\ pc[t] = "vas")

\* Interrupts come back when the outermost section or handler ends and no sooner:
\* a section inside vmm_alloc or vmm_free leaves them disabled, also when the thread
\* loses the processor there and gets it again.  A thread that is switched out goes
\* on with interrupts disabled if it holds the lock of the address space, and with
\* interrupts enabled otherwise (spinlock_irq_acquire, spinlock_irq_release, the
\* frame of int $50).
InterruptsRestored ==
    /\ IF_ <=> ~ InVmm(thread_current) /\ \A l \in Locked : \A u \in Users : ~ Wants(u, l)
    /\ \A t \in AllThreads : t # thread_current \/ irq # "none" => (frame[t] <=> vas_lock # t)

=============================================================================
