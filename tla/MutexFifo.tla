----------------------------- MODULE MutexFifo -----------------------------
(***************************************************************************)
(* What the pointers of the mutex in Locks amount to.                      *)
(***************************************************************************)
EXTENDS Locks, Sequences

\* The threads on the way from the head of a queue to its end.
Linked(q, head, next) ==
    /\ head = IF q = <<>> THEN NULL ELSE q[1]
    /\ \A i \in 1..Len(q) : next[q[i]] = IF i < Len(q) THEN q[i + 1] ELSE NULL

\* The waiters, following the pointers.
Queues == UNION {[1..n -> Threads] : n \in 0..Cardinality(Threads)}
Queue == CHOOSE q \in Queues : Linked(q, waiting_queue_head, next_waiter)

\* The threads the mutex belongs to: the one inside, from the step that locked
\* the mutex to the step that passes it on, or the one that was woken.
Owners == {t \in Threads : \/ pc[t] \in {"taken", "inside", "release"}
                           \/ pc[t] \in {"yield", "wait"} /\ state[t] # "BLOCKED"}

Owner == IF Owners = {} THEN NULL ELSE CHOOSE t \in Owners : TRUE

Fifo == INSTANCE FifoMutex WITH owner <- Owner, queue <- Queue

\* mutex_acquire and mutex_release, with their spinlock, their pointers and the
\* stale next_waiter fields, implement a first-in first-out mutex with hand-over
\* wherever a thread is preempted.
ImplementsFifo == Fifo!Spec

\* A thread that has called mutex_acquire gets the mutex, also when it loses the
\* processor between leaving the section as BLOCKED and yielding.
WaiterEnters == \A t \in Threads : pc[t] = "acquire" ~> pc[t] = "inside"

=============================================================================
