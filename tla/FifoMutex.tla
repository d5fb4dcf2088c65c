------------------------------ MODULE FifoMutex ------------------------------
(***************************************************************************)
(* What the mutex of scheduling/lock.c promises: at most one owner, and    *)
(* waiters that get it one after the other in the order of their requests, *)
(* without a moment at which a third thread could take it.                 *)
(***************************************************************************)
EXTENDS Naturals, Sequences

CONSTANTS Threads, NULL

VARIABLES owner,     \* the thread that owns the mutex, or NULL
          queue      \* the threads that wait for it, oldest first

Init == owner = NULL /\ queue = <<>>

Acquire(t) ==
    \/ owner = NULL /\ owner' = t /\ UNCHANGED queue
    \/ owner \notin {NULL, t} /\ (\A i \in 1..Len(queue) : queue[i] # t) /\ queue' = Append(queue, t) /\ UNCHANGED owner

Release ==
    /\ owner # NULL
    /\ \/ queue = <<>> /\ owner' = NULL /\ UNCHANGED queue
       \/ queue # <<>> /\ owner' = Head(queue) /\ queue' = Tail(queue)

Next == Release \/ \E t \in Threads : Acquire(t)

Spec == Init /\ [][Next]_<<owner, queue>>

=============================================================================
