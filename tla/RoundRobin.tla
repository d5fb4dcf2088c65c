----------------------------- MODULE RoundRobin -----------------------------
(***************************************************************************)
(* What the two walks over the task and thread lists compute, on sequences *)
(* of nodes: the search of scheduler_schedule and the scan of the reaper.  *)
(* RunLists shows that the pointer code computes exactly this.             *)
(***************************************************************************)
EXTENDS Integers, Sequences, Functions

\* The helpers for sequences are defined here and not taken from a larger
\* library: the provers carry every definition that is in scope.
LastOf(s) == s[Len(s)]
InList(s, e) == \E i \in 1..Len(s) : s[i] = e

\* The sequences of ss one after the other.
Concat(ss) ==
    LET upTo[i \in 1..Len(ss)] == IF i = 1 THEN ss[1] ELSE upTo[i - 1] \o ss[i]
    IN  IF ss = <<>> THEN <<>> ELSE upTo[Len(ss)]

\* The threads in the order the search visits them: the threads of each task,
\* task after task.
RunOrder(tasks, threadsOf) == Concat([k \in 1..Len(tasks) |-> threadsOf[tasks[k]]])

\* t is the first READY thread after current, going round.
FirstReady(order, current, st, t) ==
    LET n == Len(order)
        here == CHOOSE i \in 1..n : order[i] = current
        At(d) == order[((here + d - 1) % n) + 1]
    IN  \E d \in 1..n : /\ At(d) = t
                        /\ st[t] = "READY"
                        /\ \A e \in 1..(d - 1) : st[At(e)] # "READY"

\* Mutant: a thread that is alone in its list is not looked at.
Examined_NotAlone(s) == 2..Len(s)

\* The scan of a task's list starts after the head and ends when it is back at
\* the head: the head itself is looked at only when it is alone.
Examined(s) == IF Len(s) = 1 THEN {1} ELSE 2..Len(s)

ZombieAt(tasks, threadsOf, st, k, i) ==
    LET s == threadsOf[tasks[k]] IN i \in Examined(s) /\ st[s[i]] = "ZOMBIE"

\* The i-th thread of the k-th task is the first zombie the scan finds.
FirstZombie(tasks, threadsOf, st, k, i) ==
    /\ ZombieAt(tasks, threadsOf, st, k, i)
    /\ \A l \in 1..k : \A j \in 1..Len(threadsOf[tasks[l]]) :
          ZombieAt(tasks, threadsOf, st, l, j) => l = k /\ i <= j

\* Mutant: the node stays in the list.
Unlink_Not(s, i) == s

\* The circular list without its i-th node.
Unlink(s, i) == SubSeq(s, 1, i - 1) \o SubSeq(s, i + 1, Len(s))

=============================================================================
