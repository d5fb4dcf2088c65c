------------------------------ MODULE MCSched ------------------------------
(* Instances of Sched for TLC. *)
EXTENDS Sched, TLC

CONSTANTS w1, w2, w3, k1, k2

TwoThreads   == {w1, w2}
ThreeThreads == {w1, w2, w3}
OneThread    == {w1}
NoThreads    == {}
OneTask      == {k1}
TwoTasks     == {k1, k2}

\* Threads and tasks are interchangeable: only the order of their creation
\* tells them apart.
Symmetry == Permutations(ThreeThreads) \cup Permutations(TwoTasks)

=============================================================================
