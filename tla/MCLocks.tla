------------------------------ MODULE MCLocks ------------------------------
(* Three threads and the idle thread, for TLC. *)
EXTENDS MutexFifo

CONSTANTS t1, t2, t3

ThreeThreads == {t1, t2, t3}
OneThread    == {t1}

=============================================================================
