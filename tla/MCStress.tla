------------------------------ MODULE MCStress ------------------------------
(* Instances of Stress for TLC. *)
EXTENDS Stress

CONSTANTS w1, w2, k1

TwoWorkers == {w1, w2}
NoThreads  == {}
OneTask    == {k1}

=============================================================================
