------------------------------- MODULE MCVmm -------------------------------
(* Instances of Vmm for TLC. *)
EXTENDS Vmm

CONSTANT u1

OneSpace == {u1}
SmallSizes == {1, 2}
SomeFrames == 5..14
SomeFlags == {{"WRITE", "ANON"}, {"WRITE", "MMIO", "USER"}, {"USER"}}

=============================================================================
