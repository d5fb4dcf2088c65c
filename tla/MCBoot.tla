------------------------------- MODULE MCBoot ------------------------------
(***************************************************************************)
(* Instances of Library, with the start of the kernel and its threads, and *)
(* of Vmm for TLC.  They share no variable: a behaviour follows kmain to   *)
(* its end, or from the point where console_init has mapped the            *)
(* framebuffer it follows what is done to the address spaces.              *)
(***************************************************************************)
EXTENDS Library, Vmm

CONSTANTS w1, w2, u1

\* The threads.
TwoThreads == {w1, w2}
Symmetry == Permutations(TwoThreads)
FewDepths == {0, 1, 2, 6, 30}
Late == {4, 7}
Soon == {1}

\* The address spaces: areas that are faulted in, that map a device, and that have
\* neither flag.
OneSpace == {u1}
SmallAreas == {1, 2}
SomeFrames == 5..14
SomeFlags == {{"WRITE", "ANON"}, {"WRITE", "MMIO", "USER"}, {"USER"}}

VARIABLE part     \* the one that moves

Init == BootInit /\ VmmInit /\ part = "boot"

boot_step == part = "boot" /\ Next /\ UNCHANGED <<part, vmm_vars>>
framebuffer_mapped ==
    /\ part = "boot" /\ stage = "acpi_init" /\ "console" \in initialized
    /\ part' = "vmm"
    /\ UNCHANGED <<vars, vmm_vars>>
vmm_step == part = "vmm" /\ VmmNext /\ UNCHANGED <<part, vars>>

KernelSpec == Init /\ [][boot_step \/ framebuffer_mapped \/ vmm_step]_<<part, vars, vmm_vars>>

=============================================================================
