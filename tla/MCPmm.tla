------------------------------- MODULE MCPmm -------------------------------
(* A small memory for Pmm: a page is 8 bytes, the struct of a page 3. *)
EXTENDS Pmm

OneEntry == {<<[type |-> "usable", base |-> 0, length |-> 80]>>}
PageSizes == {8, 9}

=============================================================================
