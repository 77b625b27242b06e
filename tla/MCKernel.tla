------------------------------ MODULE MCKernel ------------------------------
(* Small instances of Kernel.  Every .cfg file gives its own constants.     *)
EXTENDS Kernel

SemCounts == {-1, 0, 2}

=============================================================================
