--------------------------- MODULE MCComputeUnit ---------------------------
(***************************************************************************)
(* Kernels and hint files for TLC.                                         *)
(***************************************************************************)
EXTENDS ComputeUnit

Hint(offset) == [mode |-> 0, offset1 |-> offset, offset2 |-> 0]

\* Two waits and two barriers.  From the first wait the hints lead ahead to
\* the ALU instruction, and from there back to the load before it.
Kernel ==
    <<"vmem", "wait", "smrd", "valu", "wait", "barrier", "barrier", "lds", "end">>
KernelHints ==
    [p \in {2, 4} |-> IF p = 2 THEN Hint(2)
                      ELSE [mode |-> 1, offset1 |-> -1, offset2 |-> 2]]

\* Three waits.  The first hint leads far ahead.
WaitKernel == <<"vmem", "wait", "wait", "salu", "wait", "lds", "vmem", "end">>
WaitHints == [p \in {2} |-> Hint(5)]

\* A kernel whose last instruction does not depend on the one before it.
ShortKernel == <<"vmem", "wait", "branch", "end">>
NoHints == << >>
=============================================================================
