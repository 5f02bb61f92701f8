SPECIFICATION FairSpec
CONSTANTS
    Wavefronts = {w1, w2}
    Program <- Kernel
    HintFile = TRUE
    Hints <- KernelHints
    NumSlots = 2
INVARIANTS TypeOK NothingStranded UopsConserved InflightExact CleanUnmap BarrierLockstep
PROPERTY WavefrontsEnd
CHECK_DEADLOCK FALSE
