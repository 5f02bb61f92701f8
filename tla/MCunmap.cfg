SPECIFICATION Spec
CONSTANTS
    Wavefronts = {w1, w2}
    Program <- ShortKernel
    HintFile = FALSE
    Hints <- NoHints
    NumSlots = 4
INVARIANT FinishedIsUnmapped
CHECK_DEADLOCK FALSE
