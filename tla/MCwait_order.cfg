SPECIFICATION Spec
CONSTANTS
    Wavefronts = {w1}
    Program <- WaitKernel
    HintFile = TRUE
    Hints <- WaitHints
    NumSlots = 3
INVARIANT WaitsBefore
CHECK_DEADLOCK FALSE
