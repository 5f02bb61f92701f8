SPECIFICATION FairSpec
CONSTANTS
    IntRegs = {10, 13}
    FlagRegs = {11, 12}
    XmmRegs = {20}
    FpRegs <- MCFpRegs
    StackSize = 2
    RegSize <- MCSizes
    Configs <- MCPreempted
    ContextIds <- MCContexts
    MaxLength = 6
    MaxUops = 8
PROPERTY SignalledLeaves
CHECK_DEADLOCK FALSE
