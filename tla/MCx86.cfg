SPECIFICATION FairSpec
CONSTANTS
    IntRegs = {10, 13}
    FlagRegs = {11, 12}
    XmmRegs = {20}
    FpRegs <- MCFpRegs
    StackSize = 2
    RegSize <- MCSizes
    Configs <- MCConfigs
    ContextIds <- MCContexts
    MaxLength = 6
    MaxUops = 8
INVARIANTS NoPanic RegistersExact
PROPERTIES CommitsInOrder ContextsFinish
