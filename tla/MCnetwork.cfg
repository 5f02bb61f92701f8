SPECIFICATION FairSpec
CONSTANTS
    Nets <- MCNets
    NodeIds <- MCNodeIds
    MessageIds <- MCMessageIds
    MaxEnds = 3
    MaxMessages = 3
INVARIANTS TypeOK NoPanic PacketsConserved SleepersBlocked
PROPERTIES RoutesShortest CycleWarned IsChannel MessagesArrive
