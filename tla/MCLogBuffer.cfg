SPECIFICATION Spec
CONSTANTS
    t1 = t1
    t2 = t2
    Threads <- MCThreads
    Sizes = {1, 3}
    LineSize = 2
    capacity = 2
    max_bytes = 8
    BatchLines = 2
    BatchBytes = 4
    MaxLogged = 2
    MaxLosses = 1
INVARIANT WithinLimits
INVARIANT Accounted
INVARIANT InOrder
PROPERTY NeverRefusesWhatFits
PROPERTY DropsAreTold
PROPERTY ImplementsLossyQueue
