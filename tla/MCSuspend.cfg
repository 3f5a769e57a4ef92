CONSTANTS
    NoThread = NoThread
    Thread = {a, b}
    NativeUser = {a, b}
    CriticalUser = {a}
    Requester = {a}
    Mortal = {}
    Inspector = {a, b}
    Suspender = {b}
    MaxCriticalNesting = 1
    StoreBufferSize = 1
    MaxExclusiveDepth = 1
SPECIFICATION FairInspectSpec
PROPERTY InspectionsHappen
INVARIANT SuspendedIsHalted
CHECK_DEADLOCK FALSE
