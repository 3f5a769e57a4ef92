CONSTANTS
    NoThread = NoThread
    Thread = {a, b}
    External = {x}
    NativeUser = {b}
    CriticalUser = {}
    Requester = {a}
    Mortal = {}
    MaxCriticalNesting = 1
    StoreBufferSize = 1
    MaxExclusiveDepth = 1
SPECIFICATION FairExternalSpec
INVARIANT ExternalMeansStopped
PROPERTIES ExternalRequestsHappen QueuedBehindExternal
