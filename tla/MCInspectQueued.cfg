CONSTANTS
    NoThread = NoThread
    Thread = {a, b, c}
    NativeUser = {a, b, c}
    CriticalUser = {}
    Requester = {a, b}
    Mortal = {}
    Inspector = {c}
    Suspender = {}
    MaxCriticalNesting = 1
    StoreBufferSize = 1
    MaxExclusiveDepth = 1
SPECIFICATION InspectSpec
INVARIANT InspectedIsHalted
