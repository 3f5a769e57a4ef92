CONSTANTS
    NoThread = NoThread
    Thread = {a, b}
    NativeUser = {a, b}
    CriticalUser = {b}
    Requester = {a, b}
    Mortal = {b}
    SafePointer = {a, b}
    MaxCriticalNesting = 1
    StoreBufferSize = 1
    MaxExclusiveDepth = 1
    MaxSafePointDepth = 1
SPECIFICATION FairPointSpec
PROPERTIES RequestsAreGranted DyingThreadsLeave SafePointsAreGranted SafePointThreadsResume
