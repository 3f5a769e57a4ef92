CONSTANTS
    NoThread = NoThread
    Thread = {a, b, c}
    NativeUser = {a}
    CriticalUser = {}
    Requester = {a, b}
    Mortal = {b}
    SafePointer = {a, c}
    MaxCriticalNesting = 1
    StoreBufferSize = 1
    MaxExclusiveDepth = 1
    MaxSafePointDepth = 2
SPECIFICATION PointSpec
CHECK_DEADLOCK FALSE
INVARIANTS SafePointMeansAlone SafePointResponsesAccounted SafePointLeavesNothing
