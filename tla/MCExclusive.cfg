CONSTANTS
    NoThread = NoThread
    Thread = {a, b}
    NativeUser = {a, b}
    CriticalUser = {a, b}
    Requester = {a, b}
    Mortal = {b}
    MaxCriticalNesting = 2
    StoreBufferSize = 1
    MaxExclusiveDepth = 2
SPECIFICATION Spec
INVARIANTS AssertionsHold ExclusiveMeansAlone ResponsesAccounted
PROPERTY ImplementsStopTheWorld
