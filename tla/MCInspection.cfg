CONSTANTS
    NoThread = NoThread
    Thread = {a, b, c}
    NativeUser = {a}
    CriticalUser = {}
    Requester = {a}
    Mortal = {}
    Inspector = {b, c}
    Suspender = {}
    MaxCriticalNesting = 1
    StoreBufferSize = 1
    MaxExclusiveDepth = 1
SPECIFICATION InspectSpec
SYMMETRY InspectorSymmetry
INVARIANTS InspectedIsHalted ExclusiveExcludesInspectors InspectionsCounted
