CONSTANTS
    NoThread = NoThread
    NoClass = NoClass
    Thread = {a, b}
    sup = sup
    sub = sub
    int = int
    tag = tag
    a = a
    b = b
    Asks <- MCAsks
    Class = {sup, sub, int, tag}
    Interface = {int, tag}
    HasDefaults = {int}
    Super <- MCSuper
    Interfaces <- MCInterfaces
    Uses <- Cyclic
    Poppable = {a}
SPECIFICATION FairSpec
CHECK_DEADLOCK FALSE
INVARIANTS ClinitRunsOnce SupertypesInitializedFirst InProgressHasThread
PROPERTIES ReturnsInitialized InitializationEnds
