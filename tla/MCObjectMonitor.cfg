CONSTANTS
    NoThread = NoThread
    Thread = {a, b}
    MaxRecursion = 1
    MaxDepth = 3
    Reservable = TRUE
    Waiter = {a, b}
SPECIFICATION FairSpec
INVARIANTS NestingIsKept WaitSetIsOfOneKind
PROPERTIES IsJavaMonitor FreeMonitorIsEntered StopIsGranted
