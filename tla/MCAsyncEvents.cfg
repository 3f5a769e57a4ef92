CONSTANTS
    Thread = {a, b}
    MaxHandlers = 2
    Handler = {g, h}
    NoHandler = NoHandler
    Blocking = {g}
    Cancellable = {g}
    Quiet = {h}
SPECIFICATION Spec
INVARIANTS UnregisteredRunsNowhere CalledWithOwnData CalledWhenSignalled EventsAreSeen
