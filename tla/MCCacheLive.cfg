SPECIFICATION FairSpec
CONSTANTS
  a = a
  b = b
  c = c
  V = V
  W = W
  X = X
  NoThread = NoThread
  Thread <- Threads
  VM = {V, W}
  VMOf <- Together
  MaxItems = 1
  MaxCrash = 1
  CrashLabel <- AnyLabel
  Marker = {a}
  SlowReaders = FALSE
  Cramped = {W}
PROPERTIES ReadersGetIn LocksAreGranted
