SPECIFICATION Spec
CONSTANTS
  a = a
  b = b
  c = c
  V = V
  W = W
  X = X
  NoThread = NoThread
  Thread <- Threads
  VM = {V, W, X}
  VMOf <- Apart
  MaxItems = 3
  MaxCrash = 2
  CrashLabel <- Anywhere
  Marker = {a}
  SlowReaders = FALSE
  Cramped = {V}
INVARIANTS VisibleItemsAreWhole ReadersAreCounted MarkerIsAlone WriterKnowsEveryItem
