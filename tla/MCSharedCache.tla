--------------------------- MODULE MCSharedCache ---------------------------
(* Instances of SharedCache: two or three JVMs of one or two threads.      *)
EXTENDS SharedCache, TLC

CONSTANTS a, b, c, V, W, X

Threads == {a, b, c}

\* Each thread in a JVM of its own, or the last two in the same one.
Apart == [t \in Thread |-> CASE t = a -> V [] t = b -> W [] OTHER -> X]
Together == [t \in Thread |-> IF t = a THEN V ELSE W]

\* A JVM that dies anywhere, but not between the two stores that publish an item and count it.
Anywhere == Label \ {"new", "dead", "published"}
AnyLabel == Label \ {"new", "dead"}
=============================================================================
