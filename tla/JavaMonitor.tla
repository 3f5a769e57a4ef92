----------------------------- MODULE JavaMonitor -----------------------------
(***************************************************************************)
(* What the monitor of a Java object promises: one owner at a time, who    *)
(* may enter again; Object.wait gives the monitor up and gets it back, with *)
(* the same nesting, some time after a notification, a timeout or an       *)
(* interrupt.                                                              *)
(***************************************************************************)
EXTENDS Naturals

CONSTANT Thread

VARIABLES
    depth,   \* how often a thread has entered and not exited the monitor
    waiting  \* the threads in Object.wait

Owns(t) == depth[t] > 0 /\ t \notin waiting
Free    == \A t \in Thread : ~Owns(t)

Init == depth = [t \in Thread |-> 0] /\ waiting = {}

Enter(t) ==
    /\ t \notin waiting
    /\ Owns(t) \/ Free
    /\ depth' = [depth EXCEPT ![t] = @ + 1]
    /\ UNCHANGED waiting

Exit(t) ==
    /\ Owns(t)
    /\ depth' = [depth EXCEPT ![t] = @ - 1]
    /\ UNCHANGED waiting

Wait(t) ==
    /\ Owns(t)
    /\ waiting' = waiting \cup {t}
    /\ UNCHANGED depth

Resume(t) ==
    /\ t \in waiting /\ Free
    /\ waiting' = waiting \ {t}
    /\ UNCHANGED depth

Next == \E t \in Thread : Enter(t) \/ Exit(t) \/ Wait(t) \/ Resume(t)

Spec == Init /\ [][Next]_<<depth, waiting>>
=============================================================================
