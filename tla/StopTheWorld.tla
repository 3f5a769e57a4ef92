---------------------------- MODULE StopTheWorld ----------------------------
(***************************************************************************)
(* What exclusive VM access promises, without flags, counters or monitors: *)
(* threads touch the heap; a requester waits its turn in a queue, is       *)
(* granted the heap when nobody else touches it, and nobody else starts to *)
(* touch it until the owner lets go.                                       *)
(***************************************************************************)
EXTENDS Sequences

CONSTANTS Thread, NoThread

VARIABLES
    running,  \* the threads that may read and write objects
    owner,    \* the thread with exclusive access
    waiters   \* the requesters, oldest first

worldVars == <<running, owner, waiters>>

Init == running = {} /\ owner = NoThread /\ waiters = <<>>

Start(t) ==
    /\ owner = NoThread
    /\ running' = running \cup {t}
    /\ UNCHANGED <<owner, waiters>>

Stop(t) ==
    /\ owner # t
    /\ running' = running \ {t}
    /\ UNCHANGED <<owner, waiters>>

(* Who finds the lock taken stops running while it waits. *)
Request(t) ==
    /\ owner # t
    /\ \A i \in DOMAIN waiters : waiters[i] # t
    /\ waiters' = Append(waiters, t)
    /\ running' \in {running, running \ {t}}
    /\ UNCHANGED owner

Grant(t) ==
    /\ owner = NoThread
    /\ waiters # <<>> /\ Head(waiters) = t
    /\ running = {t}
    /\ owner' = t
    /\ waiters' = Tail(waiters)
    /\ UNCHANGED running

Release(t) ==
    /\ owner = t
    /\ owner' = NoThread
    /\ UNCHANGED <<running, waiters>>

Next == \E t \in Thread : Start(t) \/ Stop(t) \/ Request(t) \/ Grant(t) \/ Release(t)

Spec == Init /\ [][Next]_worldVars
=============================================================================
