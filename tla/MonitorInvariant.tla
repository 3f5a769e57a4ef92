-------------------------- MODULE MonitorInvariant ---------------------------
(***************************************************************************)
(* The inductive invariant of ObjectMonitor: what each place in the code   *)
(* implies for the lock word, the omrthread monitor and the word a thread  *)
(* has loaded and is about to store.                                       *)
(***************************************************************************)
EXTENDS ObjectMonitor

Cancelling == {"cancelWait", "cancelSwap"}
Queueing   == {"restart", "rawEnter", "reacquire", "timedWait"}
HasRaw     == {"loop", "flc", "loopEnter"}
InWait     == {"rawWait", "waiting", "waitAcquire"}
Stale      == {"enterSeen", "exitSeen"} \cup Inflating
Pinning    == Queueing \cup HasRaw \cup InWait \cup {"gotFlat", "passFLC", "unpin"}
Label      == Stale \cup Pinning \cup Cancelling
              \cup {"java", "block", "cancelled", "tryEnter", "exitRaw", "exitDeflated", "waitPin"}

Pinned == {t \in Thread : pc[t] \in Pinning}

(* S has n elements: 1..n enumerates them without repetition. *)
Counts(n, S) ==
    /\ n \in Nat
    /\ \E f \in [1..n -> S] : /\ \A s \in S : \E i \in 1..n : f[i] = s
                              /\ \A i, j \in 1..n : f[i] = f[j] => i = j

PinsCounted == Counts(pinCount, Pinned)

LockWord == [owner : Thread \cup {NoThread}, count : 0..MaxRecursion,
             flc : BOOLEAN, reserved : BOOLEAN, inflated : BOOLEAN]

MonitorTypes ==
    /\ lockword \in LockWord
    /\ seen \in [Thread -> LockWord]
    /\ raw \in [owner : Thread \cup {NoThread}, count : Nat]
    /\ rawWaiting \subseteq Thread /\ vmAccess \subseteq Thread
    /\ inflated \in BOOLEAN /\ stopping \in BOOLEAN
    /\ pinCount \in Int
    /\ saved \in [Thread -> Nat] /\ depth \in [Thread -> Nat]
    /\ pc \in [Thread -> Label]
    /\ inspected \in [Thread -> SUBSET Thread]

(* The thread does not hold the lock; it has it flat or reserved, and the word counts
   its entries; it has it inflated, and the omrthread monitor does; it has the omrthread
   monitor only. *)
Away(t)     == depth[t] = 0 /\ lockword.owner # t /\ raw.owner # t
FlatHeld(t) == lockword.owner = t /\ FlatCount(lockword) = depth[t] /\ raw.owner # t
RawHeld(t)  == /\ lockword.inflated /\ depth[t] > 0
               /\ raw.owner = t /\ raw.count = depth[t]
RawOnly(t)  == depth[t] = 0 /\ lockword.owner # t /\ raw.owner = t /\ raw.count = 1

(* What the owner loaded is still the lock word, but for the FLC bit. *)
SameWord(t) ==
    /\ seen[t].owner = t /\ ~seen[t].inflated
    /\ lockword.owner = t /\ lockword.count = seen[t].count
    /\ lockword.reserved = seen[t].reserved

SawInflated(t) == seen[t].inflated /\ seen[t].owner = NoThread

HoldInv(t) ==
    /\ pc[t] = "java" => Away(t) \/ FlatHeld(t) \/ RawHeld(t)
    /\ pc[t] \in {"block", "cancelled"} \cup Cancelling \cup Queueing => Away(t)
    /\ pc[t] = "enterSeen" => \/ SameWord(t) /\ FlatHeld(t)
                              \/ SawInflated(t) /\ RawHeld(t)
                              \/ seen[t].owner # t /\ Away(t)
    /\ pc[t] = "exitSeen" => /\ depth[t] > 0
                             /\ (SameWord(t) /\ FlatHeld(t)) \/ (SawInflated(t) /\ RawHeld(t))
    /\ pc[t] \in Inflating => SameWord(t) /\ FlatHeld(t) /\ depth[t] > 0
    /\ pc[t] \in {"tryEnter", "exitRaw", "waitPin", "rawWait", "waitAcquire"} => RawHeld(t)
    /\ pc[t] \in HasRaw \cup {"exitDeflated"} => RawOnly(t)
    /\ pc[t] = "gotFlat" => /\ lockword.owner = t /\ FlatCount(lockword) = 1 /\ depth[t] = 1
                            /\ raw.owner = t /\ raw.count = 1
    /\ pc[t] = "passFLC" => FlatHeld(t) /\ depth[t] = 1
    /\ pc[t] = "unpin" => depth[t] > 0 /\ (FlatHeld(t) \/ RawHeld(t))
    /\ pc[t] = "waiting" => depth[t] > 0 /\ saved[t] = depth[t] /\ raw.owner # t

FormInv(t) ==
    /\ pc[t] \in {"flc", "loopEnter", "gotFlat", "exitDeflated"} => ~inflated
    /\ pc[t] \in InWait => inflated
    /\ pc[t] \in {"block", "cancelled"} \cup Cancelling \cup Queueing \cup HasRaw => lockword # Reserved
    /\ pc[t] = "enterSeen" /\ seen[t].inflated => lockword # Reserved

HaltInv(t) ==
    /\ pc[t] \in Stale => t \in vmAccess
    /\ pc[t] \in Cancelling => seen[t].owner \in Thread /\ t \in inspected[seen[t].owner]
    /\ pc[t] = "cancelSwap" => seen[t].owner \notin vmAccess

WordInv ==
    /\ lockword.inflated <=> inflated
    /\ lockword.owner = NoThread => lockword \in {Unlocked, Reserved, Inflated}
    /\ lockword.owner # NoThread => ~lockword.inflated
    /\ raw.owner = NoThread <=> raw.count = 0

Known(t) == HoldInv(t) /\ FormInv(t) /\ HaltInv(t)

MonitorInv ==
    /\ MonitorTypes /\ WordInv /\ WaitSetIsOfOneKind /\ PinsCounted
    /\ \A t \in Thread : Known(t)
=============================================================================
