---------------------------- MODULE ObjectMonitor ----------------------------
(***************************************************************************)
(* The monitor of one Java object: the lock word, which is flat, reserved  *)
(* or inflated, and the omrthread monitor behind it.                       *)
(*                                                                         *)
(* Models runtime/vm/ObjectMonitor.cpp, runtime/oti/ObjectMonitor.hpp,     *)
(* runtime/vm/monhelpers.c and Object.wait and notify                      *)
(* (runtime/vm/threadhelp.cpp, runtime/vm/FastJNI_java_lang_Object.cpp).   *)
(*                                                                         *)
(* Grain.  The lock word is written by compare-and-swap or, by its owner,  *)
(* by a plain store of a value computed from an earlier load: load and     *)
(* store are two steps.  What is done to the omrthread monitor while it is *)
(* held is one step.  VM access is what matters here of VMAccess: a thread *)
(* that is halted cannot take it, and whoever halts waits until it is      *)
(* released.  Spinning only repeats what EnterFast and TryEnter do.        *)
(***************************************************************************)
EXTENDS Integers, FiniteSets

CONSTANTS
    Thread,
    NoThread,
    MaxRecursion,  \* the largest value of the recursion bits (31 in the code)
    MaxDepth,      \* bound on how often a thread enters the monitor
    Reservable,    \* the lock word starts as RESERVED
    Waiter         \* the threads that call Object.wait

ASSUME MonitorAssumption ==
    /\ IsFiniteSet(Thread) /\ NoThread \notin Thread
    /\ MaxRecursion \in Nat \ {0} /\ MaxDepth \in Nat \ {0}
    /\ Reservable \in BOOLEAN /\ Waiter \subseteq Thread

VARIABLES
    lockword,   \* owner, recursion bits, FLC, RESERVED and INFLATED bits
    seen,       \* the lock word as the thread last loaded it
    raw,        \* the omrthread monitor: owner and count
    rawWaiting, \* its wait set
    inflated,   \* J9THREAD_MONITOR_INFLATED of its flags
    pinCount,
    saved,      \* the count a thread in Object.wait gets back
    pc,
    vmAccess,   \* the threads that have VM access
    stopping,   \* somebody asks for exclusive VM access
    inspected,  \* for each thread, those who halted it for inspection
    depth       \* how often a thread has entered the monitor

lockVars == <<lockword, seen>>
rawVars  == <<raw, rawWaiting, inflated, pinCount, saved>>
vmVars   == <<vmAccess, stopping, inspected>>
vars     == <<lockVars, rawVars, pc, vmVars, depth>>

-----------------------------------------------------------------------------
(* Lock words. *)

Word(owner, count, flc, reserved, infl) ==
    [owner |-> owner, count |-> count, flc |-> flc, reserved |-> reserved, inflated |-> infl]

Unlocked == Word(NoThread, 0, FALSE, FALSE, FALSE)
Inflated == Word(NoThread, 0, FALSE, FALSE, TRUE)
Reserved == Word(NoThread, 0, FALSE, TRUE, FALSE)
Mine(t)  == Word(t, 0, FALSE, FALSE, FALSE)

(* J9_FLATLOCK_COUNT *)
FlatCount(word) == word.count + (IF word.reserved THEN 0 ELSE 1)

Goto(t, label) == pc' = [pc EXCEPT ![t] = label]
Load(t) == seen' = [seen EXCEPT ![t] = lockword]
Entered(t) == depth' = [depth EXCEPT ![t] = @ + 1]

(* The omrthread monitor: entered when free, exited once or given up. *)
RawFree      == raw.owner = NoThread
RawOwn(t, n) == raw' = [owner |-> t, count |-> n]
RawExit      == raw' = IF raw.count = 1 THEN [owner |-> NoThread, count |-> 0]
                       ELSE [raw EXCEPT !.count = @ - 1]

(* VM access: internalReleaseVMAccess, internalTryAcquireVMAccess. *)
MayRun(t)  == ~stopping /\ inspected[t] = {}
Release(t) == vmAccess' = vmAccess \ {t}
Acquire(t) == MayRun(t) /\ vmAccess' = vmAccess \cup {t}

-----------------------------------------------------------------------------
(* Enter: objectMonitorEnterNonBlocking. *)

(* inlineFastInitAndEnterMonitor on an unlocked object, at first or spinning. *)
EnterFast(t) ==
    /\ pc[t] \in {"java", "cancelled"} \/ (pc[t] = "enterSeen" /\ ~seen[t].inflated)
    /\ t \in vmAccess /\ depth[t] < MaxDepth
    /\ lockword = Unlocked
    /\ lockword' = Mine(t)
    /\ Entered(t)
    /\ Goto(t, "java")
    /\ UNCHANGED <<seen, rawVars, vmVars>>

EnterLoad(t) ==
    /\ pc[t] = "java" /\ t \in vmAccess /\ depth[t] < MaxDepth
    /\ lockword # Unlocked
    /\ Load(t)
    /\ Goto(t, "enterSeen")
    /\ UNCHANGED <<lockword, rawVars, vmVars, depth>>

(* A recursive flat lock: the incremented word is stored, whatever happened to
   the FLC bit since it was loaded. *)
EnterRecursive(t) ==
    /\ pc[t] = "enterSeen"
    /\ seen[t].owner = t /\ seen[t].count < MaxRecursion
    /\ lockword' = [seen[t] EXCEPT !.count = @ + 1]
    /\ Entered(t)
    /\ Goto(t, "java")
    /\ UNCHANGED <<seen, rawVars, vmVars>>

(* Nobody has reserved the lock yet: make a reservation and enter. *)
EnterReserve(t) ==
    /\ pc[t] = "enterSeen"
    /\ seen[t] = Reserved /\ lockword = Reserved
    /\ lockword' = Word(t, 1, FALSE, TRUE, FALSE)
    /\ Entered(t)
    /\ Goto(t, "java")
    /\ UNCHANGED <<seen, rawVars, vmVars>>

(* The recursion bits are full: inflate, then enter once more. *)
EnterFull(t) ==
    /\ pc[t] = "enterSeen"
    /\ seen[t].owner = t /\ seen[t].count = MaxRecursion
    /\ Goto(t, "inflateTry")
    /\ UNCHANGED <<lockVars, rawVars, vmVars, depth>>

(* spinOnTryEnter: the monitor counts only if the lock is still inflated. *)
TryEnter(t) ==
    /\ pc[t] = "tryEnter" \/ (pc[t] = "enterSeen" /\ seen[t].inflated)
    /\ IF raw.owner = t \/ (RawFree /\ lockword.inflated)
       THEN RawOwn(t, raw.count + 1) /\ Entered(t) /\ Goto(t, "java")
       ELSE Goto(t, "block") /\ UNCHANGED <<raw, depth>>
    /\ UNCHANGED <<lockVars, rawWaiting, inflated, pinCount, saved, vmVars>>

(* Another thread has the flat lock, or the compare-and-swap failed. *)
EnterContended(t) ==
    /\ pc[t] = "enterSeen"
    /\ ~seen[t].inflated /\ seen[t].owner # t
    /\ lockword \notin {Unlocked, Reserved}
    /\ Goto(t, "block")
    /\ UNCHANGED <<lockVars, rawVars, vmVars, depth>>

-----------------------------------------------------------------------------
(* objectMonitorInflate, by the owner of the flat lock, who keeps VM access
   while waiting for the omrthread monitor. *)

AfterInflate(label) ==
    CASE label = "inflateTry"  -> "tryEnter"
      [] label = "inflateExit" -> "exitRaw"
      [] label = "inflateWait" -> "waitPin"

Inflating == {"inflateTry", "inflateExit", "inflateWait"}

(* Fault: the threads that wait for the flat lock are not woken. *)
InflateSilently(t) ==
    /\ pc[t] \in Inflating
    /\ RawFree
    /\ RawOwn(t, FlatCount(seen[t]))
    /\ lockword' = Inflated
    /\ inflated' = TRUE
    /\ Goto(t, AfterInflate(pc[t]))
    /\ UNCHANGED <<seen, rawWaiting, pinCount, saved, vmVars, depth>>

objectMonitorInflate(t) ==
    /\ pc[t] \in Inflating
    /\ RawFree
    /\ RawOwn(t, FlatCount(seen[t]))
    /\ lockword' = Inflated
    /\ inflated' = TRUE
    /\ rawWaiting' = {}
    /\ Goto(t, AfterInflate(pc[t]))
    /\ UNCHANGED <<seen, pinCount, saved, vmVars, depth>>

-----------------------------------------------------------------------------
(* cancelLockReservation: the owner of the reservation is halted, because it
   changes the lock word with plain stores. *)

(* Fault: the owner of the reservation is not waited for. *)
CancelNoHalt(t) ==
    /\ pc[t] = "block" /\ lockword.reserved
    /\ Load(t)
    /\ inspected' = [inspected EXCEPT ![lockword.owner] = @ \cup {t}]
    /\ Goto(t, "cancelSwap")
    /\ UNCHANGED <<lockword, rawVars, vmAccess, stopping, depth>>

CancelHalt(t) ==
    /\ pc[t] = "block" /\ lockword.reserved
    /\ Load(t)
    /\ inspected' = [inspected EXCEPT ![lockword.owner] = @ \cup {t}]
    /\ IF lockword.owner \in vmAccess
       THEN Release(t) /\ Goto(t, "cancelWait")
       ELSE UNCHANGED vmAccess /\ Goto(t, "cancelSwap")
    /\ UNCHANGED <<lockword, rawVars, stopping, depth>>

CancelHalted(t) ==
    /\ pc[t] = "cancelWait"
    /\ seen[t].owner \notin vmAccess
    /\ Acquire(t)
    /\ Goto(t, "cancelSwap")
    /\ UNCHANGED <<lockVars, rawVars, stopping, inspected, depth>>

(* The unreserved word that stands for the same nesting. *)
Unreserve(word) ==
    IF word.count > 0 THEN [word EXCEPT !.count = @ - 1, !.reserved = FALSE] ELSE Unlocked

CancelSwap(t) ==
    /\ pc[t] = "cancelSwap"
    /\ lockword' = IF lockword.owner = seen[t].owner /\ lockword.reserved
                   THEN Unreserve(lockword) ELSE lockword
    /\ inspected' = [inspected EXCEPT ![seen[t].owner] = @ \ {t}]
    /\ Goto(t, "cancelled")
    /\ UNCHANGED <<seen, rawVars, vmAccess, stopping, depth>>

(* The lock could not be taken at once: look at the lock word again. *)
CancelAgain(t) ==
    /\ pc[t] = "cancelled" /\ lockword # Unlocked
    /\ Goto(t, "block")
    /\ UNCHANGED <<lockVars, rawVars, vmVars, depth>>

-----------------------------------------------------------------------------
(* objectMonitorEnterBlocking, once the lock is not reserved. *)

BlockPin(t) ==
    /\ pc[t] = "block" /\ ~lockword.reserved
    /\ pinCount' = pinCount + 1
    /\ Goto(t, "restart")
    /\ UNCHANGED <<lockVars, raw, rawWaiting, inflated, saved, vmVars, depth>>

Restart(t) ==
    /\ pc[t] = "restart"
    /\ Release(t)
    /\ Goto(t, "rawEnter")
    /\ UNCHANGED <<lockVars, rawVars, stopping, inspected, depth>>

(* omrthread_monitor_enter, and coming back from a timed wait. *)
RawEnter(t) ==
    /\ pc[t] = "rawEnter" /\ RawFree
    /\ RawOwn(t, 1)
    /\ Goto(t, "loop")
    /\ UNCHANGED <<lockVars, rawWaiting, inflated, pinCount, saved, vmVars, depth>>

(* The monitor is inflated, so holding it is owning the object. *)
LoopInflated(t) ==
    /\ pc[t] = "loop" /\ inflated
    /\ Acquire(t)
    /\ Entered(t)
    /\ Goto(t, "unpin")
    /\ UNCHANGED <<lockVars, rawVars, stopping, inspected>>

(* Fault: the thread tries again for VM access, holding the monitor. *)
LoopRefusedHolding(t) ==
    /\ pc[t] = "loop" /\ ~inflated /\ ~MayRun(t)
    /\ UNCHANGED vars

(* VM access is to be had only by waiting: not while holding the monitor. *)
LoopRefused(t) ==
    /\ pc[t] = "loop" /\ ~inflated /\ ~MayRun(t)
    /\ RawExit
    /\ Goto(t, "reacquire")
    /\ UNCHANGED <<lockVars, rawWaiting, inflated, pinCount, saved, vmVars, depth>>

Reacquire(t) ==
    /\ pc[t] = "reacquire"
    /\ Acquire(t)
    /\ Goto(t, "restart")
    /\ UNCHANGED <<lockVars, rawVars, stopping, inspected, depth>>

LoopAcquire(t) ==
    /\ pc[t] = "loop" /\ ~inflated
    /\ Acquire(t)
    /\ Goto(t, "flc")
    /\ UNCHANGED <<lockVars, rawVars, stopping, inspected, depth>>

(* Ensure FLC bit is set, unless the lock has become free. *)
SetFLC(t) ==
    /\ pc[t] = "flc"
    /\ lockword' = IF lockword = Unlocked THEN lockword ELSE [lockword EXCEPT !.flc = TRUE]
    /\ Goto(t, "loopEnter")
    /\ UNCHANGED <<seen, rawVars, vmVars, depth>>

(* The flat lock is free: enter it, and leave the monitor. *)
LoopEnter(t) ==
    /\ pc[t] = "loopEnter" /\ lockword = Unlocked
    /\ lockword' = Mine(t)
    /\ Entered(t)
    /\ Goto(t, "gotFlat")
    /\ UNCHANGED <<seen, rawVars, vmVars>>

GotFlat(t) ==
    /\ pc[t] = "gotFlat"
    /\ RawExit
    /\ Goto(t, "passFLC")
    /\ UNCHANGED <<lockVars, rawWaiting, inflated, pinCount, saved, vmVars, depth>>

(* FLC is left for those still behind in the queue. *)
PassFLC(t) ==
    /\ pc[t] = "passFLC"
    /\ lockword' = [lockword EXCEPT !.flc = TRUE]
    /\ Goto(t, "unpin")
    /\ UNCHANGED <<seen, rawVars, vmVars, depth>>

(* The flat lock is held: omrthread_monitor_wait_timed, without VM access. *)
LoopWait(t) ==
    /\ pc[t] = "loopEnter" /\ lockword # Unlocked
    /\ Release(t)
    /\ RawExit
    /\ rawWaiting' = rawWaiting \cup {t}
    /\ Goto(t, "timedWait")
    /\ UNCHANGED <<lockVars, inflated, pinCount, saved, stopping, inspected, depth>>

(* Fault: the wait is not timed. *)
WakeNotified(t) ==
    /\ pc[t] = "timedWait" /\ t \notin rawWaiting
    /\ Goto(t, "rawEnter")
    /\ UNCHANGED <<lockVars, rawVars, vmVars, depth>>

(* Notified by the thread that inflates, or 1, 4, 16 or 64 ms are over. *)
Wake(t) ==
    /\ pc[t] = "timedWait"
    /\ rawWaiting' = rawWaiting \ {t}
    /\ Goto(t, "rawEnter")
    /\ UNCHANGED <<lockVars, raw, inflated, pinCount, saved, vmVars, depth>>

Unpin(t) ==
    /\ pc[t] = "unpin"
    /\ pinCount' = pinCount - 1
    /\ Goto(t, "java")
    /\ UNCHANGED <<lockVars, raw, rawWaiting, inflated, saved, vmVars, depth>>

-----------------------------------------------------------------------------
(* Exit: inlineFastObjectMonitorExit and objectMonitorExit. *)

ExitLoad(t) ==
    /\ pc[t] = "java" /\ t \in vmAccess /\ depth[t] > 0
    /\ Load(t)
    /\ Goto(t, "exitSeen")
    /\ UNCHANGED <<lockword, rawVars, vmVars, depth>>

(* The flat lock is released or its count decremented by a plain store; an FLC
   bit set since the load is lost. *)
ExitFlat(t) ==
    /\ pc[t] = "exitSeen" /\ seen[t].owner = t
    /\ ~(seen[t].flc /\ seen[t].count = 0)
    /\ lockword' = IF seen[t].count = 0 THEN Unlocked ELSE [seen[t] EXCEPT !.count = @ - 1]
    /\ depth' = [depth EXCEPT ![t] = @ - 1]
    /\ Goto(t, "java")
    /\ UNCHANGED <<seen, rawVars, vmVars>>

(* Somebody waits for the flat lock: inflate, so as to wake them. *)
ExitContended(t) ==
    /\ pc[t] = "exitSeen" /\ seen[t].owner = t
    /\ seen[t].flc /\ seen[t].count = 0
    /\ Goto(t, "inflateExit")
    /\ UNCHANGED <<lockVars, rawVars, vmVars, depth>>

(* Fault: the wait set is looked at, not the pin count. *)
ExitDeflateUnwaited(t) ==
    /\ pc[t] = "exitSeen" /\ seen[t].inflated
    /\ raw.count = 1 /\ rawWaiting = {}
    /\ inflated' = FALSE
    /\ lockword' = Unlocked
    /\ depth' = [depth EXCEPT ![t] = @ - 1]
    /\ Goto(t, "exitDeflated")
    /\ UNCHANGED <<seen, raw, rawWaiting, pinCount, saved, vmVars>>

(* The last exit from an inflated monitor that is not pinned: the deflation
   policy decides. *)
ExitDeflate(t) ==
    /\ pc[t] = "exitSeen" /\ seen[t].inflated
    /\ raw.count = 1 /\ pinCount = 0
    /\ inflated' = FALSE
    /\ lockword' = Unlocked
    /\ depth' = [depth EXCEPT ![t] = @ - 1]
    /\ Goto(t, "exitDeflated")
    /\ UNCHANGED <<seen, raw, rawWaiting, pinCount, saved, vmVars>>

(* omrthread_monitor_exit, with or without deflation before. *)
ExitRaw(t) ==
    /\ \/ pc[t] \in {"exitRaw", "exitDeflated"}
       \/ pc[t] = "exitSeen" /\ seen[t].inflated
    /\ RawExit
    /\ depth' = IF pc[t] = "exitDeflated" THEN depth ELSE [depth EXCEPT ![t] = @ - 1]
    /\ Goto(t, "java")
    /\ UNCHANGED <<lockVars, rawWaiting, inflated, pinCount, saved, vmVars>>

-----------------------------------------------------------------------------
(* Object.wait: monitorWaitImpl and getMonitorForWait. *)

WaitLoad(t) ==
    /\ pc[t] = "java" /\ t \in vmAccess /\ t \in Waiter /\ depth[t] > 0
    /\ Load(t)
    /\ Goto(t, IF lockword.inflated THEN "waitPin" ELSE "inflateWait")
    /\ UNCHANGED <<lockword, rawVars, vmVars, depth>>

WaitPin(t) ==
    /\ pc[t] = "waitPin"
    /\ pinCount' = pinCount + 1
    /\ Release(t)
    /\ Goto(t, "rawWait")
    /\ UNCHANGED <<lockVars, raw, rawWaiting, inflated, saved, stopping, inspected, depth>>

(* omrthread_monitor_wait gives the monitor up, however often it was entered. *)
RawWait(t) ==
    /\ pc[t] = "rawWait"
    /\ saved' = [saved EXCEPT ![t] = raw.count]
    /\ raw' = [owner |-> NoThread, count |-> 0]
    /\ rawWaiting' = rawWaiting \cup {t}
    /\ Goto(t, "waiting")
    /\ UNCHANGED <<lockVars, inflated, pinCount, vmVars, depth>>

(* The wait times out or is interrupted. *)
WaitOver(t) ==
    /\ pc[t] = "waiting" /\ t \in rawWaiting
    /\ rawWaiting' = rawWaiting \ {t}
    /\ UNCHANGED <<lockVars, raw, inflated, pinCount, saved, pc, vmVars, depth>>

RawReenter(t) ==
    /\ pc[t] = "waiting" /\ t \notin rawWaiting /\ RawFree
    /\ RawOwn(t, saved[t])
    /\ Goto(t, "waitAcquire")
    /\ UNCHANGED <<lockVars, rawWaiting, inflated, pinCount, saved, vmVars, depth>>

(* The object is owned, so VM access may be waited for. *)
WaitAcquire(t) ==
    /\ pc[t] = "waitAcquire"
    /\ Acquire(t)
    /\ Goto(t, "unpin")
    /\ UNCHANGED <<lockVars, rawVars, stopping, inspected, depth>>

(* Object.notify and notifyAll: nothing to do unless the lock is inflated. *)
Notify(t) ==
    /\ pc[t] = "java" /\ t \in vmAccess /\ depth[t] > 0 /\ lockword.inflated
    /\ \E some \in {{u} : u \in rawWaiting} \cup {rawWaiting} : rawWaiting' = rawWaiting \ some
    /\ UNCHANGED <<lockVars, raw, inflated, pinCount, saved, pc, vmVars, depth>>

-----------------------------------------------------------------------------
(* VM access, as VMAccess and ThreadInspection provide it. *)

(* A running thread that is halted releases VM access, and takes it back. *)
Halt(t) ==
    /\ pc[t] = "java" /\ t \in vmAccess /\ ~MayRun(t)
    /\ Release(t)
    /\ UNCHANGED <<lockVars, rawVars, pc, stopping, inspected, depth>>

Run(t) ==
    /\ pc[t] = "java" /\ t \notin vmAccess
    /\ Acquire(t)
    /\ UNCHANGED <<lockVars, rawVars, pc, stopping, inspected, depth>>

(* Exclusive VM access is asked for, and given back once it was granted. *)
Stop ==
    /\ ~stopping /\ stopping' = TRUE
    /\ UNCHANGED <<lockVars, rawVars, pc, vmAccess, inspected, depth>>

Restarted ==
    /\ stopping /\ vmAccess = {} /\ stopping' = FALSE
    /\ UNCHANGED <<lockVars, rawVars, pc, vmAccess, inspected, depth>>

-----------------------------------------------------------------------------
Init ==
    /\ lockword = IF Reservable THEN Reserved ELSE Unlocked
    /\ seen = [t \in Thread |-> Unlocked]
    /\ raw = [owner |-> NoThread, count |-> 0]
    /\ rawWaiting = {} /\ inflated = FALSE /\ pinCount = 0
    /\ saved = [t \in Thread |-> 0]
    /\ pc = [t \in Thread |-> "java"]
    /\ vmAccess = Thread /\ stopping = FALSE
    /\ inspected = [t \in Thread |-> {}]
    /\ depth = [t \in Thread |-> 0]

(* What a thread does of its own accord. *)
Begin(t) == EnterLoad(t) \/ ExitLoad(t) \/ WaitLoad(t) \/ Notify(t) \/ WaitOver(t)

(* What it has to do, once it has begun. *)
Continue(t) ==
    \/ EnterRecursive(t) \/ EnterReserve(t) \/ EnterFull(t) \/ TryEnter(t) \/ EnterContended(t)
    \/ objectMonitorInflate(t)
    \/ CancelHalt(t) \/ CancelHalted(t) \/ CancelSwap(t) \/ CancelAgain(t)
    \/ BlockPin(t) \/ Restart(t) \/ RawEnter(t)
    \/ LoopInflated(t) \/ LoopRefused(t) \/ Reacquire(t) \/ LoopAcquire(t)
    \/ SetFLC(t) \/ LoopEnter(t) \/ GotFlat(t) \/ PassFLC(t) \/ LoopWait(t) \/ Wake(t) \/ Unpin(t)
    \/ ExitFlat(t) \/ ExitContended(t) \/ ExitDeflate(t) \/ ExitRaw(t)
    \/ WaitPin(t) \/ RawWait(t) \/ RawReenter(t) \/ WaitAcquire(t)
    \/ Halt(t) \/ Run(t)

Next ==
    \/ Stop \/ Restarted
    \/ \E t \in Thread : EnterFast(t) \/ Begin(t) \/ Continue(t)

Spec == Init /\ [][Next]_vars

(* Threads are scheduled, poll for halts however often they lock, and timed waits
   end; nobody has to enter or exit. *)
FairSpec ==
    /\ Spec
    /\ WF_vars(Restarted)
    /\ \A t \in Thread : /\ WF_vars(Continue(t))
                         /\ WF_vars(pc[t] # "java" /\ EnterFast(t))
                         /\ SF_vars(Halt(t))

-----------------------------------------------------------------------------
(* Whatever form the lock has, flat, reserved or inflated, and however it got it
   (inflation, deflation, a cancelled reservation, plain stores of stale words), it
   records the thread that is in the monitor and how often it entered. *)
NestingIsKept ==
    \A t \in Thread : pc[t] = "java" /\ depth[t] > 0 =>
        \/ lockword.owner = t /\ FlatCount(lockword) = depth[t]
        \/ lockword.inflated /\ raw = [owner |-> t, count |-> depth[t]]

(* A notification cannot be consumed by a thread that only waits to enter, nor a
   thread in Object.wait be left behind by a deflation: the wait set of the omrthread
   monitor, which both use, holds threads of one kind. *)
WaitSetIsOfOneKind ==
    \A t \in rawWaiting : pc[t] = IF inflated THEN "waiting" ELSE "timedWait"

(* A blocked thread does not stay blocked once the monitor stays free and VM access
   is not withheld: FLC bits get lost to plain stores, but the waits are timed. *)
Blocking ==
    {"block", "restart", "rawEnter", "loop", "reacquire", "flc", "loopEnter", "timedWait"}

NobodyIn == \A t \in Thread : depth[t] > 0 => pc[t] = "waiting"

FreeMonitorIsEntered ==
    <>[]~stopping => \A t \in Thread : ~<>[](pc[t] \in Blocking /\ NobodyIn)

(* A request for exclusive VM access is granted, although a thread that inflates
   keeps VM access while waiting for the omrthread monitor. *)
StopIsGranted == stopping ~> ~stopping

(* The monitor is a Java monitor: exclusive, reentrant, given up in Object.wait and
   got back with the same nesting. *)
Monitor == INSTANCE JavaMonitor WITH waiting <- {t \in Thread : pc[t] = "waiting"}

IsJavaMonitor == Monitor!Spec
=============================================================================
