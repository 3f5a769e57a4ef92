------------------------------ MODULE VMAccess ------------------------------
(***************************************************************************)
(* VM access: the permission a thread needs to touch the Java heap.        *)
(*                                                                         *)
(* Models runtime/vm/VMAccess.cpp, runtime/oti/VMAccess.hpp,               *)
(* runtime/gc_glue_java/JNICriticalRegion.hpp and the halt loop of         *)
(* runtime/vm/AsyncMessageHandler.cpp in the linux_x86-64 build            *)
(* (J9VM_INTERP_ATOMIC_FREE_JNI, ..._USES_FLUSH and                        *)
(* J9VM_INTERP_TWO_PASS_EXCLUSIVE are defined).  This module has what a    *)
(* thread does for itself: acquire, release, cross the JNI boundary, enter *)
(* and leave JNI critical regions.  ExclusiveAccess adds the requesters.   *)
(*                                                                         *)
(* Grain.  A section under vm->exclusiveAccessMutex is one step: what it   *)
(* guards is touched nowhere else.  publicFlagsMutex is explicit (pfm),    *)
(* since it is held across several such sections.  A monitor wait is a     *)
(* wait set that only a notify empties, so that lost wake-ups show.        *)
(***************************************************************************)
EXTENDS Integers, Sequences, FiniteSets

CONSTANTS
    Thread,             \* J9VMThreads
    NoThread,           \* nobody (an unowned monitor)
    NativeUser,         \* the threads that call native code
    CriticalUser,       \* the threads that use JNI critical regions
    MaxCriticalNesting, \* bound on jniCriticalDirectCount
    StoreBufferSize     \* bound on the pending stores of a processor

ASSUME ThreadAssumption ==
    /\ IsFiniteSet(Thread) /\ NoThread \notin Thread
    /\ NativeUser \subseteq Thread /\ CriticalUser \subseteq Thread
    /\ MaxCriticalNesting \in Nat \ {0} /\ StoreBufferSize \in Nat \ {0}

VARIABLES
    linked,       \* the threads in the list of vm->mainThread
    publicFlags,  \* J9VMThread.publicFlags, as the set of its bits
    inNative,     \* J9VMThread.inNative as other processors see it
    storeBuffer,  \* the stores to inNative its own processor still holds back
    pfm,          \* owner of publicFlagsMutex
    pfmWaiting,   \* the wait set of each publicFlagsMutex
    pc,           \* where the thread is
    ret,          \* where the release or acquire under way returns to
    reacquireJNICriticalAccess,  \* the local of that name
    jniCriticalDirectCount,      \* J9VMThread.jniCriticalDirectCount
    exclusiveAccessResponseCount, \* J9JavaVM counters (UDATA: -1 is the
    jniCriticalResponseCount,     \*   wrapped value, 0 the only one tested)
    safePointResponseCount,
    exclusiveAccessState,  \* J9JavaVM fields J9_XACCESS_*
    safePointState,
    eamWaiting    \* threads in the wait set of vm->exclusiveAccessMutex

bufferVars == <<inNative, storeBuffer>>
flagVars   == <<publicFlags, bufferVars>>
pfmVars    == <<pfm, pfmWaiting>>
criticalVars == <<reacquireJNICriticalAccess, jniCriticalDirectCount>>
localVars  == <<pc, ret, criticalVars>>
countVars  == <<exclusiveAccessResponseCount, jniCriticalResponseCount, safePointResponseCount>>
stateVars  == <<exclusiveAccessState, safePointState>>
vmVars     == <<linked, countVars, stateVars, eamWaiting>>

-----------------------------------------------------------------------------
(* J9_PUBLIC_FLAGS_* and the masks built from them. *)

Critical        == {"JNI_CRITICAL_REGION", "JNI_CRITICAL_ACCESS"}
HaltNoSuspend   == {"HALT_INSPECTION", "HALT_EXCLUSIVE", "HALTED_AT_SAFE_POINT"}
HaltAny         == HaltNoSuspend \cup {"HALT_JAVA_SUSPEND"}
ReleaseRequired == HaltAny \cup {"REQUEST_SAFE_POINT"}
OutOfLine       == HaltAny \cup {"DISABLE_INLINE_ACQUIRE"}
Flag == ReleaseRequired \cup OutOfLine \cup Critical \cup
        {"VM_ACCESS", "NOT_COUNTED_BY_EXCLUSIVE", "NOT_COUNTED_BY_SAFE_POINT",
         "NOT_AT_SAFE_POINT", "QUEUED_FOR_EXCLUSIVE"}

HasAny(t, mask) == publicFlags[t] \cap mask # {}
Has(t, f)       == f \in publicFlags[t]

(* Fault: an inspector ignores exclusive requests too. *)
HaltMaskInspector(r) == CASE r \in {"granted", "safePointed"} -> {"HALT_EXCLUSIVE"}
                          [] r = "inspectCheck" -> {"HALT_JAVA_SUSPEND"}
                          [] OTHER -> HaltAny

(* The haltMask of the acquire that returns to r. *)
HaltMask(r) == CASE r \in {"granted", "safePointed"} -> {"HALT_EXCLUSIVE"}
                 [] r = "inspectCheck" -> HaltAny \ {"HALT_INSPECTION"}
                 [] OTHER -> HaltAny

(* setPublicFlags / clearPublicFlags: one atomic read-modify-write. *)
WithFlags(t, set, clear) == [publicFlags EXCEPT ![t] = (@ \ clear) \cup set]

(* What t itself reads back from inNative: its newest store. *)
OwnInNative(t) ==
    IF storeBuffer[t] = <<>> THEN inNative[t] ELSE storeBuffer[t][Len(storeBuffer[t])]

(* A plain store: it waits in the store buffer of the processor. *)
Store(t, value) ==
    /\ Len(storeBuffer[t]) < StoreBufferSize
    /\ storeBuffer' = [storeBuffer EXCEPT ![t] = Append(@, value)]
    /\ UNCHANGED inNative

(* A fence or a locked instruction of t: its stores become visible. *)
Drained(t) ==
    /\ inNative' = [inNative EXCEPT ![t] = OwnInNative(t)]
    /\ storeBuffer' = [storeBuffer EXCEPT ![t] = <<>>]

(* A store of t followed by a fence. *)
StoreFenced(t, value) ==
    /\ inNative' = [inNative EXCEPT ![t] = value]
    /\ storeBuffer' = [storeBuffer EXCEPT ![t] = <<>>]

(* The processor of t writes its oldest pending store to memory. *)
DrainOne(t) ==
    /\ storeBuffer[t] # <<>>
    /\ inNative' = [inNative EXCEPT ![t] = Head(storeBuffer[t])]
    /\ storeBuffer' = [storeBuffer EXCEPT ![t] = Tail(@)]
    /\ UNCHANGED <<vmVars, publicFlags, pfmVars, localVars>>

(* Program points: between operations, and those at which a thread holds its
   own publicFlagsMutex. *)
AtRest  == {"vm", "native", "released"}
Holding == {"respond", "acquire", "acquireRespond", "test", "async", "critical", "criticalCount",
            "criticalExitRespond", "granted"}

Goto(t, label) == pc' = [pc EXCEPT ![t] = label]

(* omrthread_monitor_enter and _exit of publicFlagsMutex. *)
EnterPfm(t, u) == pfm[u] = NoThread /\ pfm' = [pfm EXCEPT ![u] = t]
ExitPfm(u)     == pfm' = [pfm EXCEPT ![u] = NoThread]

(* Go on at label, where publicFlagsMutex, held or just entered, is still held
   or exited. *)
ContinueHolding(t, label) ==
    /\ Goto(t, label)
    /\ pfm' = [pfm EXCEPT ![t] = IF label \in Holding THEN t ELSE NoThread]

(* omrthread_monitor_notify_all of a publicFlagsMutex and of
   vm->exclusiveAccessMutex, when cond. *)
NotifyPfm(u, cond) == pfmWaiting' = IF cond THEN [pfmWaiting EXCEPT ![u] = {}] ELSE pfmWaiting
NotifyEam(cond)    == eamWaiting' = IF cond THEN {} ELSE eamWaiting

(* flushProcessWriteBuffers. *)
FlushAll ==
    /\ inNative' = [u \in Thread |-> OwnInNative(u)]
    /\ storeBuffer' = [u \in Thread |-> <<>>]

(* internalReleaseVMAccess and internalAcquireVMAccess, on the way to next. *)
ReleaseTo(t, next) ==
    \/ /\ ~HasAny(t, ReleaseRequired)
       /\ publicFlags' = WithFlags(t, {}, {"VM_ACCESS"})
       /\ Drained(t)
       /\ Goto(t, next)
       /\ UNCHANGED ret
    \/ /\ HasAny(t, ReleaseRequired)
       /\ Goto(t, "release")
       /\ ret' = [ret EXCEPT ![t] = next]
       /\ UNCHANGED flagVars

AcquireTo(t, next) ==
    \/ /\ ~HasAny(t, OutOfLine)
       /\ publicFlags' = WithFlags(t, {"VM_ACCESS"}, {})
       /\ Goto(t, next)
       /\ UNCHANGED <<pfm, ret>>
    \/ /\ HasAny(t, OutOfLine)
       /\ EnterPfm(t, t)
       /\ Goto(t, "acquire")
       /\ ret' = [ret EXCEPT ![t] = next]
       /\ UNCHANGED publicFlags

-----------------------------------------------------------------------------
(* Release. *)

(* inlineReleaseVMAccess, the compare-and-swap succeeds. *)
ReleaseFast(t) ==
    /\ pc[t] = "vm"
    /\ ~HasAny(t, ReleaseRequired)
    /\ publicFlags' = WithFlags(t, {}, {"VM_ACCESS"})
    /\ Drained(t)
    /\ Goto(t, "released")
    /\ UNCHANGED <<vmVars, pfmVars, ret, criticalVars>>

(* inlineReleaseVMAccess leaves its loop for the out-of-line release. *)
ReleaseSlow(t) ==
    /\ pc[t] = "vm"
    /\ HasAny(t, ReleaseRequired)
    /\ Goto(t, "release")
    /\ ret' = [ret EXCEPT ![t] = "released"]
    /\ UNCHANGED <<vmVars, flagVars, pfmVars, criticalVars>>

(* The first half of internalReleaseVMAccessNoMutexNoCheck. *)
ClearVMAccess(t) ==
    /\ pc[t] = "release"
    /\ EnterPfm(t, t)
    /\ publicFlags' = WithFlags(t, {}, {"VM_ACCESS"})
    /\ NotifyPfm(t, TRUE)
    /\ Drained(t)
    /\ Goto(t, "respond")
    /\ UNCHANGED <<vmVars, ret, criticalVars>>

MustRespond(t) == Has(t, "HALT_EXCLUSIVE") /\ ~Has(t, "NOT_COUNTED_BY_EXCLUSIVE")
MustHaltAtSafePoint(t) == Has(t, "REQUEST_SAFE_POINT") /\ ~Has(t, "NOT_AT_SAFE_POINT")

(* The second half, under vm->exclusiveAccessMutex: respond to whoever asked
   this thread to halt, if it was counted.  The callers that came from JNI and
   the async check go on to acquire VM access again. *)
Respond(t) ==
    LET countedAtSafePoint == MustHaltAtSafePoint(t) /\ ~Has(t, "NOT_COUNTED_BY_SAFE_POINT")
    IN
    /\ pc[t] = "respond"
    /\ exclusiveAccessResponseCount' =
         exclusiveAccessResponseCount - (IF MustRespond(t) THEN 1 ELSE 0)
    /\ safePointResponseCount' = safePointResponseCount - (IF countedAtSafePoint THEN 1 ELSE 0)
    /\ publicFlags' = IF MustHaltAtSafePoint(t)
                      THEN WithFlags(t, {"HALTED_AT_SAFE_POINT"}, {"REQUEST_SAFE_POINT"})
                      ELSE publicFlags
    /\ NotifyEam(\/ MustRespond(t) /\ exclusiveAccessResponseCount' = 0
                 \/ countedAtSafePoint /\ safePointResponseCount' = 0)
    /\ ContinueHolding(t, IF ret[t] \in {"vm", "critical", "async"} THEN "acquire" ELSE ret[t])
    /\ UNCHANGED <<linked, bufferVars, pfmWaiting, ret, criticalVars,
                   jniCriticalResponseCount, stateVars>>

-----------------------------------------------------------------------------
(* Acquire. *)

(* inlineAcquireVMAccessExhaustiveCheck, the compare-and-swap succeeds. *)
AcquireFast(t) ==
    /\ pc[t] = "released"
    /\ ~HasAny(t, OutOfLine)
    /\ publicFlags' = WithFlags(t, {"VM_ACCESS"}, {})
    /\ Goto(t, "vm")
    /\ UNCHANGED <<vmVars, bufferVars, pfmVars, ret, criticalVars>>

(* The out-of-line acquire; inlineAcquireVMAccess takes it for any flag. *)
AcquireSlow(t) ==
    /\ pc[t] = "released"
    /\ publicFlags[t] # {}
    /\ EnterPfm(t, t)
    /\ Goto(t, "acquire")
    /\ ret' = [ret EXCEPT ![t] = "vm"]
    /\ UNCHANGED <<vmVars, flagVars, pfmWaiting, criticalVars>>

(* internalTryAcquireVMAccess out of line; its failure changes nothing. *)
TryAcquire(t) ==
    /\ pc[t] = "released"
    /\ pfm[t] = NoThread
    /\ ~HasAny(t, HaltAny)
    /\ publicFlags' = WithFlags(t, {"VM_ACCESS"}, {"DISABLE_INLINE_ACQUIRE"})
    /\ Goto(t, "vm")
    /\ UNCHANGED <<vmVars, bufferVars, pfmVars, ret, criticalVars>>

(* internalAcquireVMAccessNoMutexWithMask gives up JNI critical access ... *)
GiveUpCritical(t) ==
    /\ pc[t] = "acquire"
    /\ LET held == Has(t, "JNI_CRITICAL_ACCESS") IN
       /\ publicFlags' = WithFlags(t, {}, {"JNI_CRITICAL_ACCESS"})
       /\ reacquireJNICriticalAccess' = [reacquireJNICriticalAccess EXCEPT ![t] = @ \/ held]
       /\ Goto(t, IF held /\ Has(t, "HALT_EXCLUSIVE") THEN "acquireRespond" ELSE "test")
    /\ UNCHANGED <<vmVars, bufferVars, pfmVars, ret, jniCriticalDirectCount>>

(* ... responds for it under vm->exclusiveAccessMutex ... *)
RespondCritical(t) ==
    /\ pc[t] = "acquireRespond"
    /\ jniCriticalResponseCount' = jniCriticalResponseCount - 1
    /\ NotifyEam(jniCriticalResponseCount' = 0)
    /\ Goto(t, "test")
    /\ UNCHANGED <<linked, flagVars, pfmVars, ret, criticalVars, exclusiveAccessResponseCount,
                   safePointResponseCount, stateVars>>

(* ... waits while a flag of the mask is set ... *)
WaitForAccess(t) ==
    /\ pc[t] = "test"
    /\ HasAny(t, HaltMask(ret[t]))
    /\ ExitPfm(t)
    /\ pfmWaiting' = [pfmWaiting EXCEPT ![t] = @ \cup {t}]
    /\ Goto(t, "wait")
    /\ UNCHANGED <<vmVars, flagVars, ret, criticalVars>>

Wake(t) ==
    /\ pc[t] = "wait"
    /\ t \notin pfmWaiting[t]
    /\ EnterPfm(t, t)
    /\ Goto(t, "test")
    /\ UNCHANGED <<vmVars, flagVars, pfmWaiting, ret, criticalVars>>

(* ... and takes VM access, and the JNI critical access it gave up. *)
TakeVMAccess(t) ==
    /\ pc[t] = "test"
    /\ ~HasAny(t, HaltMask(ret[t]))
    /\ publicFlags' =
         WithFlags(t, {"VM_ACCESS"} \cup
                      (IF reacquireJNICriticalAccess[t] THEN {"JNI_CRITICAL_ACCESS"} ELSE {}),
                   {"DISABLE_INLINE_ACQUIRE"})
    /\ reacquireJNICriticalAccess' = [reacquireJNICriticalAccess EXCEPT ![t] = FALSE]
    /\ ContinueHolding(t, ret[t])
    /\ UNCHANGED <<vmVars, bufferVars, pfmWaiting, ret, jniCriticalDirectCount>>

-----------------------------------------------------------------------------
(* The JNI boundary.  The store to inNative and the load of publicFlags have *)
(* no fence between them: an exclusive requester issues it for everybody.    *)

(* The flag word that the inline paths expect. *)
OnlyVMAccess(t) == publicFlags[t] = {"VM_ACCESS"}

(* inlineExitVMToJNI, inlineEnterVMFromJNI: the store ... *)
ExitVMToJNI(t) ==
    /\ pc[t] = "vm" /\ t \in NativeUser
    /\ Store(t, TRUE)
    /\ Goto(t, "exitCheck")
    /\ UNCHANGED <<vmVars, publicFlags, pfmVars, ret, criticalVars>>

EnterVMFromJNI(t) ==
    /\ pc[t] = "native"
    /\ Store(t, FALSE)
    /\ Goto(t, "enterCheck")
    /\ UNCHANGED <<vmVars, publicFlags, pfmVars, ret, criticalVars>>

(* ... and the load, which finds no other flag ... *)
ExitInline(t) ==
    /\ pc[t] = "exitCheck"
    /\ OnlyVMAccess(t)
    /\ Goto(t, "native")
    /\ UNCHANGED <<vmVars, flagVars, pfmVars, ret, criticalVars>>

EnterInline(t) ==
    /\ pc[t] = "enterCheck"
    /\ OnlyVMAccess(t)
    /\ Goto(t, "vm")
    /\ UNCHANGED <<vmVars, flagVars, pfmVars, ret, criticalVars>>

(* ... or leads to the out-of-line functions, which repeat the store and fence. *)
ExitOutOfLine(t) ==
    /\ pc[t] = "exitCheck"
    /\ ~OnlyVMAccess(t)
    /\ StoreFenced(t, TRUE)
    /\ Goto(t, "exit")
    /\ UNCHANGED <<vmVars, publicFlags, pfmVars, ret, criticalVars>>

EnterOutOfLine(t) ==
    /\ pc[t] = "enterCheck"
    /\ ~OnlyVMAccess(t)
    /\ StoreFenced(t, FALSE)
    /\ Goto(t, "enter")
    /\ UNCHANGED <<vmVars, publicFlags, pfmVars, ret, criticalVars>>

MustRelease(t) == Has(t, "VM_ACCESS") /\ HasAny(t, ReleaseRequired \cup OutOfLine)

(* internalExitVMToJNI under publicFlagsMutex: release if asked to. *)
ExitSlow(t) ==
    /\ pc[t] = "exit"
    /\ pfm[t] = NoThread
    /\ ret' = [ret EXCEPT ![t] = "native"]
    /\ publicFlags' = IF MustRelease(t) THEN WithFlags(t, {}, {"VM_ACCESS"}) ELSE publicFlags
    /\ NotifyPfm(t, MustRelease(t))
    /\ ContinueHolding(t, IF MustRelease(t) THEN "respond" ELSE "native")
    /\ UNCHANGED <<vmVars, bufferVars, criticalVars>>

(* internalEnterVMFromJNI under publicFlagsMutex: release if asked to, then
   acquire if VM access is not held.  It returns to label r. *)
EnterHolding(t, r) ==
    /\ ret' = [ret EXCEPT ![t] = r]
    /\ publicFlags' = IF MustRelease(t) THEN WithFlags(t, {}, {"VM_ACCESS"}) ELSE publicFlags
    /\ NotifyPfm(t, MustRelease(t))
    /\ ContinueHolding(t, CASE MustRelease(t) -> "respond"
                            [] ~Has(t, "VM_ACCESS") -> "acquire"
                            [] OTHER -> r)

EnterSlow(t) ==
    /\ pc[t] = "enter"
    /\ pfm[t] = NoThread
    /\ EnterHolding(t, "vm")
    /\ UNCHANGED <<vmVars, bufferVars, criticalVars>>

(* The halt loop of javaCheckAsyncMessages, which holds publicFlagsMutex unless
   it waits: asked to halt, it releases VM access and acquires it again ... *)
CheckAsyncMessages(t) ==
    /\ (pc[t] = "vm" /\ pfm[t] = NoThread) \/ pc[t] = "async"
    /\ HasAny(t, ReleaseRequired)
    /\ ret' = [ret EXCEPT ![t] = "async"]
    /\ publicFlags' = WithFlags(t, {}, {"VM_ACCESS"})
    /\ NotifyPfm(t, TRUE)
    /\ Drained(t)
    /\ ContinueHolding(t, "respond")
    /\ UNCHANGED <<vmVars, criticalVars>>

(* ... until no flag asks for it.  (Pop-frame and stop requests are left out.) *)
EndAsyncCheck(t) ==
    /\ pc[t] = "async"
    /\ ~HasAny(t, ReleaseRequired)
    /\ Drained(t)
    /\ ContinueHolding(t, "vm")
    /\ UNCHANGED <<vmVars, publicFlags, pfmWaiting, ret, criticalVars>>

-----------------------------------------------------------------------------
(* JNI critical regions (MM_JNICriticalRegion). *)

(* enterCriticalRegion in a region already: only the count changes. *)
EnterNestedCritical(t) ==
    /\ pc[t] \in {"vm", "native"}
    /\ Has(t, "JNI_CRITICAL_REGION")
    /\ jniCriticalDirectCount[t] < MaxCriticalNesting
    /\ jniCriticalDirectCount' = [jniCriticalDirectCount EXCEPT ![t] = @ + 1]
    /\ UNCHANGED <<vmVars, flagVars, pfmVars, pc, ret, reacquireJNICriticalAccess>>

(* enterCriticalRegion, the compare-and-swap of the expected flags. *)
EnterCriticalFast(t) ==
    /\ pc[t] \in {"vm", "native"} /\ t \in CriticalUser
    /\ OnlyVMAccess(t)
    /\ publicFlags' = WithFlags(t, Critical, {})
    /\ jniCriticalDirectCount' = [jniCriticalDirectCount EXCEPT ![t] = 1]
    /\ Drained(t)
    /\ UNCHANGED <<vmVars, pfmVars, pc, ret, reacquireJNICriticalAccess>>

(* The compare-and-swap fails: on to publicFlagsMutex, with or without access. *)
EnterCriticalSlow(t) ==
    /\ pc[t] \in {"vm", "native"} /\ t \in CriticalUser
    /\ ~Has(t, "JNI_CRITICAL_REGION") /\ ~OnlyVMAccess(t)
    /\ Goto(t, IF pc[t] = "vm" THEN "criticalVM" ELSE "criticalNative")
    /\ Drained(t)
    /\ UNCHANGED <<vmVars, publicFlags, pfmVars, ret, criticalVars>>

(* hasVMAccess: set the flags; a thread already asked to halt adds itself to
   the responses the requester waits for. *)
EnterCriticalWithAccess(t) ==
    /\ pc[t] = "criticalVM"
    /\ pfm[t] = NoThread
    /\ publicFlags' = WithFlags(t, Critical, {})
    /\ jniCriticalDirectCount' = [jniCriticalDirectCount EXCEPT ![t] = 1]
    /\ ContinueHolding(t, IF Has(t, "HALT_EXCLUSIVE") THEN "criticalCount" ELSE "vm")
    /\ UNCHANGED <<vmVars, bufferVars, pfmWaiting, ret, reacquireJNICriticalAccess>>

(* Fault: a thread that enters a region after the first pass is not counted. *)
CountCriticalForgotten(t) ==
    /\ pc[t] = "criticalCount"
    /\ ContinueHolding(t, "vm")
    /\ UNCHANGED <<vmVars, flagVars, pfmWaiting, ret, criticalVars>>

CountCritical(t) ==
    /\ pc[t] = "criticalCount"
    /\ jniCriticalResponseCount' = jniCriticalResponseCount + 1
    /\ ContinueHolding(t, "vm")
    /\ UNCHANGED <<linked, flagVars, pfmWaiting, ret, criticalVars,
                   exclusiveAccessResponseCount, safePointResponseCount, stateVars, eamWaiting>>

(* ~hasVMAccess: with no flag at all swap the flags in ... *)
EnterCriticalWithoutAccess(t) ==
    /\ pc[t] = "criticalNative"
    /\ pfm[t] = NoThread
    /\ publicFlags[t] = {}
    /\ publicFlags' = WithFlags(t, Critical, {})
    /\ jniCriticalDirectCount' = [jniCriticalDirectCount EXCEPT ![t] = 1]
    /\ Goto(t, "native")
    /\ UNCHANGED <<vmVars, bufferVars, pfmVars, ret, reacquireJNICriticalAccess>>

(* ... otherwise enter the VM by internalEnterVMFromJNI ... *)
EnterCriticalThroughVM(t) ==
    /\ pc[t] = "criticalNative"
    /\ pfm[t] = NoThread
    /\ publicFlags[t] # {}
    /\ StoreFenced(t, FALSE)
    /\ EnterHolding(t, "critical")
    /\ UNCHANGED <<vmVars, criticalVars>>

(* ... set the flags and return to native by internalExitVMToJNI. *)
SetCriticalFlags(t) ==
    /\ pc[t] = "critical"
    /\ publicFlags' = WithFlags(t, Critical, IF MustRelease(t) THEN {"VM_ACCESS"} ELSE {})
    /\ jniCriticalDirectCount' = [jniCriticalDirectCount EXCEPT ![t] = 1]
    /\ StoreFenced(t, TRUE)
    /\ ret' = [ret EXCEPT ![t] = "native"]
    /\ NotifyPfm(t, MustRelease(t))
    /\ ContinueHolding(t, IF MustRelease(t) THEN "respond" ELSE "native")
    /\ UNCHANGED <<vmVars, reacquireJNICriticalAccess>>

(* exitCriticalRegion of a nested region: only the count changes. *)
ExitNestedCritical(t) ==
    /\ pc[t] \in {"vm", "native"}
    /\ Has(t, "JNI_CRITICAL_REGION")
    /\ jniCriticalDirectCount[t] > 1
    /\ jniCriticalDirectCount' = [jniCriticalDirectCount EXCEPT ![t] = @ - 1]
    /\ UNCHANGED <<vmVars, flagVars, pfmVars, pc, ret, reacquireJNICriticalAccess>>

(* exitCriticalRegion of the outermost, the compare-and-swap succeeds ... *)
ExitCriticalFast(t) ==
    /\ pc[t] \in {"vm", "native"}
    /\ publicFlags[t] = Critical \cup {"VM_ACCESS"}
    /\ jniCriticalDirectCount[t] = 1
    /\ jniCriticalDirectCount' = [jniCriticalDirectCount EXCEPT ![t] = 0]
    /\ publicFlags' = WithFlags(t, {}, Critical)
    /\ Drained(t)
    /\ UNCHANGED <<vmVars, pfmVars, pc, ret, reacquireJNICriticalAccess>>

(* ... or fails, and publicFlagsMutex is entered. *)
ExitCriticalBegin(t) ==
    /\ pc[t] \in {"vm", "native"}
    /\ Has(t, "JNI_CRITICAL_REGION") /\ publicFlags[t] # Critical \cup {"VM_ACCESS"}
    /\ jniCriticalDirectCount[t] = 1
    /\ jniCriticalDirectCount' = [jniCriticalDirectCount EXCEPT ![t] = 0]
    /\ Goto(t, "criticalExit")
    /\ ret' = [ret EXCEPT ![t] = pc[t]]
    /\ Drained(t)
    /\ UNCHANGED <<vmVars, publicFlags, pfmVars, reacquireJNICriticalAccess>>

ExitCriticalSlow(t) ==
    /\ pc[t] = "criticalExit"
    /\ pfm[t] = NoThread
    /\ publicFlags' = WithFlags(t, {}, Critical)
    /\ ContinueHolding(t, IF {"JNI_CRITICAL_ACCESS", "HALT_EXCLUSIVE"} \subseteq publicFlags[t]
                          THEN "criticalExitRespond" ELSE ret[t])
    /\ UNCHANGED <<vmVars, bufferVars, pfmWaiting, ret, criticalVars>>

ExitCriticalRespond(t) ==
    /\ pc[t] = "criticalExitRespond"
    /\ jniCriticalResponseCount' = jniCriticalResponseCount - 1
    /\ NotifyEam(jniCriticalResponseCount' = 0)
    /\ ContinueHolding(t, ret[t])
    /\ UNCHANGED <<linked, flagVars, pfmWaiting, ret, criticalVars,
                   exclusiveAccessResponseCount, safePointResponseCount, stateVars>>
=============================================================================
