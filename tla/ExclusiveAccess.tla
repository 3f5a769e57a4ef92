--------------------------- MODULE ExclusiveAccess ---------------------------
(***************************************************************************)
(* Exclusive VM access: one thread stops the world.                        *)
(*                                                                         *)
(* acquireExclusiveVMAccess and releaseExclusiveVMAccess of                *)
(* runtime/vm/VMAccess.cpp with the queue of waiting requesters, and the   *)
(* creation and death of threads while a request is under way              *)
(* (runtime/vm/vmthread.c, runtime/vm/jvmfree.c).                          *)
(***************************************************************************)
EXTENDS VMAccess

CONSTANTS
    Requester,        \* the threads that ask for exclusive VM access
    Mortal,           \* the threads that are created and die
    MaxExclusiveDepth \* bound on the nesting of exclusive requests

ASSUME RequesterAssumption ==
    /\ Requester \subseteq Thread /\ Mortal \subseteq Thread
    /\ MaxExclusiveDepth \in Nat \ {0}

VARIABLES
    exclusiveVMAccessQueue,  \* vm->exclusiveVMAccessQueueHead .. Tail
    vmThreadListMutex,       \* its owner
    exclusiveCount,          \* OMR_VMThread.exclusiveCount
    todo,                    \* the threads its loop has still to visit
    responsesExpected,       \* locals of acquireExclusiveVMAccess
    jniCriticalResponsesExpected

expectVars  == <<responsesExpected, jniCriticalResponsesExpected>>
requestVars == <<exclusiveVMAccessQueue, vmThreadListMutex, exclusiveCount, todo, expectVars>>
vars == <<vmVars, flagVars, pfmVars, localVars, requestVars>>

Halted == {"HALT_EXCLUSIVE", "NOT_COUNTED_BY_EXCLUSIVE"}

Others(t) == linked \ {t}

-----------------------------------------------------------------------------
(* acquireExclusiveVMAccess *)

(* A nested request: the count alone says that the thread has exclusive access. *)
AcquireExclusiveNested(t) ==
    /\ pc[t] = "exclusive"
    /\ exclusiveCount[t] < MaxExclusiveDepth
    /\ exclusiveCount' = [exclusiveCount EXCEPT ![t] = @ + 1]
    /\ UNCHANGED <<vmVars, flagVars, pfmVars, localVars, exclusiveVMAccessQueue,
                   vmThreadListMutex, todo, expectVars>>

(* The first thread going for exclusive access. *)
AcquireExclusiveFirst(t) ==
    /\ pc[t] = "vm" /\ t \in Requester
    /\ pfm[t] = NoThread
    /\ exclusiveAccessState = "NONE"
    /\ exclusiveCount[t] = 0
    /\ exclusiveCount' = [exclusiveCount EXCEPT ![t] = 1]
    /\ publicFlags' = WithFlags(t, {"NOT_AT_SAFE_POINT"}, {})
    /\ Drained(t)
    /\ exclusiveAccessState' = "PENDING"
    /\ exclusiveAccessResponseCount' = 0
    /\ jniCriticalResponseCount' = 0
    /\ Goto(t, "postList")
    /\ UNCHANGED <<linked, safePointResponseCount, safePointState, eamWaiting, pfmVars, ret,
                   criticalVars, exclusiveVMAccessQueue, vmThreadListMutex, todo, expectVars>>

(* Fault: the thread does not halt itself before it gives exclusiveAccessMutex up. *)
AcquireExclusiveUnhalted(t) ==
    LET counted == MustRespond(t)
        notAsked == ~Has(t, "HALT_EXCLUSIVE")
        drop == notAsked /\ Has(t, "JNI_CRITICAL_ACCESS")
    IN
    /\ pc[t] = "vm" /\ t \in Requester
    /\ EnterPfm(t, t)
    /\ exclusiveAccessState # "NONE"
    /\ exclusiveCount[t] = 0
    /\ exclusiveCount' = [exclusiveCount EXCEPT ![t] = 1]
    /\ exclusiveVMAccessQueue' = Append(exclusiveVMAccessQueue, t)
    /\ publicFlags' =
         WithFlags(t, {"NOT_AT_SAFE_POINT", "QUEUED_FOR_EXCLUSIVE"},
                   {"VM_ACCESS"} \cup (IF drop THEN {"JNI_CRITICAL_ACCESS"} ELSE {}))
    /\ exclusiveAccessResponseCount' =
         exclusiveAccessResponseCount - (IF counted THEN 1 ELSE 0)
    /\ NotifyPfm(t, TRUE)
    /\ NotifyEam(counted /\ exclusiveAccessResponseCount' = 0)
    /\ reacquireJNICriticalAccess' = [reacquireJNICriticalAccess EXCEPT ![t] = drop]
    /\ Drained(t)
    /\ Goto(t, "acquire")
    /\ ret' = [ret EXCEPT ![t] = "granted"]
    /\ UNCHANGED <<linked, jniCriticalResponseCount, safePointResponseCount, stateVars,
                   jniCriticalDirectCount, vmThreadListMutex, todo, expectVars>>

(* Somebody else is claiming it: join the queue, release VM access (responding
   if counted), and halt this thread before exclusiveAccessMutex is exited. *)
AcquireExclusiveQueued(t) ==
    LET counted == MustRespond(t)
        notAsked == ~Has(t, "HALT_EXCLUSIVE")
        drop == notAsked /\ Has(t, "JNI_CRITICAL_ACCESS")
    IN
    /\ pc[t] = "vm" /\ t \in Requester
    /\ EnterPfm(t, t)
    /\ exclusiveAccessState # "NONE"
    /\ exclusiveCount[t] = 0
    /\ exclusiveCount' = [exclusiveCount EXCEPT ![t] = 1]
    /\ exclusiveVMAccessQueue' = Append(exclusiveVMAccessQueue, t)
    /\ publicFlags' =
         WithFlags(t, {"NOT_AT_SAFE_POINT", "QUEUED_FOR_EXCLUSIVE", "HALT_EXCLUSIVE"},
                   {"VM_ACCESS"} \cup (IF drop THEN {"JNI_CRITICAL_ACCESS"} ELSE {}))
    /\ exclusiveAccessResponseCount' =
         exclusiveAccessResponseCount - (IF counted THEN 1 ELSE 0)
    /\ NotifyPfm(t, TRUE)
    /\ NotifyEam(counted /\ exclusiveAccessResponseCount' = 0)
    /\ reacquireJNICriticalAccess' = [reacquireJNICriticalAccess EXCEPT ![t] = drop]
    /\ Drained(t)
    /\ Goto(t, "acquire")
    /\ ret' = [ret EXCEPT ![t] = "granted"]
    /\ UNCHANGED <<linked, jniCriticalResponseCount, safePointResponseCount, stateVars,
                   jniCriticalDirectCount, vmThreadListMutex, todo, expectVars>>

(* The queued thread was handed exclusive access and has VM access again. *)
Granted(t) ==
    /\ pc[t] = "granted"
    /\ publicFlags' = WithFlags(t, {}, {"QUEUED_FOR_EXCLUSIVE"})
    /\ ExitPfm(t)
    /\ Goto(t, "accept")
    /\ UNCHANGED <<vmVars, bufferVars, pfmWaiting, ret, criticalVars, requestVars>>

(* It waits for one response, of the thread that handed off. *)
AcceptHandOff(t) ==
    /\ pc[t] = "accept"
    /\ LET n == IF exclusiveAccessState = "HANDING_OFF" THEN 1 ELSE 0 IN
       /\ responsesExpected' = [responsesExpected EXCEPT ![t] = n]
       /\ jniCriticalResponsesExpected' = [jniCriticalResponsesExpected EXCEPT ![t] = n]
    /\ exclusiveAccessState' = "HANDED_OFF"
    /\ Goto(t, "await")
    /\ UNCHANGED <<linked, countVars, safePointState, eamWaiting, flagVars, pfmVars, ret,
                   criticalVars, exclusiveVMAccessQueue, vmThreadListMutex, exclusiveCount, todo>>

(* Post the halt request: enter vmThreadListMutex ... *)
PostBegin(t) ==
    /\ pc[t] = "postList"
    /\ vmThreadListMutex = NoThread
    /\ vmThreadListMutex' = t
    /\ todo' = [todo EXCEPT ![t] = Others(t)]
    /\ Goto(t, "post")
    /\ UNCHANGED <<vmVars, flagVars, pfmVars, ret, criticalVars, exclusiveVMAccessQueue,
                   exclusiveCount, expectVars>>

(* ... first pass: halt each thread, not counted yet, and count the threads in
   JNI critical regions ... *)
PostHalt(t, u) ==
    /\ pc[t] = "post" /\ u \in todo[t]
    /\ pfm[u] = NoThread
    /\ publicFlags' = WithFlags(u, Halted, {})
    /\ jniCriticalResponsesExpected' =
         [jniCriticalResponsesExpected EXCEPT ![t] =
            @ + (IF Has(u, "JNI_CRITICAL_ACCESS") THEN 1 ELSE 0)]
    /\ todo' = [todo EXCEPT ![t] = @ \ {u}]
    /\ UNCHANGED <<vmVars, bufferVars, pfmVars, localVars, exclusiveVMAccessQueue,
                   vmThreadListMutex, exclusiveCount, responsesExpected>>

(* Fault: the two passes without the flush between them. *)
FlushNothing(t) ==
    /\ pc[t] = "post" /\ todo[t] = {}
    /\ todo' = [todo EXCEPT ![t] = Others(t)]
    /\ Goto(t, "count")
    /\ UNCHANGED <<vmVars, flagVars, pfmVars, ret, criticalVars, exclusiveVMAccessQueue,
                   vmThreadListMutex, exclusiveCount, expectVars>>

(* ... flushProcessWriteBuffers: every processor drains its store buffer ... *)
Flush(t) ==
    /\ pc[t] = "post" /\ todo[t] = {}
    /\ inNative' = [u \in Thread |-> OwnInNative(u)]
    /\ storeBuffer' = [u \in Thread |-> <<>>]
    /\ todo' = [todo EXCEPT ![t] = Others(t)]
    /\ Goto(t, "count")
    /\ UNCHANGED <<vmVars, publicFlags, pfmVars, ret, criticalVars, exclusiveVMAccessQueue,
                   vmThreadListMutex, exclusiveCount, expectVars>>

(* Fault: threads that run native code count too. *)
PostCountNative(t, u) ==
    /\ pc[t] = "count" /\ u \in todo[t]
    /\ pfm[u] = NoThread
    /\ IF Has(u, "VM_ACCESS")
       THEN /\ publicFlags' = WithFlags(u, {}, {"NOT_COUNTED_BY_EXCLUSIVE"})
            /\ responsesExpected' = [responsesExpected EXCEPT ![t] = @ + 1]
       ELSE UNCHANGED <<publicFlags, responsesExpected>>
    /\ todo' = [todo EXCEPT ![t] = @ \ {u}]
    /\ UNCHANGED <<vmVars, bufferVars, pfmVars, localVars, exclusiveVMAccessQueue,
                   vmThreadListMutex, exclusiveCount, jniCriticalResponsesExpected>>

(* ... second pass: count the threads that have VM access outside native. *)
PostCount(t, u) ==
    /\ pc[t] = "count" /\ u \in todo[t]
    /\ pfm[u] = NoThread
    /\ IF ~inNative[u] /\ Has(u, "VM_ACCESS")
       THEN /\ publicFlags' = WithFlags(u, {}, {"NOT_COUNTED_BY_EXCLUSIVE"})
            /\ responsesExpected' = [responsesExpected EXCEPT ![t] = @ + 1]
       ELSE UNCHANGED <<publicFlags, responsesExpected>>
    /\ todo' = [todo EXCEPT ![t] = @ \ {u}]
    /\ UNCHANGED <<vmVars, bufferVars, pfmVars, localVars, exclusiveVMAccessQueue,
                   vmThreadListMutex, exclusiveCount, jniCriticalResponsesExpected>>

PostEnd(t) ==
    /\ pc[t] = "count" /\ todo[t] = {}
    /\ vmThreadListMutex' = NoThread
    /\ Goto(t, "await")
    /\ UNCHANGED <<vmVars, flagVars, pfmVars, ret, criticalVars, exclusiveVMAccessQueue,
                   exclusiveCount, todo, expectVars>>

(* Wait under exclusiveAccessMutex until every counted thread has responded ... *)
AwaitVM(t, count) ==
    /\ count # 0
    /\ exclusiveAccessResponseCount' = count
    /\ eamWaiting' = eamWaiting \cup {t}
    /\ Goto(t, "awaitVM")
    /\ UNCHANGED <<jniCriticalResponseCount, jniCriticalResponsesExpected, exclusiveAccessState>>

(* ... then until every thread in a JNI critical region has. *)
AwaitJNI(t) ==
    /\ jniCriticalResponseCount' = jniCriticalResponseCount + jniCriticalResponsesExpected[t]
    /\ jniCriticalResponsesExpected' = [jniCriticalResponsesExpected EXCEPT ![t] = 0]
    /\ \/ /\ jniCriticalResponseCount' # 0
          /\ eamWaiting' = eamWaiting \cup {t}
          /\ Goto(t, "awaitJNI")
          /\ UNCHANGED exclusiveAccessState
       \/ /\ jniCriticalResponseCount' = 0
          /\ exclusiveAccessState' = "EXCLUSIVE"
          /\ Goto(t, "exclusiveList")
          /\ UNCHANGED eamWaiting

(* Add the responses expected and wait, or wake up and test again. *)
Await(t) ==
    /\ \/ /\ pc[t] \in {"await", "awaitVM"} /\ t \notin eamWaiting
          /\ LET count == exclusiveAccessResponseCount + responsesExpected[t] IN
             \/ AwaitVM(t, count)
             \/ count = 0 /\ exclusiveAccessResponseCount' = 0 /\ AwaitJNI(t)
       \/ /\ pc[t] = "awaitJNI" /\ t \notin eamWaiting
          /\ AwaitJNI(t)
          /\ UNCHANGED exclusiveAccessResponseCount
    /\ responsesExpected' = [responsesExpected EXCEPT ![t] = 0]
    /\ UNCHANGED <<linked, safePointResponseCount, safePointState, flagVars, pfmVars, ret,
                   criticalVars, exclusiveVMAccessQueue, vmThreadListMutex, exclusiveCount, todo>>

EnterExclusive(t) ==
    /\ pc[t] = "exclusiveList"
    /\ vmThreadListMutex = NoThread
    /\ vmThreadListMutex' = t
    /\ Goto(t, "exclusive")
    /\ UNCHANGED <<vmVars, flagVars, pfmVars, ret, criticalVars, exclusiveVMAccessQueue,
                   exclusiveCount, todo, expectVars>>

-----------------------------------------------------------------------------
(* releaseExclusiveVMAccess *)

(* A nested release: only the count changes. *)
ReleaseExclusiveNested(t) ==
    /\ pc[t] = "exclusive"
    /\ exclusiveCount[t] > 1
    /\ exclusiveCount' = [exclusiveCount EXCEPT ![t] = @ - 1]
    /\ UNCHANGED <<vmVars, flagVars, pfmVars, localVars, exclusiveVMAccessQueue,
                   vmThreadListMutex, todo, expectVars>>

(* Fault: the thread handed exclusive access stays in the queue. *)
HandOffKept(t) ==
    LET next == Head(exclusiveVMAccessQueue) IN
    /\ pc[t] = "exclusive" /\ exclusiveCount[t] = 1
    /\ pfm[t] = NoThread
    /\ exclusiveVMAccessQueue # <<>>
    /\ exclusiveCount' = [exclusiveCount EXCEPT ![t] = 0]
    /\ exclusiveAccessState' = "HANDING_OFF"
    /\ publicFlags' = [publicFlags EXCEPT
                         ![t] = (@ \ {"NOT_AT_SAFE_POINT"}) \cup {"HALT_EXCLUSIVE"},
                         ![next] = @ \ Halted]
    /\ jniCriticalResponseCount' = IF Has(t, "JNI_CRITICAL_ACCESS") THEN 0 ELSE -1
    /\ UNCHANGED exclusiveVMAccessQueue
    /\ todo' = [todo EXCEPT ![t] = {next}]
    /\ Goto(t, "notify")
    /\ UNCHANGED <<linked, exclusiveAccessResponseCount, safePointResponseCount, safePointState,
                   eamWaiting, bufferVars, pfmVars, ret, criticalVars, vmThreadListMutex,
                   expectVars>>

(* Hand exclusive access to the head of the queue and halt this thread. *)
HandOff(t) ==
    LET next == Head(exclusiveVMAccessQueue) IN
    /\ pc[t] = "exclusive" /\ exclusiveCount[t] = 1
    /\ pfm[t] = NoThread
    /\ exclusiveVMAccessQueue # <<>>
    /\ exclusiveCount' = [exclusiveCount EXCEPT ![t] = 0]
    /\ exclusiveAccessState' = "HANDING_OFF"
    /\ publicFlags' = [publicFlags EXCEPT
                         ![t] = (@ \ {"NOT_AT_SAFE_POINT"}) \cup {"HALT_EXCLUSIVE"},
                         ![next] = @ \ Halted]
    /\ jniCriticalResponseCount' = IF Has(t, "JNI_CRITICAL_ACCESS") THEN 0 ELSE -1
    /\ exclusiveVMAccessQueue' = Tail(exclusiveVMAccessQueue)
    /\ todo' = [todo EXCEPT ![t] = {next}]
    /\ Goto(t, "notify")
    /\ UNCHANGED <<linked, exclusiveAccessResponseCount, safePointResponseCount, safePointState,
                   eamWaiting, bufferVars, pfmVars, ret, criticalVars, vmThreadListMutex,
                   expectVars>>

(* Fault: the waiters of exclusiveAccessMutex are not notified. *)
ReleaseExclusiveSilently(t) ==
    /\ pc[t] = "exclusive" /\ exclusiveCount[t] = 1
    /\ pfm[t] = NoThread
    /\ exclusiveVMAccessQueue = <<>>
    /\ exclusiveCount' = [exclusiveCount EXCEPT ![t] = 0]
    /\ exclusiveAccessState' = "NONE"
    /\ publicFlags' = [u \in Thread |-> publicFlags[u] \
                         (IF u = t THEN {"NOT_AT_SAFE_POINT"} ELSE IF u \in linked THEN Halted ELSE {})]
    /\ todo' = [todo EXCEPT ![t] = Others(t)]
    /\ Goto(t, "notify")
    /\ UNCHANGED <<linked, countVars, safePointState, eamWaiting, bufferVars, pfmVars, ret,
                   criticalVars, exclusiveVMAccessQueue, vmThreadListMutex, expectVars>>

(* The queue is empty: let every thread go. *)
ReleaseExclusive(t) ==
    /\ pc[t] = "exclusive" /\ exclusiveCount[t] = 1
    /\ pfm[t] = NoThread
    /\ exclusiveVMAccessQueue = <<>>
    /\ exclusiveCount' = [exclusiveCount EXCEPT ![t] = 0]
    /\ exclusiveAccessState' = "NONE"
    /\ publicFlags' = [u \in Thread |-> publicFlags[u] \
                         (IF u = t THEN {"NOT_AT_SAFE_POINT"} ELSE IF u \in linked THEN Halted ELSE {})]
    /\ eamWaiting' = {}
    /\ todo' = [todo EXCEPT ![t] = Others(t)]
    /\ Goto(t, "notify")
    /\ UNCHANGED <<linked, countVars, safePointState, bufferVars, pfmVars, ret, criticalVars,
                   exclusiveVMAccessQueue, vmThreadListMutex, expectVars>>

(* Notify publicFlagsMutex of each thread whose flags were cleared ... *)
Notify(t, u) ==
    /\ pc[t] = "notify" /\ u \in todo[t]
    /\ pfm[u] = NoThread
    /\ NotifyPfm(u, TRUE)
    /\ todo' = [todo EXCEPT ![t] = @ \ {u}]
    /\ UNCHANGED <<vmVars, flagVars, pfm, localVars, exclusiveVMAccessQueue, vmThreadListMutex,
                   exclusiveCount, expectVars>>

(* ... and exit vmThreadListMutex. *)
NotifyEnd(t) ==
    /\ pc[t] = "notify" /\ todo[t] = {}
    /\ vmThreadListMutex' = NoThread
    /\ Goto(t, "vm")
    /\ UNCHANGED <<vmVars, flagVars, pfmVars, ret, criticalVars, exclusiveVMAccessQueue,
                   exclusiveCount, todo, expectVars>>

-----------------------------------------------------------------------------
(* Thread creation and death. *)

(* allocateVMThread under vmThreadListMutex; a recycled thread was stored
   halted for inspection.  The thread is marked if a request is under way. *)
AllocateVMThread(t) ==
    /\ pc[t] = "dead"
    /\ vmThreadListMutex = NoThread
    /\ linked' = linked \cup {t}
    /\ publicFlags' =
         WithFlags(t, (IF exclusiveAccessState # "NONE" THEN {"HALT_EXCLUSIVE"} ELSE {}) \cup
                      (IF safePointState # "NONE" THEN {"HALTED_AT_SAFE_POINT"} ELSE {}),
                   {"HALT_INSPECTION"})
    /\ Goto(t, "released")
    /\ UNCHANGED <<countVars, stateVars, eamWaiting, bufferVars, pfmVars, ret, criticalVars,
                   requestVars>>

(* deallocateVMThread: wait until no exclusive access is in progress ... *)
DeallocateWait(t) ==
    /\ \/ pc[t] = "released" /\ t \in Mortal /\ ~Has(t, "JNI_CRITICAL_REGION")
       \/ pc[t] = "dying" /\ t \notin eamWaiting
    /\ IF exclusiveAccessState # "NONE"
       THEN Goto(t, "dying") /\ eamWaiting' = eamWaiting \cup {t}
       ELSE Goto(t, "unlink") /\ UNCHANGED eamWaiting
    /\ UNCHANGED <<linked, countVars, stateVars, flagVars, pfmVars, ret, criticalVars,
                   requestVars>>

(* ... then unlink the thread under vmThreadListMutex and recycle it. *)
DeallocateVMThread(t) ==
    /\ pc[t] = "unlink"
    /\ vmThreadListMutex = NoThread /\ pfm[t] = NoThread
    /\ linked' = linked \ {t}
    /\ publicFlags' = [publicFlags EXCEPT ![t] = {"HALT_INSPECTION"}]
    /\ Goto(t, "dead")
    /\ UNCHANGED <<countVars, stateVars, eamWaiting, bufferVars, pfmVars, ret, criticalVars,
                   requestVars>>

-----------------------------------------------------------------------------
(* The specification. *)

Init ==
    /\ linked = Thread \ Mortal
    /\ publicFlags = [t \in Thread |-> {}]
    /\ inNative = [t \in Thread |-> FALSE]
    /\ storeBuffer = [t \in Thread |-> <<>>]
    /\ pfm = [t \in Thread |-> NoThread]
    /\ pfmWaiting = [t \in Thread |-> {}]
    /\ pc = [t \in Thread |-> IF t \in Mortal THEN "dead" ELSE "released"]
    /\ ret = [t \in Thread |-> "vm"]
    /\ reacquireJNICriticalAccess = [t \in Thread |-> FALSE]
    /\ jniCriticalDirectCount = [t \in Thread |-> 0]
    /\ exclusiveAccessResponseCount = 0
    /\ jniCriticalResponseCount = 0
    /\ safePointResponseCount = 0
    /\ exclusiveAccessState = "NONE"
    /\ safePointState = "NONE"
    /\ eamWaiting = {}
    /\ exclusiveVMAccessQueue = <<>>
    /\ vmThreadListMutex = NoThread
    /\ exclusiveCount = [t \in Thread |-> 0]
    /\ todo = [t \in Thread |-> {}]
    /\ responsesExpected = [t \in Thread |-> 0]
    /\ jniCriticalResponsesExpected = [t \in Thread |-> 0]

(* What a thread does to get on with an operation it has begun. *)
AccessStep(t) ==
    \/ ClearVMAccess(t) \/ Respond(t)
    \/ GiveUpCritical(t) \/ RespondCritical(t)
    \/ WaitForAccess(t) \/ Wake(t) \/ TakeVMAccess(t)
    \/ ExitInline(t) \/ ExitOutOfLine(t) \/ ExitSlow(t)
    \/ EnterInline(t) \/ EnterOutOfLine(t) \/ EnterSlow(t) \/ EndAsyncCheck(t)
    \/ EnterCriticalWithAccess(t) \/ CountCritical(t)
    \/ EnterCriticalWithoutAccess(t) \/ EnterCriticalThroughVM(t) \/ SetCriticalFlags(t)
    \/ ExitCriticalSlow(t) \/ ExitCriticalRespond(t)

(* What it begins of its own accord. *)
AccessBegin(t) ==
    \/ ReleaseFast(t) \/ ReleaseSlow(t)
    \/ AcquireFast(t) \/ AcquireSlow(t) \/ TryAcquire(t)
    \/ ExitVMToJNI(t) \/ EnterVMFromJNI(t)
    \/ EnterNestedCritical(t) \/ EnterCriticalFast(t) \/ EnterCriticalSlow(t)

(* What it must do sooner or later: see a halt request, leave its critical
   regions. *)
ExitCriticalRegion(t) == ExitNestedCritical(t) \/ ExitCriticalFast(t) \/ ExitCriticalBegin(t)
AccessDuty(t) == CheckAsyncMessages(t) \/ ExitCriticalRegion(t)

RequestStep(t) ==
    \/ Granted(t) \/ AcceptHandOff(t)
    \/ PostBegin(t) \/ Flush(t) \/ PostEnd(t)
    \/ \E u \in Thread : PostHalt(t, u) \/ PostCount(t, u) \/ Notify(t, u)
    \/ Await(t) \/ EnterExclusive(t)
    \/ ReleaseExclusiveNested(t) \/ HandOff(t) \/ ReleaseExclusive(t)
    \/ NotifyEnd(t)

RequestBegin(t) ==
    \/ AcquireExclusiveNested(t) \/ AcquireExclusiveFirst(t) \/ AcquireExclusiveQueued(t)

Lifecycle(t) == AllocateVMThread(t) \/ DeallocateWait(t) \/ DeallocateVMThread(t)

Access(t) == AccessStep(t) \/ AccessBegin(t) \/ AccessDuty(t)

ThreadNext(t) ==
    \/ Access(t) /\ UNCHANGED requestVars
    \/ RequestStep(t) \/ RequestBegin(t) \/ Lifecycle(t)

Next == \E t \in Thread : ThreadNext(t) \/ (DrainOne(t) /\ UNCHANGED requestVars)

Spec == Init /\ [][Next]_vars

-----------------------------------------------------------------------------
(* Properties. *)

AccessLabel == AtRest \cup
    {"release", "respond", "acquire", "acquireRespond", "test", "wait", "exitCheck", "exit",
     "enterCheck", "enter", "async", "criticalVM", "criticalCount", "criticalNative", "critical",
     "criticalExit", "criticalExitRespond"}
ClaimLabel   == {"postList", "post", "count", "await", "awaitVM", "awaitJNI"}
OwnerLabel   == {"exclusiveList", "exclusive"}
RequestLabel == ClaimLabel \cup OwnerLabel \cup {"granted", "accept", "notify"}
DeathLabel   == {"dead", "dying", "unlink"}
Label        == AccessLabel \cup RequestLabel \cup DeathLabel
ReturnLabel  == AtRest \cup {"critical", "async", "granted"}
XAccess      == {"NONE", "PENDING", "EXCLUSIVE", "HANDING_OFF", "HANDED_OFF"}

FlagTypes ==
    /\ publicFlags \in [Thread -> SUBSET Flag]
    /\ reacquireJNICriticalAccess \in [Thread -> BOOLEAN]
BufferTypes ==
    /\ inNative \in [Thread -> BOOLEAN]
    /\ storeBuffer \in [Thread -> Seq(BOOLEAN)]
MonitorTypes ==
    /\ pfm \in [Thread -> Thread \cup {NoThread}]
    /\ pfmWaiting \in [Thread -> SUBSET Thread]
    /\ eamWaiting \subseteq Thread
    /\ vmThreadListMutex \in Thread \cup {NoThread}
PlaceTypes ==
    /\ pc \in [Thread -> Label]
    /\ ret \in [Thread -> ReturnLabel]
CountTypes ==
    /\ jniCriticalDirectCount \in [Thread -> 0..MaxCriticalNesting]
    /\ exclusiveCount \in [Thread -> 0..MaxExclusiveDepth]
    /\ exclusiveAccessResponseCount \in Int
    /\ jniCriticalResponseCount \in Int
    /\ safePointResponseCount \in Int
    /\ responsesExpected \in [Thread -> Nat]
    /\ jniCriticalResponsesExpected \in [Thread -> Nat]
RequestTypes ==
    /\ linked \subseteq Thread
    /\ todo \in [Thread -> SUBSET Thread]
    /\ exclusiveVMAccessQueue \in Seq(Thread)
    /\ exclusiveAccessState \in XAccess
    /\ safePointState \in XAccess

(* Type invariant: the flag words, monitors, counters and queues of VM access
   hold values of their declared kind. *)
TypeOK ==
    FlagTypes /\ BufferTypes /\ MonitorTypes /\ PlaceTypes /\ CountTypes /\ RequestTypes

(* A thread that runs in the VM with VM access may read and write objects. *)
RunsInVM(t) ==
    \/ pc[t] \in {"vm", "async", "criticalVM", "criticalCount", "accept", "notify"}
    \/ pc[t] \in ClaimLabel \cup OwnerLabel
    \/ pc[t] \in {"criticalExit", "criticalExitRespond"} /\ ret[t] = "vm"

(* acquireExclusiveVMAccess returns only when no other thread runs in the VM and
   none holds direct pointers into the heap from a JNI critical region. *)
ExclusiveMeansAlone ==
    \A t, u \in Thread :
        pc[t] \in OwnerLabel /\ u # t => ~RunsInVM(u) /\ ~Has(u, "JNI_CRITICAL_ACCESS")

(* The threads a requester still waits for: asked to halt and counted, with VM
   access or between giving it up and responding. *)
Responder(u) == MustRespond(u) /\ (Has(u, "VM_ACCESS") \/ pc[u] = "respond")
AwaitedResponders == {u \in Thread : Responder(u)}

(* The same for JNI critical regions; at "criticalCount" a thread has entered
   its region and not yet added itself. *)
CriticalResponder(u) ==
    /\ Has(u, "HALT_EXCLUSIVE")
    /\ \/ Has(u, "JNI_CRITICAL_ACCESS") /\ pc[u] # "criticalCount"
       \/ pc[u] \in {"acquireRespond", "criticalExitRespond"}
AwaitedCriticals == {u \in Thread : CriticalResponder(u)}

(* The two response counters never drift from the threads they stand for: with
   what the requester has yet to add they are the number of threads it awaits,
   also while a hand-off is between the two threads.  A response too many or
   too few would end the wait early or never. *)
ResponsesAccounted ==
    /\ \A t \in Thread : pc[t] \in ClaimLabel \cup OwnerLabel =>
         /\ exclusiveAccessResponseCount + responsesExpected[t] = Cardinality(AwaitedResponders)
         /\ jniCriticalResponseCount + jniCriticalResponsesExpected[t]
              = Cardinality(AwaitedCriticals)
    /\ exclusiveAccessState = "HANDING_OFF" =>
         /\ exclusiveAccessResponseCount + 1 = Cardinality(AwaitedResponders)
         /\ jniCriticalResponseCount + 1 = Cardinality(AwaitedCriticals)

(* The assertions of VMAccess.cpp and AsyncMessageHandler.cpp hold where the
   code makes them: who has VM access, who is in native, the state a requester
   finds after a hand-off, no early responses, no safe point in the VM. *)
AssertionsHold ==
    \A t \in Thread :
        /\ pc[t] \in {"acquire", "acquireRespond", "test", "wait", "released"} => ~Has(t, "VM_ACCESS")
        /\ RunsInVM(t) => Has(t, "VM_ACCESS") /\ ~OwnInNative(t)
        /\ pc[t] \in {"acquire", "test"} => ~OwnInNative(t)
        /\ pc[t] = "accept" => exclusiveAccessState = "HANDING_OFF"
        /\ pc[t] \in {"await", "awaitVM", "awaitJNI"} =>
             exclusiveAccessState \in {"PENDING", "HANDED_OFF"}
        /\ pc[t] \in OwnerLabel =>
             /\ exclusiveAccessState = "EXCLUSIVE"
             /\ ~Has(t, "NOT_COUNTED_BY_EXCLUSIVE")
        /\ pc[t] = "post" /\ todo[t] = {} => exclusiveAccessResponseCount = 0
        /\ pc[t] \in {"vm", "async"} => ~Has(t, "NOT_AT_SAFE_POINT")

(* The abstract view: who may touch objects, who has exclusive access, and who
   waits for it, the thread the access was handed to before the queue. *)
Running == {t \in Thread : RunsInVM(t) \/ Has(t, "JNI_CRITICAL_ACCESS")}
Owner   == {t \in Thread : pc[t] \in OwnerLabel}
Claimant == {t \in Thread : exclusiveCount[t] > 0 /\ t \notin Owner
                              /\ \A i \in DOMAIN exclusiveVMAccessQueue :
                                   exclusiveVMAccessQueue[i] # t}
TheOne(S) == IF S = {} THEN NoThread ELSE CHOOSE t \in S : TRUE
Waiters   == IF Claimant = {} THEN exclusiveVMAccessQueue
             ELSE <<TheOne(Claimant)>> \o exclusiveVMAccessQueue

World == INSTANCE StopTheWorld
         WITH running <- Running, owner <- TheOne(Owner), waiters <- Waiters

(* The flags, counters, hand-offs and monitors of VMAccess.cpp implement
   StopTheWorld: requests are granted in the order of arrival, to a thread alone,
   and nobody starts until the owner has released. *)
ImplementsStopTheWorld == World!Spec

-----------------------------------------------------------------------------
(* Liveness, under the fairness SafePoint states.  A thread that asks for
   exclusive VM access gets it, first or queued. *)
RequestsAreGranted ==
    \A t \in Thread : (exclusiveCount[t] > 0) ~> (pc[t] = "exclusive")

(* Once no exclusive access is in progress any more, no thread stays in
   deallocateVMThread: releaseExclusiveVMAccess notifies those that wait there. *)
DyingThreadsLeave ==
    <>[](exclusiveAccessState = "NONE") =>
        \A t \in Thread : []<>(pc[t] \notin {"dying", "unlink"})
=============================================================================
