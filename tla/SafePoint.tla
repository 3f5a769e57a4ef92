------------------------------ MODULE SafePoint ------------------------------
(***************************************************************************)
(* Safe point VM access: stop every thread at a point where its compiled   *)
(* code can be replaced, next to exclusive VM access.                      *)
(*                                                                         *)
(* acquireSafePointVMAccess and releaseSafePointVMAccess of                *)
(* runtime/vm/VMAccess.cpp.  The responses of the other threads are in     *)
(* Respond of VMAccess.  The retry of the acquire is left out: only        *)
(* backOffFromSafePoint, which the Metronome collector calls, raises the   *)
(* count again (SafePointResponsesAccounted states that it is 0 there).    *)
(***************************************************************************)
EXTENDS ExclusiveAccess

CONSTANTS
    SafePointer,      \* the threads that ask for a safe point
    MaxSafePointDepth \* bound on the nesting of safe point requests

ASSUME SafePointAssumption ==
    SafePointer \subseteq Thread /\ MaxSafePointDepth \in Nat \ {0}

VARIABLES
    safePointCount,             \* J9VMThread.safePointCount
    listEntries,                \* how often a safe point owner entered vmThreadListMutex
    safePointResponsesExpected  \* responsesExpected of acquireSafePointVMAccess

pointVars == <<safePointCount, listEntries, safePointResponsesExpected>>
safePointVars == <<vars, pointVars>>

(* vmThreadListMutex is recursive: t enters it, and leaves it but for n entries. *)
EnterList(t) == vmThreadListMutex \in {NoThread, t} /\ vmThreadListMutex' = t
LeaveList(t, n) == vmThreadListMutex' = IF n = 0 THEN NoThread ELSE t

PointFlags == {"HALTED_AT_SAFE_POINT", "NOT_COUNTED_BY_SAFE_POINT"}

-----------------------------------------------------------------------------
(* acquireSafePointVMAccess: release VM access ...  Its callers (JVMTI, a write to
   a final field) are not called inside a JNI critical region. *)
AcquireSafePoint(t) ==
    /\ pc[t] = "vm" /\ t \in SafePointer /\ ~Has(t, "JNI_CRITICAL_REGION")
    /\ safePointCount[t] = 0
    /\ safePointCount' = [safePointCount EXCEPT ![t] = 1]
    /\ ReleaseTo(t, "spClaim")
    /\ UNCHANGED <<vmVars, pfmVars, criticalVars, requestVars, listEntries,
                   safePointResponsesExpected>>

(* A nested request has nothing to do but enter vmThreadListMutex once more. *)
AcquireSafePointNested(t) ==
    /\ pc[t] = "safePoint"
    /\ safePointCount[t] < MaxSafePointDepth /\ listEntries[t] < MaxSafePointDepth
    /\ safePointCount' = [safePointCount EXCEPT ![t] = @ + 1]
    /\ listEntries' = [listEntries EXCEPT ![t] = @ + 1]
    /\ UNCHANGED <<vars, safePointResponsesExpected>>

(* ... wait for the safe point of another thread to end and begin one ... *)
ClaimSafePoint(t) ==
    /\ pc[t] = "spClaim" /\ t \notin eamWaiting
    /\ IF safePointState # "NONE"
       THEN /\ eamWaiting' = eamWaiting \cup {t}
            /\ UNCHANGED <<pc, safePointState, safePointResponseCount>>
       ELSE /\ safePointState' = "PENDING"
            /\ safePointResponseCount' = 0
            /\ Goto(t, "spPostList")
            /\ UNCHANGED eamWaiting
    /\ UNCHANGED <<linked, exclusiveAccessResponseCount, jniCriticalResponseCount,
                   exclusiveAccessState, flagVars, pfmVars, ret, criticalVars, requestVars,
                   pointVars>>

(* ... post the request under vmThreadListMutex ... *)
PostSafePoint(t) ==
    /\ pc[t] = "spPostList"
    /\ EnterList(t)
    /\ todo' = [todo EXCEPT ![t] = linked]
    /\ Goto(t, "spPost")
    /\ UNCHANGED <<vmVars, flagVars, pfmVars, ret, criticalVars, exclusiveVMAccessQueue,
                   exclusiveCount, expectVars, pointVars>>

(* Fault: a thread that releases before it is counted responds all the same. *)
RequestCounted(t, u) ==
    /\ pc[t] = "spPost" /\ u \in todo[t]
    /\ pfm[u] = NoThread
    /\ publicFlags' = WithFlags(u, {"REQUEST_SAFE_POINT"}, {})
    /\ todo' = [todo EXCEPT ![t] = @ \ {u}]
    /\ UNCHANGED <<vmVars, bufferVars, pfmVars, localVars, exclusiveVMAccessQueue,
                   vmThreadListMutex, exclusiveCount, expectVars, pointVars>>

(* ... first pass: ask every thread, this one too ... *)
RequestSafePoint(t, u) ==
    /\ pc[t] = "spPost" /\ u \in todo[t]
    /\ pfm[u] = NoThread
    /\ publicFlags' = WithFlags(u, {"REQUEST_SAFE_POINT", "NOT_COUNTED_BY_SAFE_POINT"}, {})
    /\ todo' = [todo EXCEPT ![t] = @ \ {u}]
    /\ UNCHANGED <<vmVars, bufferVars, pfmVars, localVars, exclusiveVMAccessQueue,
                   vmThreadListMutex, exclusiveCount, expectVars, pointVars>>

FlushForSafePoint(t) ==
    /\ pc[t] = "spPost" /\ todo[t] = {}
    /\ FlushAll
    /\ todo' = [todo EXCEPT ![t] = linked]
    /\ Goto(t, "spCount")
    /\ UNCHANGED <<vmVars, publicFlags, pfmVars, ret, criticalVars, exclusiveVMAccessQueue,
                   vmThreadListMutex, exclusiveCount, expectVars, pointVars>>

(* Fault: a thread in native must respond too. *)
CountNative(t, u) ==
    LET counted == HasAny(u, {"NOT_AT_SAFE_POINT", "VM_ACCESS"}) IN
    /\ pc[t] = "spCount" /\ u \in todo[t]
    /\ pfm[u] = NoThread
    /\ publicFlags' = IF counted THEN WithFlags(u, {}, {"NOT_COUNTED_BY_SAFE_POINT"})
                      ELSE WithFlags(u, PointFlags, {"REQUEST_SAFE_POINT"})
    /\ NotifyPfm(u, ~counted)
    /\ safePointResponsesExpected' =
         [safePointResponsesExpected EXCEPT ![t] = @ + (IF counted THEN 1 ELSE 0)]
    /\ todo' = [todo EXCEPT ![t] = @ \ {u}]
    /\ UNCHANGED <<vmVars, bufferVars, pfm, localVars, exclusiveVMAccessQueue,
                   vmThreadListMutex, exclusiveCount, expectVars, safePointCount, listEntries>>

(* Fault: a thread that gave up VM access away from a safe point is not counted. *)
CountAccessOnly(t, u) ==
    LET counted == ~inNative[u] /\ Has(u, "VM_ACCESS") IN
    /\ pc[t] = "spCount" /\ u \in todo[t]
    /\ pfm[u] = NoThread
    /\ publicFlags' = IF counted THEN WithFlags(u, {}, {"NOT_COUNTED_BY_SAFE_POINT"})
                      ELSE WithFlags(u, PointFlags, {"REQUEST_SAFE_POINT"})
    /\ NotifyPfm(u, ~counted)
    /\ safePointResponsesExpected' =
         [safePointResponsesExpected EXCEPT ![t] = @ + (IF counted THEN 1 ELSE 0)]
    /\ todo' = [todo EXCEPT ![t] = @ \ {u}]
    /\ UNCHANGED <<vmVars, bufferVars, pfm, localVars, exclusiveVMAccessQueue,
                   vmThreadListMutex, exclusiveCount, expectVars, safePointCount, listEntries>>

(* ... second pass: a thread in native, or without VM access and at a safe
   point, is halted already; the others are counted ... *)
CountForSafePoint(t, u) ==
    LET counted == ~inNative[u] /\ HasAny(u, {"NOT_AT_SAFE_POINT", "VM_ACCESS"}) IN
    /\ pc[t] = "spCount" /\ u \in todo[t]
    /\ pfm[u] = NoThread
    /\ publicFlags' = IF counted THEN WithFlags(u, {}, {"NOT_COUNTED_BY_SAFE_POINT"})
                      ELSE WithFlags(u, PointFlags, {"REQUEST_SAFE_POINT"})
    /\ NotifyPfm(u, ~counted)
    /\ safePointResponsesExpected' =
         [safePointResponsesExpected EXCEPT ![t] = @ + (IF counted THEN 1 ELSE 0)]
    /\ todo' = [todo EXCEPT ![t] = @ \ {u}]
    /\ UNCHANGED <<vmVars, bufferVars, pfm, localVars, exclusiveVMAccessQueue,
                   vmThreadListMutex, exclusiveCount, expectVars, safePointCount, listEntries>>

PostSafePointEnd(t) ==
    /\ pc[t] = "spCount" /\ todo[t] = {}
    /\ LeaveList(t, listEntries[t])
    /\ Goto(t, "spAwait")
    /\ UNCHANGED <<vmVars, flagVars, pfmVars, ret, criticalVars, exclusiveVMAccessQueue,
                   exclusiveCount, todo, expectVars, pointVars>>

(* ... wait until every counted thread has responded ... *)
AwaitSafePoint(t) ==
    /\ pc[t] = "spAwait" /\ t \notin eamWaiting
    /\ safePointResponseCount' = safePointResponseCount + safePointResponsesExpected[t]
    /\ safePointResponsesExpected' = [safePointResponsesExpected EXCEPT ![t] = 0]
    /\ IF safePointResponseCount' # 0
       THEN eamWaiting' = eamWaiting \cup {t} /\ UNCHANGED pc
       ELSE Goto(t, "spAcquire") /\ UNCHANGED eamWaiting
    /\ UNCHANGED <<linked, exclusiveAccessResponseCount, jniCriticalResponseCount, stateVars,
                   flagVars, pfmVars, ret, criticalVars, requestVars, safePointCount, listEntries>>

(* ... acquire VM access, which only an exclusive request delays ... *)
AcquireForSafePoint(t) ==
    /\ pc[t] = "spAcquire"
    /\ EnterPfm(t, t)
    /\ Goto(t, "acquire")
    /\ ret' = [ret EXCEPT ![t] = "safePointed"]
    /\ UNCHANGED <<vmVars, flagVars, pfmWaiting, criticalVars, requestVars, pointVars>>

GrantSafePoint(t) ==
    /\ pc[t] = "safePointed"
    /\ safePointState' = "EXCLUSIVE"
    /\ publicFlags' = WithFlags(t, {}, PointFlags)
    /\ Goto(t, "spEnter")
    /\ UNCHANGED <<linked, countVars, exclusiveAccessState, eamWaiting, bufferVars, pfmVars, ret,
                   criticalVars, requestVars, pointVars>>

(* ... and keep vmThreadListMutex for the duration. *)
EnterSafePoint(t) ==
    /\ pc[t] = "spEnter"
    /\ EnterList(t)
    /\ listEntries' = [listEntries EXCEPT ![t] = @ + 1]
    /\ Goto(t, "safePoint")
    /\ UNCHANGED <<vmVars, flagVars, pfmVars, ret, criticalVars, exclusiveVMAccessQueue,
                   exclusiveCount, todo, expectVars, safePointCount, safePointResponsesExpected>>

-----------------------------------------------------------------------------
(* releaseSafePointVMAccess: a nested release only counts ... *)
ReleaseSafePoint(t) ==
    /\ pc[t] = "safePoint"
    /\ safePointCount' = [safePointCount EXCEPT ![t] = @ - 1]
    /\ IF safePointCount[t] = 1
       THEN Goto(t, "spRelease") /\ todo' = [todo EXCEPT ![t] = linked]
       ELSE UNCHANGED <<pc, todo>>
    /\ UNCHANGED <<vmVars, flagVars, pfmVars, ret, criticalVars, exclusiveVMAccessQueue,
                   vmThreadListMutex, exclusiveCount, expectVars, listEntries,
                   safePointResponsesExpected>>

(* Fault: the flags are cleared without a notification. *)
ResumeSilently(t, u) ==
    /\ pc[t] = "spRelease" /\ u \in todo[t]
    /\ publicFlags' = WithFlags(u, {}, PointFlags)
    /\ todo' = [todo EXCEPT ![t] = @ \ {u}]
    /\ UNCHANGED <<vmVars, bufferVars, pfmVars, localVars, exclusiveVMAccessQueue,
                   vmThreadListMutex, exclusiveCount, expectVars, pointVars>>

(* Fault: a thread stays uncounted for the next safe point. *)
ResumeHaltedOnly(t, u) ==
    /\ pc[t] = "spRelease" /\ u \in todo[t]
    /\ pfm[u] = NoThread
    /\ publicFlags' = WithFlags(u, {}, {"HALTED_AT_SAFE_POINT"})
    /\ NotifyPfm(u, TRUE)
    /\ todo' = [todo EXCEPT ![t] = @ \ {u}]
    /\ UNCHANGED <<vmVars, bufferVars, pfm, localVars, exclusiveVMAccessQueue,
                   vmThreadListMutex, exclusiveCount, expectVars, pointVars>>

(* ... the outermost lets every thread go ... *)
ResumeFromSafePoint(t, u) ==
    /\ pc[t] = "spRelease" /\ u \in todo[t]
    /\ pfm[u] = NoThread
    /\ publicFlags' = WithFlags(u, {}, PointFlags)
    /\ NotifyPfm(u, TRUE)
    /\ todo' = [todo EXCEPT ![t] = @ \ {u}]
    /\ UNCHANGED <<vmVars, bufferVars, pfm, localVars, exclusiveVMAccessQueue,
                   vmThreadListMutex, exclusiveCount, expectVars, pointVars>>

(* ... ends the safe point, and exits vmThreadListMutex, once. *)
EndSafePoint(t) ==
    /\ pc[t] = "spRelease" /\ todo[t] = {}
    /\ safePointState' = "NONE"
    /\ eamWaiting' = {}
    /\ listEntries' = [listEntries EXCEPT ![t] = @ - 1]
    /\ LeaveList(t, listEntries'[t])
    /\ Goto(t, "vm")
    /\ UNCHANGED <<linked, countVars, exclusiveAccessState, flagVars, pfmVars, ret, criticalVars,
                   exclusiveVMAccessQueue, exclusiveCount, todo, expectVars, safePointCount,
                   safePointResponsesExpected>>

-----------------------------------------------------------------------------
(* The specification. *)

PointInit ==
    /\ Init
    /\ safePointCount = [t \in Thread |-> 0]
    /\ listEntries = [t \in Thread |-> 0]
    /\ safePointResponsesExpected = [t \in Thread |-> 0]

PointStep(t) ==
    \/ ClaimSafePoint(t) \/ PostSafePoint(t) \/ FlushForSafePoint(t) \/ PostSafePointEnd(t)
    \/ AwaitSafePoint(t) \/ AcquireForSafePoint(t) \/ GrantSafePoint(t) \/ EnterSafePoint(t)
    \/ ReleaseSafePoint(t) \/ EndSafePoint(t)
    \/ \E u \in Thread :
         RequestSafePoint(t, u) \/ CountForSafePoint(t, u) \/ ResumeFromSafePoint(t, u)

PointNext ==
    \/ Next /\ UNCHANGED pointVars
    \/ \E t \in Thread : AcquireSafePoint(t) \/ AcquireSafePointNested(t) \/ PointStep(t)

PointSpec == PointInit /\ [][PointNext]_safePointVars

-----------------------------------------------------------------------------
(* Properties. *)

PointClaim == {"spClaim", "spPostList", "spPost", "spCount", "spAwait", "spAcquire"}
PointOwner == {"safePointed", "spEnter", "safePoint"}
PointLabel == PointClaim \cup PointOwner \cup {"spRelease"}
PointRuns(t) == RunsInVM(t) \/ pc[t] \in PointOwner \cup {"spRelease"}

(* acquireSafePointVMAccess returns only when no other thread runs in the VM or
   is on its way to exclusive VM access, although a thread queued for exclusive
   access has given up VM access without being at a safe point. *)
SafePointMeansAlone ==
    \A t, u \in Thread :
        pc[t] \in PointOwner /\ u # t => ~PointRuns(u) /\ exclusiveCount[u] = 0

(* The response count, with what the requester has yet to add, is the number of
   threads that were counted and have not responded; it is 0 when the requester
   has VM access again, so that it never has to wait a second time. *)
AwaitedAtSafePoint ==
    {u \in Thread : Has(u, "REQUEST_SAFE_POINT") /\ ~Has(u, "NOT_COUNTED_BY_SAFE_POINT")}
SafePointResponsesAccounted ==
    \A t \in Thread :
        /\ pc[t] \in {"spCount", "spAwait"} =>
             safePointResponseCount + safePointResponsesExpected[t]
               = Cardinality(AwaitedAtSafePoint)
        /\ pc[t] \in PointOwner => safePointResponseCount = 0 /\ AwaitedAtSafePoint = {}

(* Nothing is left of a safe point that has ended: no thread stays asked,
   halted or uncounted, whatever it did meanwhile (created, queued for exclusive
   access, in native). *)
SafePointLeavesNothing ==
    safePointState = "NONE" =>
        \A u \in linked : ~HasAny(u, PointFlags \cup {"REQUEST_SAFE_POINT"})

(* Liveness.  An operation begun goes on; a thread in the VM gets to an async
   check; a thread in a JNI critical region does not block in it and leaves it;
   a processor drains its stores; a thread that keeps finding a monitor free
   enters it; who has exclusive VM access or a safe point releases it; a thread
   that has begun to die goes on. *)
PointFairness ==
    /\ \A t \in Thread :
        /\ WF_safePointVars(/\ AccessStep(t) \/ (pc[t] = "dying" /\ DeallocateWait(t))
                            /\ UNCHANGED <<requestVars, pointVars>>)
        /\ SF_safePointVars(CheckAsyncMessages(t) /\ UNCHANGED <<requestVars, pointVars>>)
        /\ SF_safePointVars(\/ PointStep(t)
                            \/ (RequestStep(t) \/ DeallocateVMThread(t)) /\ UNCHANGED pointVars)
    /\ \A t \in CriticalUser :
        /\ SF_safePointVars(ExitCriticalRegion(t) /\ UNCHANGED <<requestVars, pointVars>>)
        /\ WF_safePointVars(/\ Has(t, "JNI_CRITICAL_REGION")
                            /\ AcquireFast(t) \/ AcquireSlow(t)
                            /\ UNCHANGED <<requestVars, pointVars>>)
    /\ \A t \in NativeUser : WF_safePointVars(DrainOne(t) /\ UNCHANGED <<requestVars, pointVars>>)

FairPointSpec == PointSpec /\ PointFairness

(* A thread that has begun a safe point gets it, next to threads that ask for
   exclusive VM access: a thread that is counted while it is on its way to
   exclusive access responds after it. *)
SafePointsAreGranted ==
    \A t \in Thread : pc[t] = "spPostList" ~> pc[t] = "safePoint"

(* Once no request is in progress any more, no thread stays halted and no
   requester stays behind in the wait for the safe point of another: clearing the
   flags first and notifying each publicFlagsMutex later loses no wake-up.  (While
   requests keep coming a thread may be halted again before it runs.) *)
SafePointThreadsResume ==
    <>[](safePointState = "NONE" /\ exclusiveAccessState = "NONE") =>
        \A t \in Thread : []<>(pc[t] \notin {"wait", "spClaim"})
=============================================================================
