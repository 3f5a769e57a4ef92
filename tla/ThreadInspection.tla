-------------------------- MODULE ThreadInspection --------------------------
(***************************************************************************)
(* Halting one thread to look at its stack, or to suspend it.              *)
(*                                                                         *)
(* haltThreadForInspection and resumeThreadForInspection of                *)
(* runtime/vm/VMAccess.cpp, and Thread.suspend and Thread.resume of        *)
(* runtime/jcl/common/thread.cpp, next to exclusive VM access.  A target   *)
(* is kept alive by its inspectorCount, so no thread dies here             *)
(* (Mortal = {}).                                                          *)
(***************************************************************************)
EXTENDS ExclusiveAccess

CONSTANTS
    Inspector, \* the threads that inspect others
    Suspender  \* the threads that suspend and resume others

ASSUME InspectorAssumption == Inspector \subseteq Thread /\ Suspender \subseteq Thread

VARIABLES
    inspectionSuspendCount, \* J9VMThread.inspectionSuspendCount
    target,                 \* the thread being inspected or suspended, if any
    suspended               \* the threads that suspendImpl has returned for

inspectVars == <<inspectionSuspendCount, target, suspended>>
inspectionVars == <<vars, inspectVars>>

AccessOrQueued == {"VM_ACCESS", "QUEUED_FOR_EXCLUSIVE"}

(* mustWaitForVMAccessRelease, after the flush. *)
MustWait(u) == Has(u, "VM_ACCESS") /\ ~OwnInNative(u)

-----------------------------------------------------------------------------
(* haltThreadForInspection: count the request and set the halt flag; a thread
   without VM access that is not queued for exclusive is halted already ... *)
HaltThread(t, u) ==
    /\ t \in Inspector /\ u \in linked \ {t}
    /\ \/ pc[t] = "vm" /\ target[t] = NoThread
       \/ pc[t] = "inspect" /\ target[t] = u
    /\ pfm[u] = NoThread
    /\ inspectionSuspendCount' = [inspectionSuspendCount EXCEPT ![u] = @ + 1]
    /\ publicFlags' = WithFlags(u, {"HALT_INSPECTION"}, {})
    /\ target' = [target EXCEPT ![t] = u]
    /\ Goto(t, IF HasAny(u, AccessOrQueued) THEN "inspectRelease" ELSE "inspected")
    /\ UNCHANGED <<vmVars, bufferVars, pfmVars, ret, criticalVars, requestVars, suspended>>

(* ... for the others VM access is released while waiting ... *)
HaltRelease(t) ==
    /\ pc[t] = "inspectRelease"
    /\ ReleaseTo(t, "inspectWait")
    /\ UNCHANGED <<vmVars, pfmVars, criticalVars, requestVars, inspectVars>>

(* Fault: no flush before inNative is read. *)
HaltWaitUnflushed(t) ==
    LET u == target[t]
        wait == Has(u, "VM_ACCESS") /\ ~inNative[u]
    IN
    /\ pc[t] = "inspectWait"
    /\ pfm[u] = NoThread
    /\ pfmWaiting' = IF wait THEN [pfmWaiting EXCEPT ![u] = @ \cup {t}] ELSE pfmWaiting
    /\ Goto(t, IF wait THEN "inspectWaiting" ELSE "inspectAcquire")
    /\ UNCHANGED <<vmVars, flagVars, pfm, ret, criticalVars, requestVars, inspectVars>>

(* Fault: the wait is for threads that run native code too. *)
HaltWaitNative(t) ==
    LET u == target[t]
        wait == HasAny(u, AccessOrQueued)
    IN
    /\ pc[t] = "inspectWait"
    /\ pfm[u] = NoThread
    /\ FlushAll
    /\ pfmWaiting' = IF wait THEN [pfmWaiting EXCEPT ![u] = @ \cup {t}] ELSE pfmWaiting
    /\ Goto(t, IF wait THEN "inspectWaiting" ELSE "inspectAcquire")
    /\ UNCHANGED <<vmVars, publicFlags, pfm, ret, criticalVars, requestVars, inspectVars>>

(* ... under the target's publicFlagsMutex, until it gives up VM access ... *)
HaltWait(t) ==
    LET u == target[t] IN
    /\ pc[t] = "inspectWait"
    /\ pfm[u] = NoThread
    /\ FlushAll
    /\ pfmWaiting' = IF MustWait(u) THEN [pfmWaiting EXCEPT ![u] = @ \cup {t}] ELSE pfmWaiting
    /\ Goto(t, IF MustWait(u) THEN "inspectWaiting" ELSE "inspectAcquire")
    /\ UNCHANGED <<vmVars, publicFlags, pfm, ret, criticalVars, requestVars, inspectVars>>

HaltWake(t) ==
    LET u == target[t] IN
    /\ pc[t] = "inspectWaiting" /\ t \notin pfmWaiting[u]
    /\ pfm[u] = NoThread
    /\ IF HasAny(u, AccessOrQueued)
       THEN pfmWaiting' = [pfmWaiting EXCEPT ![u] = @ \cup {t}] /\ UNCHANGED pc
       ELSE Goto(t, "inspectAcquire") /\ UNCHANGED pfmWaiting
    /\ UNCHANGED <<vmVars, flagVars, pfm, ret, criticalVars, requestVars, inspectVars>>

(* ... and VM access is acquired again, although this thread itself may be
   halted for inspection ... *)
HaltAcquire(t) ==
    /\ pc[t] = "inspectAcquire"
    /\ EnterPfm(t, t)
    /\ Goto(t, "acquire")
    /\ ret' = [ret EXCEPT ![t] = "inspectCheck"]
    /\ UNCHANGED <<vmVars, flagVars, pfmWaiting, criticalVars, requestVars, inspectVars>>

(* ... in which case the request is cancelled and made again. *)
HaltCheck(t) ==
    /\ pc[t] = "inspectCheck"
    /\ Goto(t, IF Has(t, "HALT_INSPECTION") THEN "inspectCancel" ELSE "inspected")
    /\ UNCHANGED <<vmVars, flagVars, pfmVars, ret, criticalVars, requestVars, inspectVars>>

(* Fault: the first resume clears the flag of all. *)
ResumeThreadAlways(t) ==
    LET u == target[t] IN
    /\ pc[t] \in {"inspected", "inspectCancel"}
    /\ pfm[u] = NoThread
    /\ inspectionSuspendCount' = [inspectionSuspendCount EXCEPT ![u] = @ - 1]
    /\ publicFlags' = WithFlags(u, {}, {"HALT_INSPECTION"})
    /\ NotifyPfm(u, TRUE)
    /\ target' = [target EXCEPT ![t] = IF pc[t] = "inspected" THEN NoThread ELSE u]
    /\ Goto(t, "resumeCheck")
    /\ UNCHANGED <<vmVars, bufferVars, pfm, ret, criticalVars, requestVars, suspended>>

(* resumeThreadForInspection: the last request clears the flag ... *)
ResumeThread(t) ==
    LET u == target[t]
        last == inspectionSuspendCount[u] = 1
    IN
    /\ pc[t] \in {"inspected", "inspectCancel"}
    /\ pfm[u] = NoThread
    /\ inspectionSuspendCount' =
         [inspectionSuspendCount EXCEPT ![u] = IF @ # 0 THEN @ - 1 ELSE 0]
    /\ publicFlags' = WithFlags(u, {}, IF last THEN {"HALT_INSPECTION"} ELSE {})
    /\ NotifyPfm(u, last)
    /\ target' = [target EXCEPT ![t] = IF pc[t] = "inspected" THEN NoThread ELSE u]
    /\ Goto(t, "resumeCheck")
    /\ UNCHANGED <<vmVars, bufferVars, pfm, ret, criticalVars, requestVars, suspended>>

Resumed(t) == IF target[t] = NoThread THEN "vm" ELSE "inspect"

(* ... and a thread that ran with partial VM access, being halted for
   inspection itself, acquires full VM access. *)
ResumeCheck(t) ==
    /\ pc[t] = "resumeCheck"
    /\ Goto(t, IF Has(t, "HALT_INSPECTION") THEN "resumeRelease" ELSE Resumed(t))
    /\ UNCHANGED <<vmVars, flagVars, pfmVars, ret, criticalVars, requestVars, inspectVars>>

ResumeRelease(t) ==
    /\ pc[t] = "resumeRelease"
    /\ ReleaseTo(t, "resumeAcquire")
    /\ UNCHANGED <<vmVars, pfmVars, criticalVars, requestVars, inspectVars>>

ResumeAcquire(t) ==
    /\ pc[t] = "resumeAcquire"
    /\ AcquireTo(t, Resumed(t))
    /\ UNCHANGED <<vmVars, bufferVars, pfmWaiting, criticalVars, requestVars, inspectVars>>

-----------------------------------------------------------------------------
(* Fault: the flag is set without the flush. *)
SuspendUnflushed(t, u) ==
    /\ pc[t] = "native" /\ t \in Suspender /\ u \in linked \ {t}
    /\ pfm[u] = NoThread
    /\ publicFlags' = WithFlags(u, {"HALT_JAVA_SUSPEND"}, {})
    /\ IF Has(u, "VM_ACCESS") /\ ~inNative[u]
       THEN /\ target' = [target EXCEPT ![t] = u]
            /\ pfmWaiting' = [pfmWaiting EXCEPT ![u] = @ \cup {t}]
            /\ Goto(t, "suspendWaiting")
            /\ UNCHANGED suspended
       ELSE suspended' = suspended \cup {u} /\ UNCHANGED <<target, pfmWaiting, pc>>
    /\ UNCHANGED <<vmVars, bufferVars, pfm, ret, criticalVars, requestVars, inspectionSuspendCount>>

(* suspendImpl, once it has left the VM: set the flag, flush, and wait if the
   target runs in the VM ... *)
SuspendThread(t, u) ==
    /\ pc[t] = "native" /\ t \in Suspender /\ u \in linked \ {t}
    /\ pfm[u] = NoThread
    /\ publicFlags' = WithFlags(u, {"HALT_JAVA_SUSPEND"}, {})
    /\ FlushAll
    /\ IF MustWait(u)
       THEN /\ target' = [target EXCEPT ![t] = u]
            /\ pfmWaiting' = [pfmWaiting EXCEPT ![u] = @ \cup {t}]
            /\ Goto(t, "suspendWaiting")
            /\ UNCHANGED suspended
       ELSE suspended' = suspended \cup {u} /\ UNCHANGED <<target, pfmWaiting, pc>>
    /\ UNCHANGED <<vmVars, pfm, ret, criticalVars, requestVars, inspectionSuspendCount>>

(* ... until it has given up VM access or was resumed. *)
SuspendWake(t) ==
    LET u == target[t] IN
    /\ pc[t] = "suspendWaiting" /\ t \notin pfmWaiting[u]
    /\ pfm[u] = NoThread
    /\ IF {"HALT_JAVA_SUSPEND", "VM_ACCESS"} \subseteq publicFlags[u]
       THEN pfmWaiting' = [pfmWaiting EXCEPT ![u] = @ \cup {t}]
            /\ UNCHANGED <<pc, target, suspended>>
       ELSE /\ Goto(t, "native")
            /\ target' = [target EXCEPT ![t] = NoThread]
            /\ suspended' = suspended \cup ({u} \cap {v \in Thread : Has(v, "HALT_JAVA_SUSPEND")})
            /\ UNCHANGED pfmWaiting
    /\ UNCHANGED <<vmVars, flagVars, pfm, ret, criticalVars, requestVars, inspectionSuspendCount>>

(* suspendImpl on the current thread takes effect when it leaves the VM. *)
SuspendSelf(t) ==
    /\ pc[t] = "vm" /\ t \in Suspender
    /\ publicFlags' = WithFlags(t, {"HALT_JAVA_SUSPEND"}, {})
    /\ Drained(t)
    /\ UNCHANGED <<vmVars, pfmVars, localVars, requestVars, inspectVars>>

(* resumeImpl: clearHaltFlag notifies the target. *)
ResumeSuspended(t, u) ==
    /\ pc[t] = "vm" /\ t \in Suspender /\ u \in linked \ {t}
    /\ pfm[u] = NoThread
    /\ publicFlags' = WithFlags(u, {}, {"HALT_JAVA_SUSPEND"})
    /\ NotifyPfm(u, TRUE)
    /\ suspended' = suspended \ {u}
    /\ UNCHANGED <<vmVars, bufferVars, pfm, localVars, requestVars, inspectionSuspendCount, target>>

-----------------------------------------------------------------------------
(* The specification. *)

InspectInit ==
    /\ Init
    /\ inspectionSuspendCount = [t \in Thread |-> 0]
    /\ target = [t \in Thread |-> NoThread]
    /\ suspended = {}

(* What an inspector or suspender does to get on with what it has begun. *)
InspectStep(t) ==
    \/ HaltRelease(t) \/ HaltWait(t) \/ HaltWake(t) \/ HaltAcquire(t) \/ HaltCheck(t)
    \/ ResumeThread(t) \/ ResumeCheck(t) \/ ResumeRelease(t) \/ ResumeAcquire(t)
    \/ SuspendWake(t)

InspectNext ==
    \/ Next /\ UNCHANGED inspectVars
    \/ \E t \in Thread :
         \/ InspectStep(t) \/ SuspendSelf(t)
         \/ \E u \in Thread : HaltThread(t, u) \/ SuspendThread(t, u) \/ ResumeSuspended(t, u)

InspectSpec == InspectInit /\ [][InspectNext]_inspectionVars

-----------------------------------------------------------------------------
(* Properties. *)

InspectLabel == {"inspect", "inspectRelease", "inspectWait", "inspectWaiting", "inspectAcquire",
                 "inspectCheck", "inspectCancel", "inspected", "resumeCheck", "resumeRelease",
                 "resumeAcquire", "suspendWaiting"}

(* Between haltThreadForInspection and resumeThreadForInspection an inspector
   has VM access, as in the rest of both functions where it has not released it. *)
InspectInVM == {"inspect", "inspectRelease", "inspectCheck", "inspectCancel", "inspected",
                "resumeCheck", "resumeRelease"}
Runs(t) == RunsInVM(t) \/ pc[t] \in InspectInVM

(* haltThreadForInspection returns only when its target does not run in the VM,
   and the target does not get back in until it is resumed, so that an inspector
   walks a stack that does not change.  A target that is itself an inspector may
   take VM access, but only to cancel its own request. *)
Cancelling == {"inspectCheck", "inspectCancel", "resumeCheck", "resumeRelease"}
InspectedIsHalted ==
    \A t \in Thread :
        pc[t] = "inspected" => ~Runs(target[t]) \/ pc[target[t]] \in Cancelling

(* A thread that suspendImpl has returned for, and nobody has resumed, does not
   run in the VM. *)
SuspendedIsHalted == \A u \in suspended : ~Runs(u)

(* Exclusive VM access also excludes inspectors, who may hold VM access while
   they are halted for inspection themselves. *)
ExclusiveExcludesInspectors ==
    \A t, u \in Thread : pc[t] \in OwnerLabel /\ u # t => ~Runs(u)

(* inspectionSuspendCount is the number of inspectors that have asked the thread
   to halt and not resumed it, and the halt flag is set exactly while it is not
   zero: a cancelled request undoes itself and no other. *)
Requesting(t) ==
    \/ pc[t] \in {"inspectRelease", "inspectWait", "inspectWaiting", "inspectAcquire",
                   "inspectCheck", "inspectCancel", "inspected"}
    \/ pc[t] \in {"release", "respond"} /\ ret[t] = "inspectWait"
    \/ pc[t] \in {"acquire", "acquireRespond", "test", "wait"} /\ ret[t] = "inspectCheck"
InspectionsCounted ==
    \A u \in Thread :
        /\ inspectionSuspendCount[u]
             = Cardinality({t \in Thread : target[t] = u /\ Requesting(t)})
        /\ inspectionSuspendCount[u] > 0 <=> Has(u, "HALT_INSPECTION")

(* Liveness: an inspector that has asked gets to inspect (with the fairness of
   ExclusiveAccess, if requests for exclusive access do not keep coming). *)
InspectFairness ==
    \A t \in Thread :
        /\ WF_inspectionVars(AccessStep(t) /\ UNCHANGED <<requestVars, inspectVars>>)
        /\ SF_inspectionVars(CheckAsyncMessages(t) /\ UNCHANGED <<requestVars, inspectVars>>)
        /\ WF_inspectionVars(DrainOne(t) /\ UNCHANGED <<requestVars, inspectVars>>)
        /\ SF_inspectionVars(RequestStep(t) /\ UNCHANGED inspectVars)
        /\ SF_inspectionVars(InspectStep(t) \/ (pc[t] = "inspect" /\ HaltThread(t, target[t])))

FairInspectSpec == InspectSpec /\ InspectFairness

(* A thread that starts to wait for its target gets to inspect it, unless it is
   suspended itself or, being inspected itself, makes its request again: the target
   gives up VM access, or has done so in a suspension or for exclusive access, and
   its notification is not lost. *)
InspectionsHappen ==
    \A t \in Thread :
        pc[t] = "inspectWait" ~>
            (pc[t] \in {"inspected", "inspectCancel"} \/ Has(t, "HALT_JAVA_SUSPEND"))
=============================================================================
