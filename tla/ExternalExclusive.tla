-------------------------- MODULE ExternalExclusive --------------------------
(***************************************************************************)
(* Exclusive VM access for threads that are not attached to the VM (a dump *)
(* agent, a signal handler), next to the requests of ExclusiveAccess.      *)
(*                                                                         *)
(* acquireExclusiveVMAccessFromExternalThread and                          *)
(* releaseExclusiveVMAccessFromExternalThread of runtime/vm/VMAccess.cpp.  *)
(* The number of threads in JNI critical regions that the acquire counts   *)
(* is not used in the build modelled (J9VM_INTERP_ATOMIC_FREE_JNI), so it  *)
(* is no variable here.                                                    *)
(***************************************************************************)
EXTENDS ExclusiveAccess

CONSTANT External \* the threads outside the VM

ASSUME ExternalAssumption == External \cap (Thread \cup {NoThread}) = {}

VARIABLES
    extPc,       \* where the external thread is
    extTodo,     \* the threads its loop has still to visit
    vmResponsesExpected

extVars == <<extPc, extTodo, vmResponsesExpected>>
externalVars == <<vars, extVars>>

ExtGoto(e, label) == extPc' = [extPc EXCEPT ![e] = label]

-----------------------------------------------------------------------------
(* synchronizeRequestsFromExternalThread: wait, not in the queue, until nobody
   has or claims exclusive access. *)
ClaimExternal(e) ==
    /\ extPc[e] = "idle" \/ (extPc[e] = "claim" /\ e \notin eamWaiting)
    /\ IF exclusiveAccessState # "NONE"
       THEN /\ eamWaiting' = eamWaiting \cup {e}
            /\ ExtGoto(e, "claim")
            /\ UNCHANGED <<exclusiveAccessState, exclusiveAccessResponseCount,
                           jniCriticalResponseCount>>
       ELSE /\ exclusiveAccessState' = "EXCLUSIVE"
            /\ exclusiveAccessResponseCount' = 0
            /\ jniCriticalResponseCount' = 0
            /\ ExtGoto(e, "postList")
            /\ UNCHANGED eamWaiting
    /\ UNCHANGED <<linked, safePointResponseCount, safePointState, flagVars, pfmVars, localVars,
                   requestVars, extTodo, vmResponsesExpected>>

(* Post the halt request under vmThreadListMutex ... *)
PostExternal(e) ==
    /\ extPc[e] = "postList"
    /\ vmThreadListMutex = NoThread
    /\ vmThreadListMutex' = e
    /\ extTodo' = [extTodo EXCEPT ![e] = linked]
    /\ ExtGoto(e, "post")
    /\ UNCHANGED <<vmVars, flagVars, pfmVars, localVars, exclusiveVMAccessQueue, exclusiveCount,
                   todo, expectVars, vmResponsesExpected>>

(* ... first pass: halt every thread, not counted yet ... *)
HaltExternal(e, u) ==
    /\ extPc[e] = "post" /\ u \in extTodo[e]
    /\ pfm[u] = NoThread
    /\ publicFlags' = WithFlags(u, Halted, {})
    /\ extTodo' = [extTodo EXCEPT ![e] = @ \ {u}]
    /\ UNCHANGED <<vmVars, bufferVars, pfmVars, localVars, requestVars, extPc,
                   vmResponsesExpected>>

(* Fault: the two passes without the flush between them. *)
FlushNoExternal(e) ==
    /\ extPc[e] = "post" /\ extTodo[e] = {}
    /\ extTodo' = [extTodo EXCEPT ![e] = linked]
    /\ ExtGoto(e, "count")
    /\ UNCHANGED <<vars, vmResponsesExpected>>

FlushExternal(e) ==
    /\ extPc[e] = "post" /\ extTodo[e] = {}
    /\ FlushAll
    /\ extTodo' = [extTodo EXCEPT ![e] = linked]
    /\ ExtGoto(e, "count")
    /\ UNCHANGED <<vmVars, publicFlags, pfmVars, localVars, requestVars, vmResponsesExpected>>

(* ... second pass: count the threads that have VM access outside native. *)
CountExternal(e, u) ==
    LET counted == ~inNative[u] /\ Has(u, "VM_ACCESS") IN
    /\ extPc[e] = "count" /\ u \in extTodo[e]
    /\ pfm[u] = NoThread
    /\ publicFlags' = WithFlags(u, {}, IF counted THEN {"NOT_COUNTED_BY_EXCLUSIVE"} ELSE {})
    /\ vmResponsesExpected' =
         [vmResponsesExpected EXCEPT ![e] = @ + (IF counted THEN 1 ELSE 0)]
    /\ extTodo' = [extTodo EXCEPT ![e] = @ \ {u}]
    /\ UNCHANGED <<vmVars, bufferVars, pfmVars, localVars, requestVars, extPc>>

PostExternalEnd(e) ==
    /\ extPc[e] = "count" /\ extTodo[e] = {}
    /\ vmThreadListMutex' = NoThread
    /\ ExtGoto(e, "await")
    /\ UNCHANGED <<vmVars, flagVars, pfmVars, localVars, exclusiveVMAccessQueue, exclusiveCount,
                   todo, expectVars, extTodo, vmResponsesExpected>>

(* waitForResponseFromExternalThread: wait for the counted threads ... *)
AwaitExternal(e) ==
    /\ extPc[e] = "await" /\ e \notin eamWaiting
    /\ exclusiveAccessResponseCount' = exclusiveAccessResponseCount + vmResponsesExpected[e]
    /\ vmResponsesExpected' = [vmResponsesExpected EXCEPT ![e] = 0]
    /\ IF exclusiveAccessResponseCount' # 0
       THEN eamWaiting' = eamWaiting \cup {e} /\ UNCHANGED extPc
       ELSE ExtGoto(e, "enterList") /\ UNCHANGED eamWaiting
    /\ UNCHANGED <<linked, jniCriticalResponseCount, safePointResponseCount, stateVars, flagVars,
                   pfmVars, localVars, requestVars, extTodo>>

(* ... and keep vmThreadListMutex. *)
EnterExternal(e) ==
    /\ extPc[e] = "enterList"
    /\ vmThreadListMutex = NoThread
    /\ vmThreadListMutex' = e
    /\ ExtGoto(e, "stopped")
    /\ UNCHANGED <<vmVars, flagVars, pfmVars, localVars, exclusiveVMAccessQueue, exclusiveCount,
                   todo, expectVars, extTodo, vmResponsesExpected>>

-----------------------------------------------------------------------------
(* Fault: the threads outside the queue are let go, the head of the queue is not. *)
HandOffToOthers(e) ==
    LET others == linked \ {Head(exclusiveVMAccessQueue)} IN
    /\ extPc[e] = "stopped"
    /\ exclusiveVMAccessQueue # <<>>
    /\ exclusiveAccessState' = "NONE"
    /\ publicFlags' = [u \in Thread |-> publicFlags[u] \ (IF u \in others THEN Halted ELSE {})]
    /\ eamWaiting' = {}
    /\ extTodo' = [extTodo EXCEPT ![e] = others]
    /\ ExtGoto(e, "notify")
    /\ UNCHANGED <<linked, countVars, safePointState, bufferVars, pfmVars, localVars, requestVars,
                   vmResponsesExpected>>

(* releaseExclusiveVMAccessFromExternalThread: hand exclusive access to the head
   of the queue; every other thread stays halted ... *)
HandOffExternal(e) ==
    LET next == Head(exclusiveVMAccessQueue) IN
    /\ extPc[e] = "stopped"
    /\ exclusiveVMAccessQueue # <<>>
    /\ exclusiveAccessState' = "HANDING_OFF_FROM_EXTERNAL_THREAD"
    /\ exclusiveVMAccessQueue' = Tail(exclusiveVMAccessQueue)
    /\ publicFlags' = WithFlags(next, {}, Halted)
    /\ extTodo' = [extTodo EXCEPT ![e] = {next}]
    /\ ExtGoto(e, "notify")
    /\ UNCHANGED <<linked, countVars, safePointState, eamWaiting, bufferVars, pfmVars, localVars,
                   vmThreadListMutex, exclusiveCount, todo, expectVars, vmResponsesExpected>>

(* ... or let every thread go. *)
ReleaseExternal(e) ==
    /\ extPc[e] = "stopped"
    /\ exclusiveVMAccessQueue = <<>>
    /\ exclusiveAccessState' = "NONE"
    /\ publicFlags' = [u \in Thread |-> publicFlags[u] \ (IF u \in linked THEN Halted ELSE {})]
    /\ eamWaiting' = {}
    /\ extTodo' = [extTodo EXCEPT ![e] = linked]
    /\ ExtGoto(e, "notify")
    /\ UNCHANGED <<linked, countVars, safePointState, bufferVars, pfmVars, localVars, requestVars,
                   vmResponsesExpected>>

NotifyExternal(e, u) ==
    /\ extPc[e] = "notify" /\ u \in extTodo[e]
    /\ pfm[u] = NoThread
    /\ NotifyPfm(u, TRUE)
    /\ extTodo' = [extTodo EXCEPT ![e] = @ \ {u}]
    /\ UNCHANGED <<vmVars, flagVars, pfm, localVars, requestVars, extPc, vmResponsesExpected>>

NotifyExternalEnd(e) ==
    /\ extPc[e] = "notify" /\ extTodo[e] = {}
    /\ vmThreadListMutex' = NoThread
    /\ ExtGoto(e, "idle")
    /\ UNCHANGED <<vmVars, flagVars, pfmVars, localVars, exclusiveVMAccessQueue, exclusiveCount,
                   todo, expectVars, extTodo, vmResponsesExpected>>

-----------------------------------------------------------------------------
(* The specification. *)

ExternalInit ==
    /\ Init
    /\ extPc = [e \in External |-> "idle"]
    /\ extTodo = [e \in External |-> {}]
    /\ vmResponsesExpected = [e \in External |-> 0]

ExternalStep(e) ==
    \/ extPc[e] = "claim" /\ ClaimExternal(e)
    \/ PostExternal(e) \/ FlushExternal(e) \/ PostExternalEnd(e) \/ AwaitExternal(e)
    \/ EnterExternal(e) \/ HandOffExternal(e) \/ ReleaseExternal(e) \/ NotifyExternalEnd(e)
    \/ \E u \in Thread : HaltExternal(e, u) \/ CountExternal(e, u) \/ NotifyExternal(e, u)

ExternalNext ==
    \/ Next /\ UNCHANGED extVars
    \/ \E e \in External : ExternalStep(e) \/ (extPc[e] = "idle" /\ ClaimExternal(e))

ExternalSpec == ExternalInit /\ [][ExternalNext]_externalVars

-----------------------------------------------------------------------------
(* Properties. *)

(* acquireExclusiveVMAccessFromExternalThread returns only when no thread runs
   in the VM, an owner of exclusive VM access included, although the state says
   EXCLUSIVE long before; and a thread it hands exclusive access to is alone in
   the VM too (JNI critical regions apart). *)
ExternalMeansStopped ==
    /\ \A e \in External : extPc[e] \in {"enterList", "stopped"} =>
        \A u \in Thread : ~RunsInVM(u)
    /\ \A t, u \in Thread : pc[t] \in OwnerLabel /\ u # t => ~RunsInVM(u)

(* Liveness, with the fairness of ExclusiveAccess. *)
ExternalFairness ==
    /\ \A t \in Thread :
        /\ WF_externalVars(AccessStep(t) /\ UNCHANGED <<requestVars, extVars>>)
        /\ SF_externalVars(CheckAsyncMessages(t) /\ UNCHANGED <<requestVars, extVars>>)
        /\ WF_externalVars(DrainOne(t) /\ UNCHANGED <<requestVars, extVars>>)
        /\ SF_externalVars(RequestStep(t) /\ UNCHANGED extVars)
    /\ \A e \in External : SF_externalVars(ExternalStep(e))

FairExternalSpec == ExternalSpec /\ ExternalFairness

(* An external thread that has claimed exclusive access gets it, and none stays
   behind in the wait once no exclusive access is in progress.  (It does wait as
   long as attached threads hand exclusive access to each other.) *)
ExternalRequestsHappen ==
    \A e \in External :
        /\ extPc[e] = "postList" ~> extPc[e] = "stopped"
        /\ <>[](exclusiveAccessState = "NONE") => []<>(extPc[e] # "claim")

(* A queued thread gets exclusive access after an external one too. *)
QueuedBehindExternal ==
    \A t \in Thread : (exclusiveCount[t] > 0) ~> (pc[t] = "exclusive")
=============================================================================
