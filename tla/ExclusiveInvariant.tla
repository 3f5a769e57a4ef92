------------------------- MODULE ExclusiveInvariant -------------------------
(***************************************************************************)
(* The inductive invariant behind ExclusiveMeansAlone and                  *)
(* ResponsesAccounted: what each program point of a thread says about its  *)
(* own flags and monitors, which thread is engaged in an exclusive request *)
(* and how that shows in vm->exclusiveAccessState, and how far the request *)
(* has got with the other threads.                                         *)
(***************************************************************************)
EXTENDS ExclusiveAccess

Acquiring == {"acquire", "acquireRespond", "test", "wait"}

NativeCode(t) ==
    \/ pc[t] \in {"native", "exitCheck", "exit", "criticalNative"}
    \/ pc[t] \in {"respond", "criticalExit", "criticalExitRespond"} /\ ret[t] = "native"

Queued(t) == \E i \in DOMAIN exclusiveVMAccessQueue : exclusiveVMAccessQueue[i] = t

(* The thread that was handed exclusive access and has not accepted it yet. *)
Handed(t) ==
    \/ pc[t] \in Acquiring /\ ret[t] = "granted" /\ ~Queued(t)
    \/ pc[t] \in {"granted", "accept"}
Engaged(t) == Handed(t) \/ pc[t] \in ClaimLabel \cup OwnerLabel

(* Every other thread has been asked to halt ... *)
AllAsked(t) ==
    Handed(t) \/ pc[t] \in {"count", "await", "awaitVM", "awaitJNI"} \cup OwnerLabel
(* ... and every one running in the VM has been counted. *)
AllCounted(t) == AllAsked(t) /\ pc[t] # "count"

-----------------------------------------------------------------------------
PcInv(t) ==
    /\ pfm[t] = IF pc[t] \in Holding THEN t ELSE NoThread
    /\ pc[t] = "release" => ret[t] = "released"
    /\ pc[t] = "respond" => ret[t] \in {"released", "native", "vm", "critical", "async"}
    /\ pc[t] \in Acquiring => ret[t] \in {"vm", "critical", "async", "granted"}
    /\ pc[t] \in {"criticalExit", "criticalExitRespond"} => ret[t] \in {"vm", "native"}
    /\ vmThreadListMutex = t <=> pc[t] \in {"post", "count", "exclusive", "notify"}
    /\ t \in linked <=> pc[t] # "dead"
    /\ pc[t] = "dead" => publicFlags[t] \subseteq {"HALT_INSPECTION"}

NativeInv(t) == OwnInNative(t) <=> NativeCode(t)

AccessInv(t) ==
    /\ pc[t] \in Acquiring \cup DeathLabel \cup
         {"respond", "released"} => ~Has(t, "VM_ACCESS")
    /\ RunsInVM(t) => Has(t, "VM_ACCESS")
    /\ pc[t] \in {"release", "exitCheck", "exit", "granted", "critical"} => Has(t, "VM_ACCESS")

CriticalInv(t) ==
    /\ Has(t, "JNI_CRITICAL_ACCESS") => Has(t, "JNI_CRITICAL_REGION")
    /\ pc[t] = "criticalCount" => Has(t, "JNI_CRITICAL_ACCESS")
    /\ pc[t] \in {"acquireRespond", "criticalExitRespond"} => ~Has(t, "JNI_CRITICAL_ACCESS")
    /\ reacquireJNICriticalAccess[t] =>
         pc[t] \in Acquiring /\ ret[t] # "critical" /\ Has(t, "JNI_CRITICAL_REGION")
    /\ \/ pc[t] \in {"criticalVM", "criticalNative", "critical", "dying", "unlink"}
       \/ pc[t] \in Acquiring \cup {"respond"} /\ ret[t] = "critical"
       => ~Has(t, "JNI_CRITICAL_REGION")

HaltInv(t) ==
    /\ Has(t, "NOT_COUNTED_BY_EXCLUSIVE") => Has(t, "HALT_EXCLUSIVE")
    /\ pc[t] \in {"acquireRespond", "criticalCount", "criticalExitRespond"} =>
         Has(t, "HALT_EXCLUSIVE")
    /\ pc[t] = "critical" => ~Has(t, "HALT_EXCLUSIVE")
    /\ Engaged(t) => ~Has(t, "HALT_EXCLUSIVE")

QueueInv(t) ==
    /\ Queued(t) => /\ pc[t] \in Acquiring /\ ret[t] = "granted"
                    /\ Has(t, "HALT_EXCLUSIVE")
    /\ exclusiveCount[t] > 0 <=> Queued(t) \/ Engaged(t)

StateInv(t) ==
    /\ exclusiveAccessState = "NONE" => ~Engaged(t) /\ ~Queued(t) /\ ~Has(t, "HALT_EXCLUSIVE")
    /\ Handed(t) => exclusiveAccessState = "HANDING_OFF"
    /\ pc[t] \in {"postList", "post", "count"} => exclusiveAccessState = "PENDING"
    /\ pc[t] \in ClaimLabel => exclusiveAccessState \in {"PENDING", "HANDED_OFF"}
    /\ pc[t] \in OwnerLabel => exclusiveAccessState = "EXCLUSIVE"

ExpectInv(t) ==
    /\ pc[t] \notin {"count", "await"} => responsesExpected[t] = 0
    /\ pc[t] \notin {"post", "count", "await", "awaitVM"} => jniCriticalResponsesExpected[t] = 0
    /\ pc[t] \in {"awaitJNI"} \cup OwnerLabel => exclusiveAccessResponseCount = 0
    /\ pc[t] \in OwnerLabel => jniCriticalResponseCount = 0

(* At most one thread is engaged; once it has asked every other thread to halt
   and counted those in the VM, new threads are halted and none is uncounted. *)
AskedInv(t, u) ==
    /\ Engaged(u) => ~Engaged(t)
    /\ AllAsked(t) /\ u \in linked => Has(u, "HALT_EXCLUSIVE")
    /\ AllCounted(t) /\ RunsInVM(u) => ~Has(u, "NOT_COUNTED_BY_EXCLUSIVE")

(* How far the first pass of t, and the second, have got with thread u. *)
PostInv(t, u) ==
    /\ pc[t] \in {"postList", "post"} => ~Responder(u)
    /\ pc[t] = "postList" \/ (pc[t] = "post" /\ u \in todo[t]) =>
         ~CriticalResponder(u) /\ ~Has(u, "NOT_COUNTED_BY_EXCLUSIVE")
    /\ pc[t] = "post" /\ u \in linked \ todo[t] =>
         /\ Has(u, "HALT_EXCLUSIVE")
         /\ Has(u, "VM_ACCESS") => Has(u, "NOT_COUNTED_BY_EXCLUSIVE")
CountInv(t, u) ==
    /\ pc[t] = "count" /\ u \in todo[t] =>
         /\ Has(u, "VM_ACCESS") => Has(u, "NOT_COUNTED_BY_EXCLUSIVE")
         /\ RunsInVM(u) => storeBuffer[u] = <<>>
    /\ pc[t] = "count" /\ u \notin todo[t] /\ RunsInVM(u) =>
         ~Has(u, "NOT_COUNTED_BY_EXCLUSIVE")

ProgressInv(t, u) == AskedInv(t, u) /\ PostInv(t, u) /\ CountInv(t, u)

TodoInv(t) == pc[t] \in {"post", "count"} => todo[t] \subseteq linked \ {t}

QueueDistinct ==
    \A i, j \in DOMAIN exclusiveVMAccessQueue :
        exclusiveVMAccessQueue[i] = exclusiveVMAccessQueue[j] => i = j

(* The inductive invariant: acquireExclusiveVMAccess and its release have, at
   each point of their code, asked and counted exactly the threads that they
   should, including those created, queued or handed exclusive access meanwhile. *)
IInv ==
    /\ TypeOK
    /\ \A t \in Thread : /\ PcInv(t) /\ NativeInv(t) /\ AccessInv(t) /\ CriticalInv(t)
                         /\ HaltInv(t) /\ QueueInv(t) /\ StateInv(t) /\ ExpectInv(t)
                         /\ TodoInv(t)
    /\ \A t, u \in Thread : t # u => ProgressInv(t, u)
    /\ QueueDistinct
    /\ ResponsesAccounted

(* A thread is not at a safe point only while it asks for exclusive access or owns it. *)
SafePointInv == \A t \in Thread : Has(t, "NOT_AT_SAFE_POINT") => exclusiveCount[t] > 0
=============================================================================
