--------------------------- MODULE AccessEffects ----------------------------
(***************************************************************************)
(* What a step of VMAccess does to the inductive invariant.  Such a step   *)
(* touches only the thread that takes it and the response counters, so its *)
(* effect is stated once, in AccessEffect, for all actions of VMAccess.    *)
(* AccessProofs shows that every action has it, and ExclusiveProofs uses   *)
(* nothing else of them.                                                   *)
(***************************************************************************)
EXTENDS ExclusiveInvariant

(* Nothing but the state of t and the counters changes. *)
Frame(t) ==
    /\ UNCHANGED <<linked, stateVars, requestVars>>
    /\ \A u \in Thread \ {t} :
         /\ publicFlags'[u] = publicFlags[u] /\ inNative'[u] = inNative[u]
         /\ storeBuffer'[u] = storeBuffer[u] /\ pfm'[u] = pfm[u]
         /\ pc'[u] = pc[u] /\ ret'[u] = ret[u]
         /\ reacquireJNICriticalAccess'[u] = reacquireJNICriticalAccess[u]

(* t neither moves in an exclusive request nor changes who asked it to halt, nor does it
   leave a safe point. *)
Unengaged(t) == pc[t] \notin RequestLabel \cup {"dead"} \/ pc[t] = "granted"
Kept(t) ==
    /\ Has(t, "HALT_EXCLUSIVE")' <=> Has(t, "HALT_EXCLUSIVE")
    /\ Has(t, "NOT_COUNTED_BY_EXCLUSIVE")' <=> Has(t, "NOT_COUNTED_BY_EXCLUSIVE")
    /\ Has(t, "NOT_AT_SAFE_POINT")' => Has(t, "NOT_AT_SAFE_POINT")
    /\ pc'[t] = pc[t] \/ (Unengaged(t) /\ Unengaged(t)')
    /\ Handed(t)' <=> Handed(t)
    /\ Queued(t) => pc'[t] \in Acquiring /\ ret'[t] = "granted"

(* Asked to halt, t gets neither VM access nor into the VM. *)
StaysOut(t) ==
    Has(t, "HALT_EXCLUSIVE") =>
      /\ Has(t, "VM_ACCESS")' => Has(t, "VM_ACCESS")
      /\ RunsInVM(t)' => RunsInVM(t) /\ (storeBuffer[t] = <<>> => storeBuffer'[t] = <<>>)

(* Each counter follows t: down as t responds, up as t counts itself. *)
Responds(t) ==
    \/ /\ Responder(t)' <=> Responder(t)
       /\ UNCHANGED exclusiveAccessResponseCount
    \/ /\ Responder(t) /\ ~Responder(t)'
       /\ exclusiveAccessResponseCount' = exclusiveAccessResponseCount - 1
RespondsCritical(t) ==
    \/ /\ CriticalResponder(t)' <=> CriticalResponder(t)
       /\ UNCHANGED jniCriticalResponseCount
    \/ /\ CriticalResponder(t) /\ ~CriticalResponder(t)'
       /\ jniCriticalResponseCount' = jniCriticalResponseCount - 1
    \/ /\ ~CriticalResponder(t) /\ CriticalResponder(t)' /\ RunsInVM(t)
       /\ jniCriticalResponseCount' = jniCriticalResponseCount + 1

Local(t) == PcInv(t) /\ NativeInv(t) /\ AccessInv(t) /\ CriticalInv(t) /\ HaltInv(t)

AccessEffect(t) ==
    Frame(t) /\ Kept(t) /\ StaysOut(t) /\ Responds(t) /\ RespondsCritical(t) /\ Local(t)'
=============================================================================
