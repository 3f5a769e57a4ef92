-------------------------- MODULE InvariantProofs ---------------------------
(***************************************************************************)
(* How a step is shown to keep the inductive invariant: AccessKeepsIInv    *)
(* for a step with the effects of AccessEffect, whichever action of        *)
(* VMAccess it is, and EngagedStep for a step of the thread whose request  *)
(* is under way.  Then the actions of such a request, one lemma each, the  *)
(* steps of threads that have nothing to do with it, and those that begin  *)
(* a request, hand it over and end it.                                     *)
(***************************************************************************)
EXTENDS AccessEffects, TLAPS

USE DEF bufferVars, flagVars, pfmVars, criticalVars, localVars, countVars, stateVars, vmVars,
        expectVars, requestVars

(* What counting threads relies on: there are finitely many.  FiniteSetTheorems
   has it of every finite set (ThreadsAreCounted in ExclusiveProofs). *)
ThreadsCounted ==
    \A S \in SUBSET Thread :
      /\ Cardinality(S) \in Nat
      /\ Cardinality(S) = 0 <=> S = {}
      /\ \A t \in Thread \ S : Cardinality(S \cup {t}) = Cardinality(S) + 1

(* The number of awaited threads changes by one when one thread joins or leaves
   them, as a response counter does. *)
LEMMA CountFollows ==
    ASSUME ThreadsCounted, NEW S \in SUBSET Thread, NEW T \in SUBSET Thread,
           NEW t \in Thread, S \ {t} = T \ {t}
    PROVE  /\ (t \in S <=> t \in T) => T = S
           /\ t \in S /\ t \notin T => Cardinality(T) = Cardinality(S) - 1
           /\ t \notin S /\ t \in T => Cardinality(T) = Cardinality(S) + 1
<1>1. (t \in S <=> t \in T) => T = S
  OBVIOUS
<1>2. ASSUME NEW A \in SUBSET Thread, NEW B \in SUBSET Thread, A \ {t} = B \ {t}, t \in A, t \notin B
      PROVE  Cardinality(A) = Cardinality(B) + 1 /\ Cardinality(B) \in Nat
  <2>1. A = B \cup {t} /\ t \in Thread \ B
    BY <1>2
  <2> QED BY <2>1 DEF ThreadsCounted
<1>3. ASSUME t \in S, t \notin T PROVE Cardinality(T) = Cardinality(S) - 1
  BY <1>2, <1>3
<1>4. ASSUME t \notin S, t \in T PROVE Cardinality(T) = Cardinality(S) + 1
  BY <1>2, <1>4
<1> QED BY <1>1, <1>3, <1>4

(* A counter that follows the number of awaited threads keeps the sum it makes
   with what the requester has still to add. *)
LEMMA SameDrift ==
    ASSUME NEW a \in Int, NEW r \in Int, NEW a1 \in Int, NEW r1 \in Int, NEW e \in Int,
           a1 - r1 = a - r, a + e = r
    PROVE  a1 + e = r1
OBVIOUS

(* The threads a requester of exclusive access awaits can be counted. *)
LEMMA AwaitedCounted ==
    ASSUME ThreadsCounted
    PROVE  /\ AwaitedResponders \in SUBSET Thread /\ AwaitedResponders' \in SUBSET Thread
           /\ AwaitedCriticals \in SUBSET Thread /\ AwaitedCriticals' \in SUBSET Thread
           /\ Cardinality(AwaitedResponders) \in Nat /\ Cardinality(AwaitedCriticals) \in Nat
           /\ Cardinality(AwaitedResponders') \in Nat /\ Cardinality(AwaitedCriticals') \in Nat
           /\ Cardinality(AwaitedResponders) = 0 <=> AwaitedResponders = {}
           /\ Cardinality(AwaitedCriticals) = 0 <=> AwaitedCriticals = {}
           /\ Cardinality(AwaitedResponders') = 0 <=> AwaitedResponders' = {}
           /\ Cardinality(AwaitedCriticals') = 0 <=> AwaitedCriticals' = {}
<1>1. /\ AwaitedResponders \in SUBSET Thread /\ AwaitedResponders' \in SUBSET Thread
      /\ AwaitedCriticals \in SUBSET Thread /\ AwaitedCriticals' \in SUBSET Thread
  BY Zenon DEF AwaitedResponders, AwaitedCriticals
<1> QED BY <1>1, Zenon DEF ThreadsCounted

(* A step of VMAccess by t leaves what the invariant says of another thread. *)
LEMMA OthersKept ==
    ASSUME NEW t \in Thread, Frame(t), NEW u \in Thread, u # t
    PROVE  /\ \A f : Has(u, f)' <=> Has(u, f)
           /\ Queued(u)' <=> Queued(u)
           /\ Handed(u)' <=> Handed(u)
           /\ RunsInVM(u)' <=> RunsInVM(u)
           /\ Responder(u)' <=> Responder(u)
           /\ CriticalResponder(u)' <=> CriticalResponder(u)
           /\ Local(u) => Local(u)'
<1>1. /\ publicFlags'[u] = publicFlags[u] /\ inNative'[u] = inNative[u]
      /\ storeBuffer'[u] = storeBuffer[u] /\ pfm'[u] = pfm[u]
      /\ pc'[u] = pc[u] /\ ret'[u] = ret[u]
      /\ reacquireJNICriticalAccess'[u] = reacquireJNICriticalAccess[u]
      /\ exclusiveVMAccessQueue' = exclusiveVMAccessQueue /\ linked' = linked
      /\ vmThreadListMutex' = vmThreadListMutex
  BY Zenon DEF Frame
<1>2. \A f : Has(u, f)' <=> Has(u, f)
  BY <1>1, Zenon DEF Has
<1>3. Queued(u)' <=> Queued(u)
  BY <1>1, Zenon DEF Queued
<1>4. Handed(u)' <=> Handed(u)
  BY <1>1, <1>3, Zenon DEF Handed
<1>5. RunsInVM(u)' <=> RunsInVM(u)
  BY <1>1, Zenon DEF RunsInVM
<1>6. Responder(u)' <=> Responder(u)
  BY <1>1, <1>2, Zenon DEF Responder, MustRespond
<1>7. CriticalResponder(u)' <=> CriticalResponder(u)
  BY <1>1, <1>2, Zenon DEF CriticalResponder
<1>8. PcInv(u) => PcInv(u)'
  BY <1>1, Zenon DEF PcInv
<1>9. NativeInv(u) => NativeInv(u)'
  BY <1>1, Zenon DEF NativeInv, OwnInNative, NativeCode
<1>10. AccessInv(u) => AccessInv(u)'
  BY <1>1, <1>2, <1>5, Zenon DEF AccessInv
<1>11. CriticalInv(u) => CriticalInv(u)'
  BY <1>1, <1>2, Zenon DEF CriticalInv
<1>12. HaltInv(u) => HaltInv(u)'
  BY <1>1, <1>2, <1>4, Zenon DEF HaltInv, Engaged
<1> QED BY <1>2, <1>3, <1>4, <1>5, <1>6, <1>7, <1>8, <1>9, <1>10, <1>11, <1>12, Zenon DEF Local

(* A step with these effects keeps the invariant: whoever waits for responses
   goes on waiting for the threads that have still to respond. *)
LEMMA AccessKeepsIInv ==
    ASSUME ThreadsCounted, IInv, TypeOK', NEW t \in Thread, AccessEffect(t)
    PROVE  IInv'
<1>1. /\ TypeOK /\ ResponsesAccounted /\ QueueDistinct
      /\ \A u \in Thread : Local(u) /\ QueueInv(u) /\ StateInv(u) /\ ExpectInv(u) /\ TodoInv(u)
      /\ \A u, v \in Thread : u # v => ProgressInv(u, v)
  BY Zenon DEF IInv, Local
<1>2. Frame(t) /\ Kept(t) /\ StaysOut(t) /\ Responds(t) /\ RespondsCritical(t) /\ Local(t)'
  BY Zenon DEF AccessEffect
<1>3. UNCHANGED <<linked, stateVars, requestVars>>
  BY <1>2, Zenon DEF Frame
<1>4. \A u \in Thread :
        /\ {pc[u], pc'[u]} \cap ((RequestLabel \ {"granted"}) \cup {"dead"}) # {} => pc'[u] = pc[u]
        /\ Has(u, "HALT_EXCLUSIVE")' <=> Has(u, "HALT_EXCLUSIVE")
        /\ Has(u, "NOT_COUNTED_BY_EXCLUSIVE")' <=> Has(u, "NOT_COUNTED_BY_EXCLUSIVE")
        /\ Queued(u)' <=> Queued(u)
        /\ Handed(u)' <=> Handed(u)
        /\ Local(u)'
  <2> TAKE u \in Thread
  <2>1. CASE u = t
    BY <1>2, <1>3, <2>1, Zenon DEF Kept, Unengaged, Queued
  <2>2. CASE u # t
    <3>1. pc'[u] = pc[u]
      BY <1>2, <2>2, Zenon DEF Frame
    <3> QED BY <1>1, <1>2, <2>2, <3>1, OthersKept, Zenon
  <2> QED BY <2>1, <2>2, Zenon
<1>5. \A u \in Thread : (Engaged(u)' <=> Engaged(u)) /\ (AllAsked(u)' <=> AllAsked(u))
                          /\ (AllCounted(u)' <=> AllCounted(u))
  BY <1>4, Zenon DEF Engaged, AllAsked, AllCounted, ClaimLabel, OwnerLabel, RequestLabel
<1>6. /\ AwaitedResponders' \ {t} = AwaitedResponders \ {t}
      /\ AwaitedCriticals' \ {t} = AwaitedCriticals \ {t}
  BY <1>2, OthersKept, Zenon DEF AwaitedResponders, AwaitedCriticals
<1>7. /\ t \in AwaitedResponders <=> Responder(t)
      /\ t \in AwaitedResponders' <=> Responder(t)'
      /\ t \in AwaitedCriticals <=> CriticalResponder(t)
      /\ t \in AwaitedCriticals' <=> CriticalResponder(t)'
  BY Zenon DEF AwaitedResponders, AwaitedCriticals
<1>8. /\ exclusiveAccessResponseCount' - Cardinality(AwaitedResponders')
           = exclusiveAccessResponseCount - Cardinality(AwaitedResponders)
      /\ jniCriticalResponseCount' - Cardinality(AwaitedCriticals')
           = jniCriticalResponseCount - Cardinality(AwaitedCriticals)
  <2>1. exclusiveAccessResponseCount \in Int /\ jniCriticalResponseCount \in Int
    BY <1>1, Zenon DEF TypeOK, CountTypes
  <2>2. Cardinality(AwaitedResponders) \in Int /\ Cardinality(AwaitedCriticals) \in Int
    BY AwaitedCounted
  <2>3. exclusiveAccessResponseCount' - Cardinality(AwaitedResponders')
           = exclusiveAccessResponseCount - Cardinality(AwaitedResponders)
    BY <1>2, <1>6, <1>7, <2>1, <2>2, AwaitedCounted, CountFollows DEF Responds
  <2>4. jniCriticalResponseCount' - Cardinality(AwaitedCriticals')
           = jniCriticalResponseCount - Cardinality(AwaitedCriticals)
    BY <1>2, <1>6, <1>7, <2>1, <2>2, AwaitedCounted, CountFollows DEF RespondsCritical
  <2> QED BY <2>3, <2>4, Zenon
<1>9. ResponsesAccounted'
  <2>1. /\ exclusiveAccessResponseCount \in Int /\ exclusiveAccessResponseCount' \in Int
        /\ jniCriticalResponseCount \in Int /\ jniCriticalResponseCount' \in Int
        /\ Cardinality(AwaitedResponders) \in Int /\ Cardinality(AwaitedResponders') \in Int
        /\ Cardinality(AwaitedCriticals) \in Int /\ Cardinality(AwaitedCriticals') \in Int
    BY <1>1, AwaitedCounted DEF TypeOK, CountTypes
  <2>2. ASSUME NEW u \in Thread, pc'[u] \in ClaimLabel \cup OwnerLabel
        PROVE  /\ exclusiveAccessResponseCount' + responsesExpected'[u]
                    = Cardinality(AwaitedResponders')
               /\ jniCriticalResponseCount' + jniCriticalResponsesExpected'[u]
                    = Cardinality(AwaitedCriticals')
    <3>1. pc[u] \in ClaimLabel \cup OwnerLabel
      BY <1>4, <2>2, Zenon DEF ClaimLabel, OwnerLabel, RequestLabel
    <3>2. /\ exclusiveAccessResponseCount + responsesExpected[u] = Cardinality(AwaitedResponders)
          /\ jniCriticalResponseCount + jniCriticalResponsesExpected[u]
               = Cardinality(AwaitedCriticals)
      BY <1>1, <3>1, Zenon DEF ResponsesAccounted
    <3>3. /\ responsesExpected[u] \in Int /\ jniCriticalResponsesExpected[u] \in Int
          /\ responsesExpected'[u] = responsesExpected[u]
          /\ jniCriticalResponsesExpected'[u] = jniCriticalResponsesExpected[u]
      BY <1>1, <1>3 DEF TypeOK, CountTypes
    <3>4. exclusiveAccessResponseCount' + responsesExpected[u] = Cardinality(AwaitedResponders')
      BY <1>8, <2>1, <3>2, <3>3, SameDrift
    <3>5. jniCriticalResponseCount' + jniCriticalResponsesExpected[u]
            = Cardinality(AwaitedCriticals')
      <4>1. jniCriticalResponseCount' - Cardinality(AwaitedCriticals')
              = jniCriticalResponseCount - Cardinality(AwaitedCriticals)
        BY <1>8, Zenon
      <4>2. jniCriticalResponseCount + jniCriticalResponsesExpected[u]
              = Cardinality(AwaitedCriticals)
        BY <3>2, Zenon
      <4>3. /\ jniCriticalResponseCount \in Int /\ jniCriticalResponseCount' \in Int
            /\ Cardinality(AwaitedCriticals) \in Int /\ Cardinality(AwaitedCriticals') \in Int
            /\ jniCriticalResponsesExpected[u] \in Int
        BY <2>1, <3>3, Zenon
      <4> QED BY <4>1, <4>2, <4>3, SameDrift
    <3> QED BY <3>3, <3>4, <3>5, Zenon
  <2>3. ASSUME exclusiveAccessState' = "HANDING_OFF"
        PROVE  /\ exclusiveAccessResponseCount' + 1 = Cardinality(AwaitedResponders')
               /\ jniCriticalResponseCount' + 1 = Cardinality(AwaitedCriticals')
    <3>1. /\ exclusiveAccessResponseCount + 1 = Cardinality(AwaitedResponders)
          /\ jniCriticalResponseCount + 1 = Cardinality(AwaitedCriticals)
      BY <1>1, <1>3, <2>3, Zenon DEF ResponsesAccounted
    <3> QED BY <1>8, <2>1, <3>1, SameDrift
  <2> QED BY <2>2, <2>3, Zenon DEF ResponsesAccounted
<1>10. \A u \in Thread : QueueInv(u)' /\ StateInv(u)' /\ TodoInv(u)'
  <2> TAKE u \in Thread
  <2>1. QueueInv(u)'
    <3>1. Queued(u) => pc'[u] \in Acquiring /\ ret'[u] = "granted"
      BY <1>1, <1>2, Zenon DEF Kept, Frame, QueueInv
    <3> QED BY <1>1, <1>3, <1>4, <1>5, <3>1, Zenon DEF QueueInv
  <2>2. StateInv(u)'
    BY <1>1, <1>3, <1>4, <1>5, Zenon DEF StateInv, ClaimLabel, OwnerLabel, RequestLabel
  <2>3. TodoInv(u)'
    BY <1>1, <1>3, <1>4, Zenon DEF TodoInv, ClaimLabel, RequestLabel
  <2> QED BY <2>1, <2>2, <2>3, Zenon
<1>11. \A u \in Thread : ExpectInv(u)'
  <2> SUFFICES ASSUME NEW u \in Thread PROVE ExpectInv(u)'
    OBVIOUS
  <2>1. pc[u] \in {"awaitJNI"} \cup OwnerLabel => exclusiveAccessResponseCount' = 0 /\ ~Responder(t)
    <3> SUFFICES ASSUME pc[u] \in {"awaitJNI"} \cup OwnerLabel
                 PROVE  exclusiveAccessResponseCount' = 0 /\ ~Responder(t)
      OBVIOUS
    <3>1. exclusiveAccessResponseCount = 0 /\ responsesExpected[u] = 0
      BY <1>1, Zenon DEF ExpectInv, OwnerLabel
    <3>2. Cardinality(AwaitedResponders) = 0
      BY <1>1, <3>1 DEF ResponsesAccounted, ClaimLabel, OwnerLabel
    <3>3. AwaitedResponders = {}
      BY <3>2, AwaitedCounted, Zenon
    <3> QED BY <1>2, <1>7, <3>1, <3>3, Zenon DEF Responds
  <2>2. pc[u] \in OwnerLabel => jniCriticalResponseCount' = 0
    <3> SUFFICES ASSUME pc[u] \in OwnerLabel
                 PROVE  jniCriticalResponseCount' = 0
      OBVIOUS
    <3>1. jniCriticalResponseCount = 0 /\ jniCriticalResponsesExpected[u] = 0
      BY <1>1, Zenon DEF ExpectInv, OwnerLabel
    <3>2. Cardinality(AwaitedCriticals) = 0
      BY <1>1, <3>1 DEF ResponsesAccounted, ClaimLabel, OwnerLabel
    <3>3. ~CriticalResponder(t)
      BY <1>7, <3>2, AwaitedCounted, Zenon
    <3>4. ~(CriticalResponder(t)' /\ RunsInVM(t))
      <4> SUFFICES ASSUME CriticalResponder(t)', RunsInVM(t) PROVE FALSE
        OBVIOUS
      <4>1. Has(t, "HALT_EXCLUSIVE")
        BY <1>4, Zenon DEF CriticalResponder
      <4>2. t # u
        BY <1>1, <4>1, Zenon DEF Local, HaltInv, Engaged
      <4>3. ~Has(t, "NOT_COUNTED_BY_EXCLUSIVE")
        BY <1>1, <4>2, Zenon DEF ProgressInv, AskedInv, AllCounted, AllAsked, OwnerLabel
      <4>4. Responder(t)
        BY <1>1, <4>1, <4>3, Zenon DEF Responder, MustRespond, Local, AccessInv
      <4> QED BY <2>1, <4>4, Zenon
    <3> QED BY <1>2, <3>1, <3>3, <3>4, Zenon DEF RespondsCritical
  <2> QED BY <1>1, <1>3, <1>4, <2>1, <2>2, Zenon DEF ExpectInv, ClaimLabel, OwnerLabel, RequestLabel
<1>12. \A u, v \in Thread : u # v => ProgressInv(u, v)'
  <2> SUFFICES ASSUME NEW u \in Thread, NEW v \in Thread, u # v PROVE ProgressInv(u, v)'
    OBVIOUS
  <2>1. AskedInv(u, v) /\ PostInv(u, v) /\ CountInv(u, v) /\ TodoInv(u)
    BY <1>1, Zenon DEF ProgressInv
  <2>2. /\ Has(v, "HALT_EXCLUSIVE") /\ RunsInVM(v)' =>
             RunsInVM(v) /\ (storeBuffer[v] = <<>> => storeBuffer'[v] = <<>>)
        /\ Has(v, "HALT_EXCLUSIVE") /\ Has(v, "VM_ACCESS")' => Has(v, "VM_ACCESS")
        /\ Responder(v)' => Responder(v)
        /\ CriticalResponder(v)' => CriticalResponder(v) \/ RunsInVM(v)
    BY <1>2, OthersKept, Zenon DEF StaysOut, Responds, RespondsCritical, Frame
  <2>3. RunsInVM(v)' => v \in linked
    BY <1>3, <1>4, Zenon DEF Local, PcInv, RunsInVM, ClaimLabel, OwnerLabel
  <2>4. AskedInv(u, v)'
    BY <1>3, <1>4, <1>5, <2>1, <2>2, <2>3, Zenon DEF AskedInv, AllCounted
  <2>5. PostInv(u, v)'
    <3> SUFFICES ASSUME pc'[u] \in {"postList", "post"} PROVE PostInv(u, v)'
      BY Zenon DEF PostInv
    <3>1. pc'[u] = pc[u]
      BY <1>4, Zenon DEF RequestLabel, ClaimLabel
    <3>2. RunsInVM(v) => Has(v, "VM_ACCESS")
      BY <1>1, Zenon DEF Local, AccessInv
    <3>3. ~Responder(v)'
      BY <2>1, <2>2, <3>1, Zenon DEF PostInv
    <3>4. pc[u] = "postList" \/ v \in todo[u] =>
            ~CriticalResponder(v)' /\ ~Has(v, "NOT_COUNTED_BY_EXCLUSIVE")'
      BY <1>4, <2>1, <2>2, <3>1, <3>2, Zenon DEF PostInv, Responder, MustRespond, CriticalResponder
    <3>5. pc[u] = "post" /\ v \in linked \ todo[u] =>
            /\ Has(v, "HALT_EXCLUSIVE")'
            /\ Has(v, "VM_ACCESS")' => Has(v, "NOT_COUNTED_BY_EXCLUSIVE")'
      BY <1>4, <2>1, <2>2, Zenon DEF PostInv
    <3> QED BY <1>3, <3>1, <3>3, <3>4, <3>5, Zenon DEF PostInv
  <2>6. CountInv(u, v)'
    <3> SUFFICES ASSUME pc'[u] = "count" PROVE CountInv(u, v)'
      BY Zenon DEF CountInv
    <3>1. pc[u] = "count" /\ AllAsked(u)
      BY <1>4, Zenon DEF RequestLabel, ClaimLabel, AllAsked
    <3>2. v \in linked => Has(v, "HALT_EXCLUSIVE")
      BY <2>1, <3>1, Zenon DEF AskedInv
    <3> QED BY <1>3, <1>4, <2>1, <2>2, <2>3, <3>1, <3>2, Zenon DEF CountInv, TodoInv
  <2> QED BY <2>4, <2>5, <2>6, Zenon DEF ProgressInv
<1> QED BY <1>1, <1>3, <1>4, <1>9, <1>10, <1>11, <1>12, Zenon DEF IInv, Local, QueueDistinct

-----------------------------------------------------------------------------
(* Steps of ExclusiveAccess. *)

USE DEF Has

(* Nothing that the invariant says of u itself changes but who has asked u to
   halt. *)
Stays(u) ==
    /\ pc'[u] = pc[u] /\ ret'[u] = ret[u] /\ pfm'[u] = pfm[u]
    /\ OwnInNative(u)' = OwnInNative(u)
    /\ storeBuffer[u] = <<>> => storeBuffer'[u] = <<>>
    /\ reacquireJNICriticalAccess'[u] = reacquireJNICriticalAccess[u]
    /\ exclusiveCount'[u] = exclusiveCount[u]
    /\ responsesExpected'[u] = responsesExpected[u]
    /\ jniCriticalResponsesExpected'[u] = jniCriticalResponsesExpected[u]
    /\ vmThreadListMutex' = u <=> vmThreadListMutex = u
    /\ u \in linked' <=> u \in linked
    /\ \A f : f \notin Halted => (Has(u, f)' <=> Has(u, f))
    /\ pc[u] = "dead" => publicFlags'[u] = publicFlags[u]

(* Not even that changes. *)
SameHalt(u) == \A f \in Halted : Has(u, f)' <=> Has(u, f)

(* What the invariant says of such a thread alone still holds. *)
LEMMA StaysLocal ==
    ASSUME NEW u \in Thread, Stays(u), Local(u)
    PROVE  /\ PcInv(u)' /\ NativeInv(u)' /\ AccessInv(u)' /\ CriticalInv(u)'
           /\ RunsInVM(u)' <=> RunsInVM(u)
<1>1. RunsInVM(u)' <=> RunsInVM(u)
  BY Zenon DEF Stays, RunsInVM
<1>2. PcInv(u)'
  BY Zenon DEF Local, Stays, PcInv
<1>3. NativeInv(u)'
  BY Zenon DEF Local, Stays, NativeInv, NativeCode
<1>4. AccessInv(u)'
  BY <1>1, Zenon DEF Local, Stays, AccessInv, Halted
<1>5. CriticalInv(u)'
  BY Zenon DEF Local, Stays, CriticalInv, Halted
<1> QED BY <1>1, <1>2, <1>3, <1>4, <1>5, Zenon

(* If the request to halt and its place in the queue are the same too, the thread
   is as engaged, as much asked and as much awaited as before. *)
LEMMA StaysSame ==
    ASSUME NEW u \in Thread, Stays(u), SameHalt(u), Queued(u)' <=> Queued(u)
    PROVE  /\ Handed(u)' <=> Handed(u)
           /\ Engaged(u)' <=> Engaged(u)
           /\ AllAsked(u)' <=> AllAsked(u)
           /\ AllCounted(u)' <=> AllCounted(u)
           /\ Responder(u)' <=> Responder(u)
           /\ CriticalResponder(u)' <=> CriticalResponder(u)
           /\ HaltInv(u) => HaltInv(u)'
           /\ QueueInv(u) => QueueInv(u)'
<1>1. Handed(u)' <=> Handed(u)
  BY Zenon DEF Stays, Handed
<1>2. Engaged(u)' <=> Engaged(u)
  BY <1>1, Zenon DEF Stays, Engaged
<1>3. AllAsked(u)' <=> AllAsked(u)
  BY <1>1, Zenon DEF Stays, AllAsked
<1>4. AllCounted(u)' <=> AllCounted(u)
  BY <1>3, Zenon DEF Stays, AllCounted
<1>5. Responder(u)' <=> Responder(u)
  BY Zenon DEF Stays, SameHalt, Halted, Responder, MustRespond
<1>6. CriticalResponder(u)' <=> CriticalResponder(u)
  BY Zenon DEF Stays, SameHalt, Halted, CriticalResponder
<1>7. HaltInv(u) => HaltInv(u)'
  BY <1>2, Zenon DEF Stays, SameHalt, Halted, HaltInv
<1>8. QueueInv(u) => QueueInv(u)'
  BY <1>2, Zenon DEF Stays, SameHalt, Halted, QueueInv
<1> QED BY <1>1, <1>2, <1>3, <1>4, <1>5, <1>6, <1>7, <1>8, Zenon

(* A thread that is not engaged in a request has no progress to account for. *)
LEMMA IdleProgress ==
    ASSUME NEW u \in Thread, ~Engaged(u)', NEW v \in Thread
    PROVE  ProgressInv(u, v)'
BY Zenon DEF Engaged, ProgressInv, AskedInv, PostInv, CountInv, AllAsked, AllCounted, ClaimLabel,
    OwnerLabel

(* acquireExclusiveVMAccess takes a thread off the queue before it engages. *)
LEMMA EngagedNotQueued ==
    ASSUME NEW u \in Thread, QueueInv(u), Engaged(u)
    PROVE  ~Queued(u)
BY Zenon DEF QueueInv, Engaged, Handed, Acquiring, ClaimLabel, OwnerLabel

(* A requester is not asked to halt, so it never awaits its own response. *)
LEMMA EngagedNotAwaited ==
    ASSUME NEW u \in Thread, HaltInv(u), Engaged(u)
    PROVE  ~Responder(u) /\ ~CriticalResponder(u)
BY Zenon DEF HaltInv, Responder, CriticalResponder, MustRespond

(* A step within a request: the engaged thread moves on and at most asks others
   to halt, which keeps the invariant if it holds of that thread afterwards. *)
LEMMA EngagedStep ==
    ASSUME IInv, TypeOK', NEW t \in Thread, Engaged(t), Engaged(t)',
           linked' = linked, exclusiveVMAccessQueue' = exclusiveVMAccessQueue,
           exclusiveAccessState' # "NONE",
           \A u \in Thread \ {t} :
             Stays(u) /\ HaltInv(u)' /\ (Has(u, "HALT_EXCLUSIVE") => Has(u, "HALT_EXCLUSIVE")')
               /\ todo'[u] = todo[u],
           Local(t)', exclusiveCount'[t] > 0, StateInv(t)', ExpectInv(t)', TodoInv(t)',
           \A u \in Thread \ {t} :
             /\ AllAsked(t)' /\ u \in linked => Has(u, "HALT_EXCLUSIVE")'
             /\ AllCounted(t)' /\ RunsInVM(u) => ~Has(u, "NOT_COUNTED_BY_EXCLUSIVE")'
             /\ PostInv(t, u)' /\ CountInv(t, u)',
           ResponsesAccounted'
    PROVE  IInv'
<1>1. /\ TypeOK /\ QueueDistinct
      /\ \A u \in Thread : Local(u) /\ QueueInv(u) /\ StateInv(u) /\ ExpectInv(u) /\ TodoInv(u)
      /\ \A u, v \in Thread : u # v => ProgressInv(u, v)
  BY Zenon DEF IInv, Local
<1>2. \A u \in Thread : Queued(u)' <=> Queued(u)
  BY Zenon DEF Queued
<1>3. ASSUME NEW u \in Thread \ {t}
      PROVE  ~Engaged(u) /\ ~Engaged(u)' /\ (RunsInVM(u)' <=> RunsInVM(u)) /\ Local(u)'
  <2>1. ~Engaged(u)
    BY <1>1, Zenon DEF ProgressInv, AskedInv
  <2>2. ~Engaged(u)'
    BY <1>2, <2>1, Zenon DEF Engaged, Handed, Stays
  <2> QED BY <1>1, <2>1, <2>2, StaysLocal, Zenon DEF Local
<1>4. \A u \in Thread : QueueInv(u)'
  <2>1. QueueInv(t)'
    BY <1>1, <1>2, EngagedNotQueued, Zenon DEF QueueInv
  <2>2. ASSUME NEW u \in Thread \ {t} PROVE QueueInv(u)'
    BY <1>1, <1>2, <1>3, Zenon DEF QueueInv, Stays
  <2> QED BY <2>1, <2>2, Zenon
<1>5. ASSUME NEW u \in Thread \ {t} PROVE StateInv(u)'
  BY <1>3, Zenon DEF StateInv, Engaged, ClaimLabel, OwnerLabel
<1>6. ASSUME NEW u \in Thread \ {t} PROVE ExpectInv(u)'
  BY <1>1, <1>3, Zenon DEF ExpectInv, Stays, Engaged, ClaimLabel, OwnerLabel
<1>7. ASSUME NEW u \in Thread \ {t} PROVE TodoInv(u)'
  BY <1>1, Zenon DEF TodoInv, Stays
<1>8. ASSUME NEW u \in Thread, NEW v \in Thread, u # v PROVE ProgressInv(u, v)'
  <2>1. CASE u # t
    BY <1>3, <2>1, IdleProgress, Zenon
  <2>2. CASE u = t
    BY <1>3, <1>8, <2>2, Zenon DEF ProgressInv, AskedInv
  <2> QED BY <2>1, <2>2, Zenon
<1>9. QueueDistinct'
  BY <1>1, Zenon DEF QueueDistinct
<1>10. \A u \in Thread : /\ PcInv(u)' /\ NativeInv(u)' /\ AccessInv(u)' /\ CriticalInv(u)'
                         /\ HaltInv(u)' /\ QueueInv(u)' /\ StateInv(u)' /\ ExpectInv(u)'
                         /\ TodoInv(u)'
  BY <1>3, <1>4, <1>5, <1>6, <1>7, Zenon DEF Local
<1> QED BY <1>8, <1>9, <1>10, Zenon DEF IInv

(* The awaited threads are the same when each is awaited as before. *)
LEMMA AwaitedSame ==
    ASSUME \A u \in Thread : Responder(u)' <=> Responder(u),
           \A u \in Thread : CriticalResponder(u)' <=> CriticalResponder(u)
    PROVE  AwaitedResponders' = AwaitedResponders /\ AwaitedCriticals' = AwaitedCriticals
BY Zenon DEF AwaitedResponders, AwaitedCriticals

(* A step of the engaged thread that asks nobody to halt changes neither who is
   awaited nor what the others know. *)
LEMMA EngagedAwaitedSame ==
    ASSUME IInv, NEW t \in Thread, Engaged(t), Engaged(t)', HaltInv(t)',
           exclusiveVMAccessQueue' = exclusiveVMAccessQueue,
           \A u \in Thread \ {t} : Stays(u) /\ SameHalt(u)
    PROVE  /\ AwaitedResponders' = AwaitedResponders /\ AwaitedCriticals' = AwaitedCriticals
           /\ \A u \in Thread \ {t} :
                /\ HaltInv(u)' /\ (Has(u, "HALT_EXCLUSIVE") => Has(u, "HALT_EXCLUSIVE")')
                /\ pc'[u] \notin ClaimLabel \cup OwnerLabel
<1>1. \A u \in Thread : Queued(u)' <=> Queued(u)
  BY Zenon DEF Queued
<1>2. /\ \A u \in Thread : HaltInv(u)
      /\ \A u \in Thread \ {t} : ~Engaged(u)
  BY Zenon DEF IInv, ProgressInv, AskedInv
<1>3. ASSUME NEW u \in Thread
      PROVE  (Responder(u)' <=> Responder(u)) /\ (CriticalResponder(u)' <=> CriticalResponder(u))
  <2>1. CASE u = t
    <3>1. ~Responder(t) /\ ~CriticalResponder(t)
      BY <1>2, EngagedNotAwaited, Zenon
    <3>2. ~Responder(t)' /\ ~CriticalResponder(t)'
      BY Zenon DEF HaltInv, Responder, CriticalResponder, MustRespond
    <3> QED BY <2>1, <3>1, <3>2, Zenon
  <2>2. CASE u # t
    BY <1>1, <2>2, StaysSame, Zenon
  <2> QED BY <2>1, <2>2, Zenon
<1>4. ASSUME NEW u \in Thread \ {t}
      PROVE  /\ HaltInv(u)' /\ (Has(u, "HALT_EXCLUSIVE") => Has(u, "HALT_EXCLUSIVE")')
             /\ pc'[u] \notin ClaimLabel \cup OwnerLabel
  <2>1. HaltInv(u)'
    BY <1>1, <1>2, StaysSame, Zenon
  <2>2. pc'[u] \notin ClaimLabel \cup OwnerLabel
    BY <1>2, Zenon DEF Stays, Engaged
  <2> QED BY <2>1, <2>2, Zenon DEF SameHalt, Halted
<1> QED BY <1>3, <1>4, AwaitedSame, Zenon

-----------------------------------------------------------------------------
USE DEF Has, Goto, ExitPfm, EnterPfm, WithFlags

(* A nested request keeps the invariant. *)
LEMMA AcquireExclusiveNestedKeeps ==
    ASSUME IInv, TypeOK', NEW t \in Thread, AcquireExclusiveNested(t)
    PROVE  IInv'
<1>1. /\ TypeOK /\ ResponsesAccounted
      /\ Local(t) /\ QueueInv(t) /\ StateInv(t) /\ ExpectInv(t) /\ TodoInv(t)
      /\ \A u \in Thread \ {t} : ProgressInv(t, u) /\ Local(u)
  BY Zenon DEF IInv, Local
<1>2. Engaged(t) /\ Engaged(t)' /\ exclusiveCount[t] > 0
  BY <1>1, Zenon DEF AcquireExclusiveNested, QueueInv, Engaged, Handed, ClaimLabel, OwnerLabel,
      TypeOK, PlaceTypes
<1>3. ASSUME NEW u \in Thread \ {t} PROVE Stays(u) /\ SameHalt(u) /\ todo'[u] = todo[u]
  BY <1>1, ThreadAssumption, ZenonT(40) DEF AcquireExclusiveNested, Stays, SameHalt, OwnInNative, TypeOK,
      FlagTypes, PlaceTypes, MonitorTypes, CountTypes, RequestTypes, Local, PcInv
<1>4. Local(t)'
  <2>1. PcInv(t)'
    BY <1>1, <1>2, ThreadAssumption, Zenon DEF AcquireExclusiveNested, TypeOK, FlagTypes,
        PlaceTypes, Local, PcInv, Holding, Acquiring, MonitorTypes
  <2>2. NativeInv(t)'
    BY <1>1, <1>2, Zenon DEF AcquireExclusiveNested, TypeOK, FlagTypes, PlaceTypes, Local,
        NativeInv, OwnInNative, NativeCode, BufferTypes
  <2>3. AccessInv(t)'
    BY <1>1, <1>2, Zenon DEF AcquireExclusiveNested, TypeOK, FlagTypes, PlaceTypes, Local,
        AccessInv, RunsInVM, Acquiring, DeathLabel, ClaimLabel, OwnerLabel
  <2>4. CriticalInv(t)'
    BY <1>1, <1>2, Zenon DEF AcquireExclusiveNested, TypeOK, FlagTypes, PlaceTypes, Local,
        CriticalInv, Acquiring
  <2>5. HaltInv(t)'
    BY <1>1, <1>2, Zenon DEF AcquireExclusiveNested, TypeOK, FlagTypes, PlaceTypes, Local, HaltInv,
        Engaged, Handed, Acquiring, ClaimLabel, OwnerLabel
  <2> QED BY <2>1, <2>2, <2>3, <2>4, <2>5, Zenon DEF Local
<1>5. /\ exclusiveAccessState' # "NONE" /\ StateInv(t)' /\ ExpectInv(t)' /\ TodoInv(t)'
      /\ exclusiveCount'[t] > 0 /\ linked' = linked
      /\ exclusiveVMAccessQueue' = exclusiveVMAccessQueue
  <2>1. /\ exclusiveCount'[t] = exclusiveCount[t] + 1
        /\ exclusiveCount[t] \in 0..MaxExclusiveDepth /\ exclusiveCount[t] > 0
    BY <1>1, <1>2, Zenon DEF AcquireExclusiveNested, TypeOK, CountTypes
  <2>2. exclusiveCount'[t] > 0
    BY <2>1
  <2> QED
    BY <1>1, <1>2, <2>2, Zenon DEF AcquireExclusiveNested, StateInv, ExpectInv, TodoInv, Engaged,
        Handed, Acquiring, ClaimLabel, OwnerLabel
<1>6. ASSUME NEW u \in Thread \ {t}
      PROVE  /\ AllAsked(t)' /\ u \in linked => Has(u, "HALT_EXCLUSIVE")'
             /\ AllCounted(t)' /\ RunsInVM(u) => ~Has(u, "NOT_COUNTED_BY_EXCLUSIVE")'
             /\ PostInv(t, u)' /\ CountInv(t, u)'
  BY <1>1, <1>2, <1>3, Zenon DEF AcquireExclusiveNested, ProgressInv, AskedInv, PostInv, CountInv,
      AllAsked, AllCounted, Handed, ClaimLabel, OwnerLabel, SameHalt, Halted, TypeOK, PlaceTypes
<1>7. /\ AwaitedResponders' = AwaitedResponders /\ AwaitedCriticals' = AwaitedCriticals
      /\ \A u \in Thread \ {t} :
           /\ HaltInv(u)' /\ (Has(u, "HALT_EXCLUSIVE") => Has(u, "HALT_EXCLUSIVE")')
           /\ pc'[u] \notin ClaimLabel \cup OwnerLabel
  BY <1>2, <1>3, <1>4, <1>5, EngagedAwaitedSame, Zenon DEF Local
<1>8. ResponsesAccounted'
  BY <1>1, <1>5, <1>7, ZenonT(40) DEF AcquireExclusiveNested, ResponsesAccounted, TypeOK, PlaceTypes,
      ClaimLabel, OwnerLabel
<1> QED BY <1>2, <1>3, <1>4, <1>5, <1>6, <1>7, <1>8, EngagedStep, Zenon

(* So does a nested release, *)
LEMMA ReleaseExclusiveNestedKeeps ==
    ASSUME IInv, TypeOK', NEW t \in Thread, ReleaseExclusiveNested(t)
    PROVE  IInv'
<1>1. /\ TypeOK /\ ResponsesAccounted
      /\ Local(t) /\ QueueInv(t) /\ StateInv(t) /\ ExpectInv(t) /\ TodoInv(t)
      /\ \A u \in Thread \ {t} : ProgressInv(t, u) /\ Local(u)
  BY Zenon DEF IInv, Local
<1>2. Engaged(t) /\ Engaged(t)' /\ exclusiveCount[t] > 0
  BY <1>1, Zenon DEF ReleaseExclusiveNested, QueueInv, Engaged, Handed, ClaimLabel, OwnerLabel,
      TypeOK, PlaceTypes
<1>3. ASSUME NEW u \in Thread \ {t} PROVE Stays(u) /\ SameHalt(u) /\ todo'[u] = todo[u]
  BY <1>1, ThreadAssumption, ZenonT(40) DEF ReleaseExclusiveNested, Stays, SameHalt, OwnInNative, TypeOK,
      FlagTypes, PlaceTypes, MonitorTypes, CountTypes, RequestTypes, Local, PcInv
<1>4. Local(t)'
  <2>1. PcInv(t)'
    BY <1>1, <1>2, ThreadAssumption, Zenon DEF ReleaseExclusiveNested, TypeOK, FlagTypes,
        PlaceTypes, Local, PcInv, Holding, Acquiring, MonitorTypes
  <2>2. NativeInv(t)'
    BY <1>1, <1>2, Zenon DEF ReleaseExclusiveNested, TypeOK, FlagTypes, PlaceTypes, Local,
        NativeInv, OwnInNative, NativeCode, BufferTypes
  <2>3. AccessInv(t)'
    BY <1>1, <1>2, Zenon DEF ReleaseExclusiveNested, TypeOK, FlagTypes, PlaceTypes, Local,
        AccessInv, RunsInVM, Acquiring, DeathLabel, ClaimLabel, OwnerLabel
  <2>4. CriticalInv(t)'
    BY <1>1, <1>2, Zenon DEF ReleaseExclusiveNested, TypeOK, FlagTypes, PlaceTypes, Local,
        CriticalInv, Acquiring
  <2>5. HaltInv(t)'
    BY <1>1, <1>2, Zenon DEF ReleaseExclusiveNested, TypeOK, FlagTypes, PlaceTypes, Local, HaltInv,
        Engaged, Handed, Acquiring, ClaimLabel, OwnerLabel
  <2> QED BY <2>1, <2>2, <2>3, <2>4, <2>5, Zenon DEF Local
<1>5. /\ exclusiveAccessState' # "NONE" /\ StateInv(t)' /\ ExpectInv(t)' /\ TodoInv(t)'
      /\ exclusiveCount'[t] > 0 /\ linked' = linked
      /\ exclusiveVMAccessQueue' = exclusiveVMAccessQueue
  <2>1. /\ exclusiveCount'[t] = exclusiveCount[t] - 1
        /\ exclusiveCount[t] \in 0..MaxExclusiveDepth /\ exclusiveCount[t] > 1
    BY <1>1, <1>2, Zenon DEF ReleaseExclusiveNested, TypeOK, CountTypes
  <2>2. exclusiveCount'[t] > 0
    BY <2>1
  <2> QED
    BY <1>1, <1>2, <2>2, Zenon DEF ReleaseExclusiveNested, StateInv, ExpectInv, TodoInv, Engaged,
        Handed, Acquiring, ClaimLabel, OwnerLabel
<1>6. ASSUME NEW u \in Thread \ {t}
      PROVE  /\ AllAsked(t)' /\ u \in linked => Has(u, "HALT_EXCLUSIVE")'
             /\ AllCounted(t)' /\ RunsInVM(u) => ~Has(u, "NOT_COUNTED_BY_EXCLUSIVE")'
             /\ PostInv(t, u)' /\ CountInv(t, u)'
  BY <1>1, <1>2, <1>3, Zenon DEF ReleaseExclusiveNested, ProgressInv, AskedInv, PostInv, CountInv,
      AllAsked, AllCounted, Handed, ClaimLabel, OwnerLabel, SameHalt, Halted, TypeOK, PlaceTypes
<1>7. /\ AwaitedResponders' = AwaitedResponders /\ AwaitedCriticals' = AwaitedCriticals
      /\ \A u \in Thread \ {t} :
           /\ HaltInv(u)' /\ (Has(u, "HALT_EXCLUSIVE") => Has(u, "HALT_EXCLUSIVE")')
           /\ pc'[u] \notin ClaimLabel \cup OwnerLabel
  BY <1>2, <1>3, <1>4, <1>5, EngagedAwaitedSame, Zenon DEF Local
<1>8. ResponsesAccounted'
  BY <1>1, <1>5, <1>7, ZenonT(40) DEF ReleaseExclusiveNested, ResponsesAccounted, TypeOK, PlaceTypes,
      ClaimLabel, OwnerLabel
<1> QED BY <1>2, <1>3, <1>4, <1>5, <1>6, <1>7, <1>8, EngagedStep, Zenon

(* entering vmThreadListMutex to post the halt request, *)
LEMMA PostBeginKeeps ==
    ASSUME IInv, TypeOK', NEW t \in Thread, PostBegin(t)
    PROVE  IInv'
<1>1. /\ TypeOK /\ ResponsesAccounted
      /\ Local(t) /\ QueueInv(t) /\ StateInv(t) /\ ExpectInv(t) /\ TodoInv(t)
      /\ \A u \in Thread \ {t} : ProgressInv(t, u) /\ Local(u)
  BY Zenon DEF IInv, Local
<1>2. Engaged(t) /\ Engaged(t)' /\ exclusiveCount[t] > 0
  BY <1>1, Zenon DEF PostBegin, Others, QueueInv, Engaged, Handed, ClaimLabel, OwnerLabel, TypeOK,
      PlaceTypes
<1>3. ASSUME NEW u \in Thread \ {t} PROVE Stays(u) /\ SameHalt(u) /\ todo'[u] = todo[u]
  <2>1. NoThread # u
    BY ThreadAssumption
  <2> QED
    BY <1>1, <2>1, Zenon DEF PostBegin, Stays, SameHalt, OwnInNative, TypeOK, PlaceTypes,
        RequestTypes
<1>4. Local(t)'
  <2>1. PcInv(t)'
    BY <1>1, <1>2, ThreadAssumption, Zenon DEF PostBegin, Others, TypeOK, FlagTypes, PlaceTypes,
        Local, PcInv, Holding, Acquiring, MonitorTypes
  <2>2. NativeInv(t)'
    BY <1>1, <1>2, Zenon DEF PostBegin, Others, TypeOK, FlagTypes, PlaceTypes, Local, NativeInv,
        OwnInNative, NativeCode, BufferTypes
  <2>3. AccessInv(t)'
    BY <1>1, <1>2, Zenon DEF PostBegin, Others, TypeOK, FlagTypes, PlaceTypes, Local, AccessInv,
        RunsInVM, Acquiring, DeathLabel, ClaimLabel, OwnerLabel
  <2>4. CriticalInv(t)'
    BY <1>1, <1>2, Zenon DEF PostBegin, Others, TypeOK, FlagTypes, PlaceTypes, Local, CriticalInv,
        Acquiring
  <2>5. HaltInv(t)'
    BY <1>1, <1>2, Zenon DEF PostBegin, Others, TypeOK, FlagTypes, PlaceTypes, Local, HaltInv,
        Engaged, Handed, Acquiring, ClaimLabel, OwnerLabel
  <2> QED BY <2>1, <2>2, <2>3, <2>4, <2>5, Zenon DEF Local
<1>5. /\ exclusiveAccessState' # "NONE" /\ StateInv(t)' /\ ExpectInv(t)' /\ TodoInv(t)'
      /\ exclusiveCount'[t] > 0 /\ linked' = linked
      /\ exclusiveVMAccessQueue' = exclusiveVMAccessQueue
  BY <1>1, <1>2, ZenonT(40) DEF PostBegin, Others, StateInv, ExpectInv, TodoInv, Engaged, Handed,
      Acquiring, ClaimLabel, OwnerLabel, TypeOK, PlaceTypes, CountTypes, RequestTypes
<1>6. ASSUME NEW u \in Thread \ {t}
      PROVE  /\ AllAsked(t)' /\ u \in linked => Has(u, "HALT_EXCLUSIVE")'
             /\ AllCounted(t)' /\ RunsInVM(u) => ~Has(u, "NOT_COUNTED_BY_EXCLUSIVE")'
             /\ PostInv(t, u)' /\ CountInv(t, u)'
  <2>1. (Responder(u)' <=> Responder(u)) /\ (CriticalResponder(u)' <=> CriticalResponder(u))
    BY <1>3, <1>5, StaysSame, Zenon DEF Queued
  <2>2. PostInv(t, u)
    BY <1>1, Zenon DEF ProgressInv
  <2>3. pc[t] = "postList" /\ pc'[t] = "post" /\ todo'[t] = linked \ {t}
    BY <1>1, Zenon DEF PostBegin, Others, TypeOK, PlaceTypes, RequestTypes
  <2> QED BY <1>3, <1>5, <2>1, <2>2, <2>3, Zenon DEF PostInv, CountInv, AllAsked, AllCounted,
              Handed, Acquiring, OwnerLabel, SameHalt, Halted
<1>7. /\ AwaitedResponders' = AwaitedResponders /\ AwaitedCriticals' = AwaitedCriticals
      /\ \A u \in Thread \ {t} :
           /\ HaltInv(u)' /\ (Has(u, "HALT_EXCLUSIVE") => Has(u, "HALT_EXCLUSIVE")')
           /\ pc'[u] \notin ClaimLabel \cup OwnerLabel
  BY <1>2, <1>3, <1>4, <1>5, EngagedAwaitedSame, Zenon DEF Local
<1>8. ResponsesAccounted'
  BY <1>1, <1>5, <1>7, Zenon DEF PostBegin, ResponsesAccounted, TypeOK, PlaceTypes, ClaimLabel,
      OwnerLabel
<1> QED BY <1>2, <1>3, <1>4, <1>5, <1>6, <1>7, <1>8, EngagedStep, Zenon

(* exiting it when every thread has been counted, *)
LEMMA PostEndKeeps ==
    ASSUME IInv, TypeOK', NEW t \in Thread, PostEnd(t)
    PROVE  IInv'
<1>1. /\ TypeOK /\ ResponsesAccounted
      /\ Local(t) /\ QueueInv(t) /\ StateInv(t) /\ ExpectInv(t) /\ TodoInv(t)
      /\ \A u \in Thread \ {t} : ProgressInv(t, u) /\ Local(u)
  BY Zenon DEF IInv, Local
<1>2. Engaged(t) /\ Engaged(t)' /\ exclusiveCount[t] > 0
  BY <1>1, Zenon DEF PostEnd, QueueInv, Engaged, Handed, ClaimLabel, OwnerLabel, TypeOK, PlaceTypes
<1>3. ASSUME NEW u \in Thread \ {t} PROVE Stays(u) /\ SameHalt(u) /\ todo'[u] = todo[u]
  BY <1>1, ThreadAssumption, ZenonT(40) DEF PostEnd, Stays, SameHalt, OwnInNative, TypeOK, FlagTypes,
      PlaceTypes, MonitorTypes, CountTypes, RequestTypes, Local, PcInv
<1>4. Local(t)'
  <2>1. PcInv(t)'
    BY <1>1, <1>2, ThreadAssumption, ZenonT(40) DEF PostEnd, TypeOK, FlagTypes, PlaceTypes, Local, PcInv,
        Holding, Acquiring, MonitorTypes
  <2>2. NativeInv(t)'
    BY <1>1, <1>2, Zenon DEF PostEnd, TypeOK, FlagTypes, PlaceTypes, Local, NativeInv, OwnInNative,
        NativeCode, BufferTypes
  <2>3. AccessInv(t)'
    BY <1>1, <1>2, Zenon DEF PostEnd, TypeOK, FlagTypes, PlaceTypes, Local, AccessInv, RunsInVM,
        Acquiring, DeathLabel, ClaimLabel, OwnerLabel
  <2>4. CriticalInv(t)'
    BY <1>1, <1>2, Zenon DEF PostEnd, TypeOK, FlagTypes, PlaceTypes, Local, CriticalInv, Acquiring
  <2>5. HaltInv(t)'
    BY <1>1, <1>2, Zenon DEF PostEnd, TypeOK, FlagTypes, PlaceTypes, Local, HaltInv, Engaged,
        Handed, Acquiring, ClaimLabel, OwnerLabel
  <2> QED BY <2>1, <2>2, <2>3, <2>4, <2>5, Zenon DEF Local
<1>5. /\ exclusiveAccessState' # "NONE" /\ StateInv(t)' /\ ExpectInv(t)' /\ TodoInv(t)'
      /\ exclusiveCount'[t] > 0 /\ linked' = linked
      /\ exclusiveVMAccessQueue' = exclusiveVMAccessQueue
  BY <1>1, <1>2, Zenon DEF PostEnd, StateInv, ExpectInv, TodoInv, Engaged, Handed, Acquiring,
      ClaimLabel, OwnerLabel, TypeOK, PlaceTypes, CountTypes, RequestTypes
<1>6. ASSUME NEW u \in Thread \ {t}
      PROVE  /\ AllAsked(t)' /\ u \in linked => Has(u, "HALT_EXCLUSIVE")'
             /\ AllCounted(t)' /\ RunsInVM(u) => ~Has(u, "NOT_COUNTED_BY_EXCLUSIVE")'
             /\ PostInv(t, u)' /\ CountInv(t, u)'
  BY <1>1, <1>2, <1>3, ZenonT(40) DEF PostEnd, ProgressInv, AskedInv, PostInv, CountInv, AllAsked,
      AllCounted, Handed, ClaimLabel, OwnerLabel, SameHalt, Halted, TypeOK, PlaceTypes
<1>7. /\ AwaitedResponders' = AwaitedResponders /\ AwaitedCriticals' = AwaitedCriticals
      /\ \A u \in Thread \ {t} :
           /\ HaltInv(u)' /\ (Has(u, "HALT_EXCLUSIVE") => Has(u, "HALT_EXCLUSIVE")')
           /\ pc'[u] \notin ClaimLabel \cup OwnerLabel
  BY <1>2, <1>3, <1>4, <1>5, EngagedAwaitedSame, Zenon DEF Local
<1>8. ResponsesAccounted'
  BY <1>1, <1>5, <1>7, ZenonT(40) DEF PostEnd, ResponsesAccounted, TypeOK, PlaceTypes, ClaimLabel,
      OwnerLabel
<1> QED BY <1>2, <1>3, <1>4, <1>5, <1>6, <1>7, <1>8, EngagedStep, Zenon

(* and entering it once more with exclusive access. *)
LEMMA EnterExclusiveKeeps ==
    ASSUME IInv, TypeOK', NEW t \in Thread, EnterExclusive(t)
    PROVE  IInv'
<1>1. /\ TypeOK /\ ResponsesAccounted
      /\ Local(t) /\ QueueInv(t) /\ StateInv(t) /\ ExpectInv(t) /\ TodoInv(t)
      /\ \A u \in Thread \ {t} : ProgressInv(t, u) /\ Local(u)
  BY Zenon DEF IInv, Local
<1>2. Engaged(t) /\ Engaged(t)' /\ exclusiveCount[t] > 0
  BY <1>1, Zenon DEF EnterExclusive, QueueInv, Engaged, Handed, ClaimLabel, OwnerLabel, TypeOK,
      PlaceTypes
<1>3. ASSUME NEW u \in Thread \ {t} PROVE Stays(u) /\ SameHalt(u) /\ todo'[u] = todo[u]
  <2>1. NoThread # u
    BY ThreadAssumption
  <2> QED
    BY <1>1, <2>1, Zenon DEF EnterExclusive, Stays, SameHalt, OwnInNative, TypeOK, PlaceTypes,
        RequestTypes
<1>4. Local(t)'
  <2>1. PcInv(t)'
    BY <1>1, <1>2, ThreadAssumption, Zenon DEF EnterExclusive, TypeOK, FlagTypes, PlaceTypes,
        Local, PcInv, Holding, Acquiring, MonitorTypes
  <2>2. NativeInv(t)'
    BY <1>1, <1>2, Zenon DEF EnterExclusive, TypeOK, FlagTypes, PlaceTypes, Local, NativeInv,
        OwnInNative, NativeCode, BufferTypes
  <2>3. AccessInv(t)'
    BY <1>1, <1>2, Zenon DEF EnterExclusive, TypeOK, FlagTypes, PlaceTypes, Local, AccessInv,
        RunsInVM, Acquiring, DeathLabel, ClaimLabel, OwnerLabel
  <2>4. CriticalInv(t)'
    BY <1>1, <1>2, Zenon DEF EnterExclusive, TypeOK, FlagTypes, PlaceTypes, Local, CriticalInv,
        Acquiring
  <2>5. HaltInv(t)'
    BY <1>1, <1>2, Zenon DEF EnterExclusive, TypeOK, FlagTypes, PlaceTypes, Local, HaltInv, Engaged,
        Handed, Acquiring, ClaimLabel, OwnerLabel
  <2> QED BY <2>1, <2>2, <2>3, <2>4, <2>5, Zenon DEF Local
<1>5. /\ exclusiveAccessState' # "NONE" /\ StateInv(t)' /\ ExpectInv(t)' /\ TodoInv(t)'
      /\ exclusiveCount'[t] > 0 /\ linked' = linked
      /\ exclusiveVMAccessQueue' = exclusiveVMAccessQueue
  BY <1>1, <1>2, Zenon DEF EnterExclusive, StateInv, ExpectInv, TodoInv, Engaged, Handed, Acquiring,
      ClaimLabel, OwnerLabel, TypeOK, PlaceTypes, CountTypes, RequestTypes
<1>6. ASSUME NEW u \in Thread \ {t}
      PROVE  /\ AllAsked(t)' /\ u \in linked => Has(u, "HALT_EXCLUSIVE")'
             /\ AllCounted(t)' /\ RunsInVM(u) => ~Has(u, "NOT_COUNTED_BY_EXCLUSIVE")'
             /\ PostInv(t, u)' /\ CountInv(t, u)'
  BY <1>1, <1>2, <1>3, Zenon DEF EnterExclusive, ProgressInv, AskedInv, PostInv, CountInv, AllAsked,
      AllCounted, Handed, ClaimLabel, OwnerLabel, SameHalt, Halted, TypeOK, PlaceTypes
<1>7. /\ AwaitedResponders' = AwaitedResponders /\ AwaitedCriticals' = AwaitedCriticals
      /\ \A u \in Thread \ {t} :
           /\ HaltInv(u)' /\ (Has(u, "HALT_EXCLUSIVE") => Has(u, "HALT_EXCLUSIVE")')
           /\ pc'[u] \notin ClaimLabel \cup OwnerLabel
  BY <1>2, <1>3, <1>4, <1>5, EngagedAwaitedSame, Zenon DEF Local
<1>8. ResponsesAccounted'
  BY <1>1, <1>5, <1>7, ZenonT(40) DEF EnterExclusive, ResponsesAccounted, TypeOK, PlaceTypes, ClaimLabel,
      OwnerLabel
<1> QED BY <1>2, <1>3, <1>4, <1>5, <1>6, <1>7, <1>8, EngagedStep, Zenon

(* The thread that was handed exclusive access ... *)
LEMMA GrantedKeeps ==
    ASSUME IInv, TypeOK', NEW t \in Thread, Granted(t)
    PROVE  IInv'
<1>1. /\ TypeOK /\ ResponsesAccounted
      /\ Local(t) /\ QueueInv(t) /\ StateInv(t) /\ ExpectInv(t) /\ TodoInv(t)
      /\ \A u \in Thread \ {t} : ProgressInv(t, u) /\ Local(u)
  BY Zenon DEF IInv, Local
<1>2. Engaged(t) /\ Engaged(t)' /\ exclusiveCount[t] > 0
  BY <1>1, Zenon DEF Granted, QueueInv, Engaged, Handed, ClaimLabel, OwnerLabel, TypeOK, PlaceTypes
<1>3. ASSUME NEW u \in Thread \ {t} PROVE Stays(u) /\ SameHalt(u) /\ todo'[u] = todo[u]
  BY <1>1, Zenon DEF Granted, Stays, SameHalt, OwnInNative, TypeOK, FlagTypes, PlaceTypes,
      MonitorTypes
<1>4. Local(t)'
  <2>1. PcInv(t)'
    BY <1>1, <1>2, ThreadAssumption, ZenonT(40) DEF Granted, TypeOK, FlagTypes, PlaceTypes, Local, PcInv,
        Holding, Acquiring, MonitorTypes
  <2>2. NativeInv(t)'
    BY <1>1, <1>2, Zenon DEF Granted, TypeOK, FlagTypes, PlaceTypes, Local, NativeInv, OwnInNative,
        NativeCode, BufferTypes
  <2>3. AccessInv(t)'
    BY <1>1, <1>2, Zenon DEF Granted, TypeOK, FlagTypes, PlaceTypes, Local, AccessInv, RunsInVM,
        Acquiring, DeathLabel, ClaimLabel, OwnerLabel
  <2>4. CriticalInv(t)'
    BY <1>1, <1>2, Zenon DEF Granted, TypeOK, FlagTypes, PlaceTypes, Local, CriticalInv, Acquiring
  <2>5. HaltInv(t)'
    BY <1>1, <1>2, Zenon DEF Granted, TypeOK, FlagTypes, PlaceTypes, Local, HaltInv, Engaged,
        Handed, Acquiring, ClaimLabel, OwnerLabel
  <2> QED BY <2>1, <2>2, <2>3, <2>4, <2>5, Zenon DEF Local
<1>5. /\ exclusiveAccessState' # "NONE" /\ StateInv(t)' /\ ExpectInv(t)' /\ TodoInv(t)'
      /\ exclusiveCount'[t] > 0 /\ linked' = linked
      /\ exclusiveVMAccessQueue' = exclusiveVMAccessQueue
  BY <1>1, <1>2, Zenon DEF Granted, StateInv, ExpectInv, TodoInv, Engaged, Handed, Acquiring,
      ClaimLabel, OwnerLabel, TypeOK, PlaceTypes, CountTypes, RequestTypes
<1>6. ASSUME NEW u \in Thread \ {t}
      PROVE  /\ AllAsked(t)' /\ u \in linked => Has(u, "HALT_EXCLUSIVE")'
             /\ AllCounted(t)' /\ RunsInVM(u) => ~Has(u, "NOT_COUNTED_BY_EXCLUSIVE")'
             /\ PostInv(t, u)' /\ CountInv(t, u)'
  BY <1>1, <1>2, <1>3, Zenon DEF Granted, ProgressInv, AskedInv, PostInv, CountInv, AllAsked,
      AllCounted, Handed, ClaimLabel, OwnerLabel, SameHalt, Halted, TypeOK, PlaceTypes
<1>7. /\ AwaitedResponders' = AwaitedResponders /\ AwaitedCriticals' = AwaitedCriticals
      /\ \A u \in Thread \ {t} :
           /\ HaltInv(u)' /\ (Has(u, "HALT_EXCLUSIVE") => Has(u, "HALT_EXCLUSIVE")')
           /\ pc'[u] \notin ClaimLabel \cup OwnerLabel
  BY <1>2, <1>3, <1>4, <1>5, EngagedAwaitedSame, Zenon DEF Local
<1>8. ResponsesAccounted'
  BY <1>1, <1>5, <1>7, Zenon DEF Granted, ResponsesAccounted, TypeOK, PlaceTypes, ClaimLabel,
      OwnerLabel
<1> QED BY <1>2, <1>3, <1>4, <1>5, <1>6, <1>7, <1>8, EngagedStep, Zenon

(* The first pass keeps the invariant: the thread it halts is not counted, and
   is expected to respond for its JNI critical region. *)
LEMMA PostHaltKeeps ==
    ASSUME ThreadsCounted, IInv, TypeOK', NEW t \in Thread, NEW w \in Thread, PostHalt(t, w)
    PROVE  IInv'
<1>1. /\ TypeOK /\ ResponsesAccounted
      /\ Local(t) /\ QueueInv(t) /\ StateInv(t) /\ ExpectInv(t) /\ TodoInv(t)
      /\ \A u \in Thread \ {t} : ProgressInv(t, u) /\ Local(u)
  BY Zenon DEF IInv, Local
<1>2. /\ pc[t] = "post" /\ w \in todo[t] /\ w \in linked \ {t}
      /\ Engaged(t) /\ Engaged(t)' /\ exclusiveCount[t] > 0
  BY <1>1, Zenon DEF PostHalt, TodoInv, QueueInv, Engaged, ClaimLabel
<1>3. pc[w] \notin Holding /\ pc[w] # "dead"
  BY <1>1, <1>2, ThreadAssumption, Zenon DEF PostHalt, Local, PcInv
<1>4. /\ Has(w, "HALT_EXCLUSIVE")' /\ Has(w, "NOT_COUNTED_BY_EXCLUSIVE")'
      /\ todo'[t] = todo[t] \ {w}
      /\ \A u \in Thread \ {w} : SameHalt(u)
      /\ \A u \in Thread \ {t} : todo'[u] = todo[u]
  BY <1>1, <1>2, ZenonT(40) DEF PostHalt, SameHalt, Halted, TypeOK, FlagTypes, RequestTypes
<1>5. ASSUME NEW u \in Thread \ {t} PROVE Stays(u)
  BY <1>1, <1>3, Zenon DEF PostHalt, Stays, OwnInNative, Halted, TypeOK, FlagTypes, CountTypes
<1>6. \A u \in Thread : Queued(u)' <=> Queued(u)
  BY Zenon DEF PostHalt, Queued
<1>7. publicFlags'[t] = publicFlags[t]
  BY <1>1, <1>2, Zenon DEF PostHalt, TypeOK, FlagTypes
<1>8. Local(t)'
  BY <1>1, <1>2, <1>6, <1>7, Zenon DEF PostHalt, Local, PcInv, NativeInv, NativeCode, OwnInNative,
      AccessInv,
        RunsInVM, CriticalInv, HaltInv, Engaged, Handed
<1>9. ASSUME NEW u \in Thread \ {t}
      PROVE  ~Engaged(u) /\ ~Engaged(u)' /\ pc'[u] \notin ClaimLabel \cup OwnerLabel /\ pc'[u] = pc[u]
  <2>1. ~Engaged(u)
    BY <1>1, <1>2, Zenon DEF ProgressInv, AskedInv
  <2> QED BY <1>5, <1>6, <2>1, Zenon DEF Stays, Engaged, Handed
<1>10. ASSUME NEW u \in Thread \ {t}
       PROVE  HaltInv(u)' /\ (Has(u, "HALT_EXCLUSIVE") => Has(u, "HALT_EXCLUSIVE")')
  <2>1. CASE u = w
    BY <1>3, <1>4, <1>9, <2>1, Zenon DEF HaltInv, Holding
  <2>2. CASE u # w
    BY <1>1, <1>4, <1>5, <1>6, <2>2, StaysSame, Zenon DEF Local, SameHalt, Halted
  <2> QED BY <2>1, <2>2, Zenon
<1>11. /\ exclusiveAccessState' # "NONE" /\ StateInv(t)' /\ ExpectInv(t)' /\ TodoInv(t)'
       /\ exclusiveCount'[t] > 0 /\ linked' = linked
       /\ exclusiveVMAccessQueue' = exclusiveVMAccessQueue
  BY <1>1, <1>2, <1>4, <1>6, Zenon DEF PostHalt, StateInv, ExpectInv, TodoInv, Handed, Engaged,
        Acquiring, ClaimLabel, OwnerLabel, TypeOK, RequestTypes
<1>12. ~Responder(w) /\ ~CriticalResponder(w) /\ ~Responder(w)'
       /\ (CriticalResponder(w)' <=> Has(w, "JNI_CRITICAL_ACCESS"))
  <2>1. ~Responder(w) /\ ~CriticalResponder(w)
    BY <1>1, <1>2, Zenon DEF ProgressInv, PostInv
  <2>2. ~Responder(w)'
    BY <1>4, Zenon DEF Responder, MustRespond
  <2>3. Has(w, "JNI_CRITICAL_ACCESS")' <=> Has(w, "JNI_CRITICAL_ACCESS")
    BY <1>2, <1>5, Zenon DEF Stays, Halted
  <2>4. pc'[w] = pc[w] /\ pc[w] \notin {"criticalCount", "acquireRespond", "criticalExitRespond"}
    BY <1>2, <1>3, <1>9, Zenon DEF Holding
  <2>5. CriticalResponder(w)' <=> Has(w, "JNI_CRITICAL_ACCESS")
    BY <1>4, <2>3, <2>4, Zenon DEF CriticalResponder
  <2> QED BY <2>1, <2>2, <2>5, Zenon
<1>13. ASSUME NEW u \in Thread \ {w}
       PROVE  (Responder(u)' <=> Responder(u)) /\ (CriticalResponder(u)' <=> CriticalResponder(u))
  <2>1. CASE u = t
    BY <1>7, <2>1, Zenon DEF PostHalt, Responder, CriticalResponder, MustRespond
  <2>2. CASE u # t
    BY <1>4, <1>5, <1>6, <2>2, StaysSame, Zenon
  <2> QED BY <2>1, <2>2, Zenon
<1>14. ASSUME NEW u \in Thread \ {t}
       PROVE  /\ AllAsked(t)' /\ u \in linked => Has(u, "HALT_EXCLUSIVE")'
              /\ AllCounted(t)' /\ RunsInVM(u) => ~Has(u, "NOT_COUNTED_BY_EXCLUSIVE")'
              /\ PostInv(t, u)' /\ CountInv(t, u)'
  <2>1. pc'[t] = "post" /\ ~AllAsked(t)' /\ ~AllCounted(t)' /\ CountInv(t, u)'
    BY <1>2, Zenon DEF PostHalt, AllAsked, AllCounted, Handed, Acquiring, OwnerLabel, CountInv
  <2>2. CASE u = w
    BY <1>4, <1>12, <2>1, <2>2, Zenon DEF PostInv
  <2>3. CASE u # w
    <3>1. PostInv(t, u)
      BY <1>1, Zenon DEF ProgressInv
    <3>2. SameHalt(u) /\ Stays(u)
      BY <1>4, <1>5, <2>3, Zenon
    <3> QED BY <1>2, <1>4, <1>11, <1>13, <2>1, <2>3, <3>1, <3>2, Zenon DEF PostInv, SameHalt,
        Stays, Halted
  <2> QED BY <2>1, <2>2, <2>3, Zenon
<1>15. ResponsesAccounted'
  <2>1. /\ exclusiveAccessResponseCount + responsesExpected[t] = Cardinality(AwaitedResponders)
        /\ jniCriticalResponseCount + jniCriticalResponsesExpected[t] = Cardinality(AwaitedCriticals)
        /\ exclusiveAccessState = "PENDING"
    BY <1>1, <1>2, Zenon DEF ResponsesAccounted, StateInv, ClaimLabel
  <2>2. AwaitedResponders' = AwaitedResponders
    BY <1>12, <1>13, Zenon DEF AwaitedResponders
  <2>3. /\ AwaitedCriticals \ {w} = AwaitedCriticals' \ {w} /\ w \notin AwaitedCriticals
        /\ w \in AwaitedCriticals' <=> Has(w, "JNI_CRITICAL_ACCESS")
    BY <1>12, <1>13, Zenon DEF AwaitedCriticals
  <2>4. Cardinality(AwaitedCriticals') =
          Cardinality(AwaitedCriticals) + (IF Has(w, "JNI_CRITICAL_ACCESS") THEN 1 ELSE 0)
    <3>1. CASE Has(w, "JNI_CRITICAL_ACCESS")
      BY <2>3, <3>1, AwaitedCounted, CountFollows, Zenon
    <3>2. CASE ~Has(w, "JNI_CRITICAL_ACCESS")
      BY <2>3, <3>2, AwaitedCounted, CountFollows
    <3> QED BY <3>1, <3>2, Zenon
  <2>5. /\ jniCriticalResponsesExpected'[t] =
             jniCriticalResponsesExpected[t] + (IF Has(w, "JNI_CRITICAL_ACCESS") THEN 1 ELSE 0)
        /\ jniCriticalResponsesExpected[t] \in Int /\ jniCriticalResponseCount \in Int
        /\ Cardinality(AwaitedCriticals) \in Int
    BY <1>1, AwaitedCounted DEF PostHalt, TypeOK, CountTypes
  <2>6. jniCriticalResponseCount + jniCriticalResponsesExpected'[t] = Cardinality(AwaitedCriticals')
    BY <2>1, <2>4, <2>5
  <2> QED BY <1>9, <2>1, <2>2, <2>6, Zenon DEF PostHalt, ResponsesAccounted
<1> QED BY <1>2, <1>4, <1>5, <1>8, <1>10, <1>11, <1>14, <1>15, EngagedStep, ZenonT(40)

(* The second pass keeps the invariant: after the flush a thread that runs in
   the VM is seen outside native, counted, and expected to respond. *)
LEMMA PostCountKeeps ==
    ASSUME ThreadsCounted, IInv, TypeOK', NEW t \in Thread, NEW w \in Thread, PostCount(t, w)
    PROVE  IInv'
<1>1. /\ TypeOK /\ ResponsesAccounted
      /\ Local(t) /\ QueueInv(t) /\ StateInv(t) /\ ExpectInv(t) /\ TodoInv(t)
      /\ \A u \in Thread \ {t} : ProgressInv(t, u) /\ Local(u)
  BY Zenon DEF IInv, Local
<1> DEFINE counted == ~inNative[w] /\ Has(w, "VM_ACCESS")
<1>2. /\ pc[t] = "count" /\ w \in todo[t] /\ w \in linked \ {t}
      /\ Engaged(t) /\ Engaged(t)' /\ exclusiveCount[t] > 0
  BY <1>1, Zenon DEF PostCount, TodoInv, QueueInv, Engaged, ClaimLabel
<1>3. /\ todo'[t] = todo[t] \ {w}
      /\ \A u \in Thread \ {t} : todo'[u] = todo[u]
      /\ UNCHANGED <<vmVars, bufferVars, pfmVars, localVars, exclusiveVMAccessQueue,
                     vmThreadListMutex, exclusiveCount, jniCriticalResponsesExpected>>
  BY <1>1, Zenon DEF PostCount, TypeOK, RequestTypes
<1>4. /\ \A u \in Thread \ {w} : publicFlags'[u] = publicFlags[u]
      /\ \A f : f # "NOT_COUNTED_BY_EXCLUSIVE" => (Has(w, f)' <=> Has(w, f))
      /\ Has(w, "NOT_COUNTED_BY_EXCLUSIVE")' <=> Has(w, "NOT_COUNTED_BY_EXCLUSIVE") /\ ~counted
      /\ responsesExpected' =
           [responsesExpected EXCEPT ![t] = @ + (IF counted THEN 1 ELSE 0)]
  <2>1. CASE counted
    BY <1>1, <2>1, Zenon DEF PostCount, TypeOK, FlagTypes
  <2>2. CASE ~counted
    <3>1. UNCHANGED <<publicFlags, responsesExpected>> /\ responsesExpected \in [Thread -> Nat]
      BY <1>1, <2>2, Zenon DEF PostCount, TypeOK, CountTypes
    <3>2. [responsesExpected EXCEPT ![t] = @ + 0] = responsesExpected
      BY <3>1
    <3> QED BY <2>2, <3>1, <3>2
  <2> QED BY <2>1, <2>2, Zenon
<1>5. \A u \in Thread \ {w} : SameHalt(u)
  BY <1>4, Zenon DEF SameHalt
<1>6. ASSUME NEW u \in Thread \ {t} PROVE Stays(u)
  <2>1. pc[w] # "dead"
    BY <1>1, <1>2, Zenon DEF Local, PcInv
  <2>2. responsesExpected'[u] = responsesExpected[u]
    BY <1>1, <1>4, Zenon DEF TypeOK, CountTypes
  <2>3. \A f : f \notin Halted => (Has(u, f)' <=> Has(u, f))
    BY <1>4 DEF Halted
  <2> QED BY <1>3, <1>4, <2>1, <2>2, <2>3, Zenon DEF Stays, OwnInNative
<1>7. \A u \in Thread : Queued(u)' <=> Queued(u)
  BY <1>3, Zenon DEF Queued
<1>8. publicFlags'[t] = publicFlags[t]
  BY <1>2, <1>4, Zenon
<1>9. Local(t)'
  BY <1>1, <1>2, <1>3, <1>7, <1>8, Zenon DEF Local, PcInv, NativeInv, NativeCode, OwnInNative,
        AccessInv, RunsInVM, CriticalInv, HaltInv, Engaged, Handed
<1>10. ASSUME NEW u \in Thread \ {t}
       PROVE  /\ ~Engaged(u) /\ ~Engaged(u)' /\ pc'[u] \notin ClaimLabel \cup OwnerLabel
              /\ pc'[u] = pc[u]
  <2>1. ~Engaged(u)
    BY <1>1, <1>2, Zenon DEF ProgressInv, AskedInv
  <2> QED BY <1>6, <1>7, <2>1, Zenon DEF Stays, Engaged, Handed
<1>11. ASSUME NEW u \in Thread \ {t}
       PROVE  HaltInv(u)' /\ (Has(u, "HALT_EXCLUSIVE")' <=> Has(u, "HALT_EXCLUSIVE"))
  <2>1. CASE u = w
    BY <1>1, <1>4, <1>10, <2>1, Zenon DEF Local, HaltInv
  <2>2. CASE u # w
    BY <1>1, <1>5, <1>6, <1>7, <2>2, StaysSame, Zenon DEF Local, SameHalt, Halted
  <2> QED BY <2>1, <2>2, Zenon
<1>12. /\ exclusiveAccessState' # "NONE" /\ StateInv(t)' /\ ExpectInv(t)' /\ TodoInv(t)'
       /\ exclusiveCount'[t] > 0 /\ linked' = linked
       /\ exclusiveVMAccessQueue' = exclusiveVMAccessQueue
  BY <1>1, <1>2, <1>3, <1>7, Zenon DEF StateInv, ExpectInv, TodoInv, Handed, Engaged, Acquiring,
        ClaimLabel, OwnerLabel
<1>13. Has(w, "HALT_EXCLUSIVE") /\ (Has(w, "VM_ACCESS") => Has(w, "NOT_COUNTED_BY_EXCLUSIVE"))
       /\ (RunsInVM(w) => counted)
  <2>1. AskedInv(t, w) /\ CountInv(t, w)
    BY <1>1, <1>2, Zenon DEF ProgressInv
  <2>2. Has(w, "HALT_EXCLUSIVE")
    BY <1>2, <2>1, Zenon DEF AskedInv, AllAsked
  <2>3. RunsInVM(w) => storeBuffer[w] = <<>> /\ ~OwnInNative(w) /\ Has(w, "VM_ACCESS")
    BY <1>1, <1>2, <2>1, Zenon DEF CountInv, Local, NativeInv, NativeCode, AccessInv, RunsInVM,
                            ClaimLabel, OwnerLabel
  <2>4. RunsInVM(w) => counted
    BY <2>3, Zenon DEF OwnInNative
  <2> QED BY <1>2, <2>1, <2>2, <2>4, Zenon DEF CountInv
<1>14. /\ counted => ~Responder(w) /\ Responder(w)'
       /\ ~counted => (Responder(w)' <=> Responder(w))
       /\ CriticalResponder(w)' <=> CriticalResponder(w)
  <2>1. pc'[w] = pc[w]
    BY <1>2, <1>10, Zenon
  <2>2. counted => ~Responder(w) /\ Responder(w)'
    BY <1>4, <1>13, Zenon DEF Responder, MustRespond
  <2>3. ~counted => (Responder(w)' <=> Responder(w))
    BY <1>4, <2>1, Zenon DEF Responder, MustRespond
  <2>4. CriticalResponder(w)' <=> CriticalResponder(w)
    BY <1>4, <2>1, Zenon DEF CriticalResponder
  <2> QED BY <2>2, <2>3, <2>4, Zenon
<1>15. ASSUME NEW u \in Thread \ {w}
       PROVE  (Responder(u)' <=> Responder(u)) /\ (CriticalResponder(u)' <=> CriticalResponder(u))
  <2>1. CASE u = t
    BY <1>3, <1>8, <2>1, Zenon DEF Responder, CriticalResponder, MustRespond
  <2>2. CASE u # t
    BY <1>5, <1>6, <1>7, <2>2, StaysSame, Zenon
  <2> QED BY <2>1, <2>2, Zenon
<1>16. ASSUME NEW u \in Thread \ {t}
       PROVE  /\ AllAsked(t)' /\ u \in linked => Has(u, "HALT_EXCLUSIVE")'
              /\ AllCounted(t)' /\ RunsInVM(u) => ~Has(u, "NOT_COUNTED_BY_EXCLUSIVE")'
              /\ PostInv(t, u)' /\ CountInv(t, u)'
  <2>1. pc'[t] = "count" /\ ~AllCounted(t)' /\ PostInv(t, u)' /\ AllAsked(t)
    BY <1>2, <1>3, Zenon DEF AllCounted, AllAsked, PostInv
  <2>2. u \in linked => Has(u, "HALT_EXCLUSIVE")'
    BY <1>1, <1>11, <2>1, Zenon DEF ProgressInv, AskedInv
  <2>3. RunsInVM(u)' <=> RunsInVM(u)
    BY <1>1, <1>6, StaysLocal, Zenon
  <2>4. CountInv(t, u)
    BY <1>1, Zenon DEF ProgressInv
  <2>5. CASE u = w
    BY <1>3, <1>4, <1>13, <2>1, <2>2, <2>3, <2>5, Zenon DEF CountInv
  <2>6. CASE u # w
    BY <1>2, <1>3, <1>4, <2>1, <2>2, <2>3, <2>4, <2>6, ZenonT(40) DEF CountInv
  <2> QED BY <2>5, <2>6, Zenon
<1>17. ResponsesAccounted'
  <2>1. /\ exclusiveAccessResponseCount + responsesExpected[t] = Cardinality(AwaitedResponders)
        /\ jniCriticalResponseCount + jniCriticalResponsesExpected[t] = Cardinality(AwaitedCriticals)
        /\ exclusiveAccessState = "PENDING"
    BY <1>1, <1>2, Zenon DEF ResponsesAccounted, StateInv, ClaimLabel
  <2>2. AwaitedCriticals' = AwaitedCriticals
    BY <1>14, <1>15, Zenon DEF AwaitedCriticals
  <2>3. /\ AwaitedResponders \ {w} = AwaitedResponders' \ {w}
        /\ counted => w \notin AwaitedResponders /\ w \in AwaitedResponders'
        /\ ~counted => (w \in AwaitedResponders' <=> w \in AwaitedResponders)
    BY <1>14, <1>15, Zenon DEF AwaitedResponders
  <2>4. Cardinality(AwaitedResponders') = Cardinality(AwaitedResponders) + (IF counted THEN 1 ELSE 0)
    <3>1. CASE counted
      BY <2>3, <3>1, AwaitedCounted, CountFollows, Zenon
    <3>2. CASE ~counted
      BY <2>3, <3>2, AwaitedCounted, CountFollows
    <3> QED BY <3>1, <3>2, Zenon
  <2>5. /\ responsesExpected'[t] = responsesExpected[t] + (IF counted THEN 1 ELSE 0)
        /\ responsesExpected[t] \in Int /\ exclusiveAccessResponseCount \in Int
        /\ Cardinality(AwaitedResponders) \in Int
    <3>1. responsesExpected \in [Thread -> Nat] /\ exclusiveAccessResponseCount \in Int
      BY <1>1, Zenon DEF TypeOK, CountTypes
    <3> QED BY <1>4, <3>1, AwaitedCounted
  <2>6. exclusiveAccessResponseCount + responsesExpected'[t] = Cardinality(AwaitedResponders')
    BY <2>1, <2>4, <2>5
  <2> QED BY <1>3, <1>10, <2>1, <2>2, <2>6, Zenon DEF ResponsesAccounted
<1> QED BY <1>2, <1>3, <1>6, <1>9, <1>11, <1>12, <1>16, <1>17, EngagedStep, ZenonT(40)

(* flushProcessWriteBuffers keeps the invariant: no thread that runs in the VM
   has a store to inNative held back any more. *)
LEMMA FlushKeeps ==
    ASSUME IInv, TypeOK', NEW t \in Thread, Flush(t)
    PROVE  IInv'
<1>1. /\ TypeOK /\ ResponsesAccounted
      /\ Local(t) /\ QueueInv(t) /\ StateInv(t) /\ ExpectInv(t) /\ TodoInv(t)
      /\ \A u \in Thread \ {t} : ProgressInv(t, u) /\ Local(u)
  BY Zenon DEF IInv, Local
<1>2. Engaged(t) /\ Engaged(t)' /\ exclusiveCount[t] > 0
  BY <1>1, Zenon DEF Flush, QueueInv, Engaged, ClaimLabel, TypeOK, PlaceTypes
<1>3. \A u \in Thread : OwnInNative(u)' = OwnInNative(u) /\ storeBuffer'[u] = <<>>
  BY Zenon DEF Flush, OwnInNative
<1>4. ASSUME NEW u \in Thread \ {t} PROVE Stays(u) /\ SameHalt(u) /\ todo'[u] = todo[u]
  BY <1>1, <1>3, Zenon DEF Flush, Stays, SameHalt, TypeOK, PlaceTypes, RequestTypes
<1>5. Local(t)'
  <2>1. PcInv(t)' /\ NativeInv(t)'
    BY <1>1, <1>3, Zenon DEF Flush, TypeOK, PlaceTypes, Local, PcInv, NativeInv, NativeCode,
        Holding, Acquiring
  <2>2. AccessInv(t)' /\ CriticalInv(t)'
    BY <1>1, Zenon DEF Flush, TypeOK, PlaceTypes, Local, AccessInv, CriticalInv, RunsInVM,
                Acquiring, DeathLabel, ClaimLabel, OwnerLabel
  <2>3. HaltInv(t)'
    BY <1>1, <1>2, Zenon DEF Flush, TypeOK, PlaceTypes, Local, HaltInv
  <2> QED BY <2>1, <2>2, <2>3, Zenon DEF Local
<1>6. /\ exclusiveAccessState' # "NONE" /\ StateInv(t)' /\ ExpectInv(t)' /\ TodoInv(t)'
      /\ exclusiveCount'[t] > 0 /\ linked' = linked
      /\ exclusiveVMAccessQueue' = exclusiveVMAccessQueue
  BY <1>1, <1>2, ZenonT(40) DEF Flush, Others, StateInv, ExpectInv, TodoInv, Handed, Acquiring,
                    ClaimLabel, OwnerLabel, TypeOK, PlaceTypes, RequestTypes
<1>7. ASSUME NEW u \in Thread \ {t}
      PROVE  /\ AllAsked(t)' /\ u \in linked => Has(u, "HALT_EXCLUSIVE")'
             /\ AllCounted(t)' /\ RunsInVM(u) => ~Has(u, "NOT_COUNTED_BY_EXCLUSIVE")'
             /\ PostInv(t, u)' /\ CountInv(t, u)'
  <2>1. RunsInVM(u)' => u \in linked
    BY <1>1, <1>4, Zenon DEF Local, PcInv, Stays, RunsInVM, ClaimLabel, OwnerLabel
  <2>2. PostInv(t, u)
    BY <1>1, Zenon DEF ProgressInv
  <2>3. pc[t] = "post" /\ pc'[t] = "count" /\ todo[t] = {} /\ todo'[t] = linked \ {t}
    BY <1>1, Zenon DEF Flush, Others, TypeOK, PlaceTypes, RequestTypes
  <2>4. publicFlags' = publicFlags /\ linked' = linked
    BY Zenon DEF Flush
  <2> QED BY <1>3, <2>1, <2>2, <2>3, <2>4, Zenon DEF PostInv, CountInv, AllCounted
<1>8. /\ AwaitedResponders' = AwaitedResponders /\ AwaitedCriticals' = AwaitedCriticals
      /\ \A u \in Thread \ {t} :
           /\ HaltInv(u)' /\ (Has(u, "HALT_EXCLUSIVE") => Has(u, "HALT_EXCLUSIVE")')
           /\ pc'[u] \notin ClaimLabel \cup OwnerLabel
  BY <1>2, <1>4, <1>5, <1>6, EngagedAwaitedSame, Zenon DEF Local
<1>9. ResponsesAccounted'
  BY <1>1, <1>6, <1>8, Zenon DEF Flush, ResponsesAccounted, TypeOK, PlaceTypes, ClaimLabel,
      OwnerLabel
<1> QED BY <1>2, <1>4, <1>5, <1>6, <1>7, <1>8, <1>9, EngagedStep, Zenon

(* ... and expects the response of the thread that handed it off. *)
LEMMA AcceptHandOffKeeps ==
    ASSUME IInv, TypeOK', NEW t \in Thread, AcceptHandOff(t)
    PROVE  IInv'
<1>1. /\ TypeOK /\ ResponsesAccounted
      /\ Local(t) /\ QueueInv(t) /\ StateInv(t) /\ ExpectInv(t) /\ TodoInv(t)
      /\ \A u \in Thread \ {t} : ProgressInv(t, u) /\ Local(u)
  BY Zenon DEF IInv, Local
<1>2. /\ Engaged(t) /\ Engaged(t)' /\ exclusiveCount[t] > 0
      /\ exclusiveAccessState = "HANDING_OFF" /\ Handed(t)
  BY <1>1, Zenon DEF AcceptHandOff, QueueInv, StateInv, Engaged, Handed, ClaimLabel, TypeOK,
      PlaceTypes
<1>3. ASSUME NEW u \in Thread \ {t} PROVE Stays(u) /\ SameHalt(u) /\ todo'[u] = todo[u]
  BY <1>1, Zenon DEF AcceptHandOff, Stays, SameHalt, OwnInNative, TypeOK, PlaceTypes, CountTypes
<1>4. Local(t)'
  <2>1. PcInv(t)' /\ NativeInv(t)'
    BY <1>1, Zenon DEF AcceptHandOff, TypeOK, PlaceTypes, Local, PcInv, NativeInv, NativeCode,
                OwnInNative, Holding, Acquiring
  <2>2. AccessInv(t)' /\ CriticalInv(t)'
    BY <1>1, Zenon DEF AcceptHandOff, TypeOK, PlaceTypes, Local, AccessInv, CriticalInv, RunsInVM,
        Acquiring,
                DeathLabel, ClaimLabel, OwnerLabel
  <2>3. HaltInv(t)'
    BY <1>1, <1>2, Zenon DEF AcceptHandOff, TypeOK, PlaceTypes, Local, HaltInv
  <2> QED BY <2>1, <2>2, <2>3, Zenon DEF Local
<1>5. /\ responsesExpected'[t] = 1 /\ jniCriticalResponsesExpected'[t] = 1
      /\ exclusiveAccessState' = "HANDED_OFF" /\ pc'[t] = "await" /\ pc[t] = "accept"
  BY <1>1, <1>2, Zenon DEF AcceptHandOff, TypeOK, PlaceTypes, CountTypes
<1>6. /\ exclusiveAccessState' # "NONE" /\ StateInv(t)' /\ ExpectInv(t)' /\ TodoInv(t)'
      /\ exclusiveCount'[t] > 0 /\ linked' = linked
      /\ exclusiveVMAccessQueue' = exclusiveVMAccessQueue
  BY <1>2, <1>5, Zenon DEF AcceptHandOff, StateInv, ExpectInv, TodoInv, Handed, Acquiring,
      ClaimLabel, OwnerLabel
<1>7. ASSUME NEW u \in Thread \ {t}
      PROVE  /\ AllAsked(t)' /\ u \in linked => Has(u, "HALT_EXCLUSIVE")'
             /\ AllCounted(t)' /\ RunsInVM(u) => ~Has(u, "NOT_COUNTED_BY_EXCLUSIVE")'
             /\ PostInv(t, u)' /\ CountInv(t, u)'
  BY <1>1, <1>2, <1>3, <1>5, Zenon DEF ProgressInv, AskedInv, PostInv, CountInv, AllAsked,
                                AllCounted, SameHalt, Halted
<1>8. /\ AwaitedResponders' = AwaitedResponders /\ AwaitedCriticals' = AwaitedCriticals
      /\ \A u \in Thread \ {t} :
           /\ HaltInv(u)' /\ (Has(u, "HALT_EXCLUSIVE") => Has(u, "HALT_EXCLUSIVE")')
           /\ pc'[u] \notin ClaimLabel \cup OwnerLabel
  BY <1>2, <1>3, <1>4, <1>6, EngagedAwaitedSame, Zenon DEF Local
<1>9. ResponsesAccounted'
  BY <1>1, <1>2, <1>5, <1>8, ZenonT(40) DEF AcceptHandOff, ResponsesAccounted
<1> QED BY <1>2, <1>3, <1>4, <1>6, <1>7, <1>8, <1>9, EngagedStep, ZenonT(40)

(* Waiting for responses keeps the invariant: what is still expected moves into
   the counters, and the wait ends only at zero. *)
LEMMA AwaitKeeps ==
    ASSUME IInv, TypeOK', NEW t \in Thread, Await(t)
    PROVE  IInv'
<1>1. /\ TypeOK /\ ResponsesAccounted
      /\ Local(t) /\ QueueInv(t) /\ StateInv(t) /\ ExpectInv(t) /\ TodoInv(t)
      /\ \A u \in Thread \ {t} : ProgressInv(t, u) /\ Local(u)
  BY Zenon DEF IInv, Local
<1>2. /\ responsesExpected[t] \in Int /\ jniCriticalResponsesExpected[t] \in Int
      /\ exclusiveAccessResponseCount \in Int /\ jniCriticalResponseCount \in Int
  BY <1>1 DEF TypeOK, CountTypes
<1>3. /\ pc[t] \in {"await", "awaitVM", "awaitJNI"}
      /\ responsesExpected' = [responsesExpected EXCEPT ![t] = 0]
      /\ UNCHANGED <<linked, safePointResponseCount, safePointState, flagVars, pfmVars, ret,
                     criticalVars, exclusiveVMAccessQueue, vmThreadListMutex, exclusiveCount, todo>>
  BY Zenon DEF Await
<1>4. /\ pc' = [pc EXCEPT ![t] = pc'[t]] /\ pc'[t] \in {"awaitVM", "awaitJNI", "exclusiveList"}
      /\ jniCriticalResponsesExpected' =
           [jniCriticalResponsesExpected EXCEPT ![t] = jniCriticalResponsesExpected'[t]]
      /\ exclusiveAccessResponseCount' = exclusiveAccessResponseCount + responsesExpected[t]
      /\ jniCriticalResponseCount' + jniCriticalResponsesExpected'[t]
           = jniCriticalResponseCount + jniCriticalResponsesExpected[t]
      /\ pc'[t] # "awaitVM" => exclusiveAccessResponseCount' = 0 /\ jniCriticalResponsesExpected'[t] = 0
      /\ pc'[t] = "exclusiveList" => jniCriticalResponseCount' = 0 /\ exclusiveAccessState' = "EXCLUSIVE"
      /\ pc'[t] # "exclusiveList" => exclusiveAccessState' = exclusiveAccessState
  <2>1. CASE AwaitVM(t, exclusiveAccessResponseCount + responsesExpected[t])
    BY <1>1, <1>2, <2>1, Zenon DEF AwaitVM, TypeOK, PlaceTypes, CountTypes
  <2>2. CASE /\ AwaitJNI(t) /\ exclusiveAccessResponseCount' = 0
             /\ exclusiveAccessResponseCount + responsesExpected[t] = 0
    BY <1>1, <1>2, <2>2 DEF AwaitJNI, TypeOK, PlaceTypes, CountTypes
  <2>3. ASSUME pc[t] = "awaitJNI", UNCHANGED exclusiveAccessResponseCount
        PROVE  /\ exclusiveAccessResponseCount' = 0
               /\ exclusiveAccessResponseCount + responsesExpected[t] = 0
    <3>1. exclusiveAccessResponseCount = 0 /\ responsesExpected[t] = 0
      BY <1>1, <2>3, Zenon DEF ExpectInv
    <3> QED BY <2>3, <3>1
  <2>4. \/ AwaitVM(t, exclusiveAccessResponseCount + responsesExpected[t])
        \/ /\ AwaitJNI(t) /\ exclusiveAccessResponseCount' = 0
           /\ exclusiveAccessResponseCount + responsesExpected[t] = 0
    BY <2>3, Zenon DEF Await
  <2> QED BY <2>1, <2>2, <2>4, Zenon
<1>5. Engaged(t) /\ Engaged(t)' /\ exclusiveCount[t] > 0
  BY <1>1, <1>3, <1>4, Zenon DEF QueueInv, Engaged, ClaimLabel, OwnerLabel
<1>6. ASSUME NEW u \in Thread \ {t} PROVE Stays(u) /\ SameHalt(u) /\ todo'[u] = todo[u]
  BY <1>1, <1>3, <1>4, ZenonT(40) DEF Stays, SameHalt, OwnInNative, TypeOK, PlaceTypes, CountTypes
<1>7. Local(t)'
  <2>1. PcInv(t)' /\ NativeInv(t)'
    BY <1>1, <1>3, <1>4, Zenon DEF Local, PcInv, NativeInv, NativeCode, OwnInNative, Holding,
        Acquiring
  <2>2. AccessInv(t)' /\ CriticalInv(t)'
    BY <1>1, <1>3, <1>4, Zenon DEF Local, AccessInv, CriticalInv, RunsInVM, Acquiring, DeathLabel,
                            ClaimLabel, OwnerLabel
  <2>3. HaltInv(t)'
    BY <1>1, <1>3, <1>4, <1>5, Zenon DEF Local, HaltInv
  <2> QED BY <2>1, <2>2, <2>3, Zenon DEF Local
<1>8. /\ exclusiveAccessState' # "NONE" /\ StateInv(t)' /\ ExpectInv(t)' /\ TodoInv(t)'
      /\ exclusiveCount'[t] > 0 /\ linked' = linked
      /\ exclusiveVMAccessQueue' = exclusiveVMAccessQueue
  <2>1. exclusiveAccessState \in {"PENDING", "HANDED_OFF"}
    BY <1>1, <1>3, Zenon DEF StateInv, ClaimLabel
  <2>2. exclusiveAccessState' # "NONE" /\ StateInv(t)'
    BY <1>3, <1>4, <2>1, Zenon DEF StateInv, Handed, Acquiring, ClaimLabel, OwnerLabel
  <2>3. responsesExpected'[t] = 0
    BY <1>1, <1>3, Zenon DEF TypeOK, CountTypes
  <2>4. ExpectInv(t)' /\ TodoInv(t)'
    BY <1>4, <2>3, Zenon DEF ExpectInv, TodoInv, OwnerLabel
  <2> QED BY <1>3, <1>5, <2>2, <2>4, Zenon
<1>9. ASSUME NEW u \in Thread \ {t}
      PROVE  /\ AllAsked(t)' /\ u \in linked => Has(u, "HALT_EXCLUSIVE")'
             /\ AllCounted(t)' /\ RunsInVM(u) => ~Has(u, "NOT_COUNTED_BY_EXCLUSIVE")'
             /\ PostInv(t, u)' /\ CountInv(t, u)'
  BY <1>1, <1>3, <1>4, <1>6, Zenon DEF ProgressInv, AskedInv, PostInv, CountInv, AllAsked,
                                AllCounted, SameHalt, Halted
<1>10. /\ AwaitedResponders' = AwaitedResponders /\ AwaitedCriticals' = AwaitedCriticals
       /\ \A u \in Thread \ {t} :
            /\ HaltInv(u)' /\ (Has(u, "HALT_EXCLUSIVE") => Has(u, "HALT_EXCLUSIVE")')
            /\ pc'[u] \notin ClaimLabel \cup OwnerLabel
  BY <1>5, <1>6, <1>7, <1>8, EngagedAwaitedSame, Zenon DEF Local
<1>11. ResponsesAccounted'
  <2>1. /\ exclusiveAccessResponseCount + responsesExpected[t] = Cardinality(AwaitedResponders)
        /\ jniCriticalResponseCount + jniCriticalResponsesExpected[t] = Cardinality(AwaitedCriticals)
    BY <1>1, <1>3, Zenon DEF ResponsesAccounted, ClaimLabel
  <2>2. responsesExpected'[t] = 0 /\ exclusiveAccessState' # "HANDING_OFF"
    BY <1>1, <1>3, <1>4, Zenon DEF TypeOK, CountTypes, StateInv, ClaimLabel
  <2>3. exclusiveAccessResponseCount' + responsesExpected'[t] = Cardinality(AwaitedResponders')
    BY <1>2, <1>4, <1>10, <2>1, <2>2
  <2>4. jniCriticalResponseCount' + jniCriticalResponsesExpected'[t] = Cardinality(AwaitedCriticals')
    BY <1>4, <1>10, <2>1, Zenon
  <2> QED BY <1>10, <2>2, <2>3, <2>4, Zenon DEF ResponsesAccounted
<1> QED BY <1>5, <1>6, <1>7, <1>8, <1>9, <1>10, <1>11, EngagedStep, Zenon

-----------------------------------------------------------------------------
(* Threads that have nothing to do with the request. *)

USE DEF Has, Goto, ExitPfm, EnterPfm, WithFlags, bufferVars, flagVars, pfmVars, criticalVars,
        localVars, countVars, stateVars, vmVars, expectVars, requestVars

(* A step of a thread that has nothing to do with a request, which touches that
   thread alone and leaves it as much awaited as before, keeps the invariant. *)
LEMMA QuietStep ==
    ASSUME IInv, TypeOK', NEW t \in Thread, ~Engaged(t), ~Engaged(t)', ~Queued(t),
           UNCHANGED <<exclusiveVMAccessQueue, exclusiveAccessState, exclusiveAccessResponseCount,
                       jniCriticalResponseCount, exclusiveCount, expectVars>>,
           \A u \in Thread \ {t} : Stays(u) /\ SameHalt(u) /\ todo'[u] = todo[u],
           \A u \in Thread : TodoInv(u)',
           Local(t)', Responder(t)' <=> Responder(t), CriticalResponder(t)' <=> CriticalResponder(t),
           exclusiveAccessState = "NONE" => ~Has(t, "HALT_EXCLUSIVE")',
           \A v \in Thread \ {t} : ProgressInv(v, t)'
    PROVE  IInv'
<1>1. /\ TypeOK /\ QueueDistinct /\ ResponsesAccounted
      /\ \A u \in Thread : Local(u) /\ QueueInv(u) /\ StateInv(u) /\ ExpectInv(u) /\ TodoInv(u)
      /\ \A u, v \in Thread : u # v => ProgressInv(u, v)
  BY Zenon DEF IInv, Local
<1>2. \A u \in Thread : Queued(u)' <=> Queued(u)
  BY Zenon DEF Queued
<1>3. ASSUME NEW u \in Thread \ {t}
      PROVE  /\ RunsInVM(u)' <=> RunsInVM(u)
             /\ Engaged(u)' <=> Engaged(u)
             /\ Handed(u)' <=> Handed(u)
             /\ AllAsked(u)' <=> AllAsked(u)
             /\ AllCounted(u)' <=> AllCounted(u)
             /\ Responder(u)' <=> Responder(u)
             /\ CriticalResponder(u)' <=> CriticalResponder(u)
             /\ Local(u)' /\ QueueInv(u)'
  BY <1>1, <1>2, StaysLocal, StaysSame, Zenon DEF Local
<1>4. QueueInv(t)'
  BY <1>1, <1>2, Zenon DEF QueueInv
<1>5. ASSUME NEW u \in Thread PROVE StateInv(u)' /\ ExpectInv(u)'
  <2>1. CASE u = t
    BY <1>1, <1>2, <2>1, Zenon DEF StateInv, ExpectInv, Engaged, ClaimLabel, OwnerLabel
  <2>2. CASE u # t
    <3>1. pc'[u] = pc[u] /\ (Has(u, "HALT_EXCLUSIVE")' <=> Has(u, "HALT_EXCLUSIVE"))
      BY <2>2, Zenon DEF Stays, SameHalt, Halted
    <3>2. StateInv(u)'
      BY <1>1, <1>2, <1>3, <2>2, <3>1, Zenon DEF StateInv
    <3>3. ExpectInv(u)'
      BY <1>1, <2>2, <3>1, Zenon DEF ExpectInv
    <3> QED BY <3>2, <3>3, Zenon
  <2> QED BY <2>1, <2>2, Zenon
<1>6. ASSUME NEW u \in Thread, NEW v \in Thread, u # v PROVE ProgressInv(u, v)'
  <2>1. CASE u = t
    BY <1>6, <2>1, IdleProgress, Zenon
  <2>2. CASE v = t
    BY <1>6, <2>2, Zenon
  <2>3. CASE u # t /\ v # t
    <3>1. /\ pc'[u] = pc[u] /\ todo'[u] = todo[u]
          /\ v \in linked' <=> v \in linked
          /\ \A f : Has(v, f)' <=> Has(v, f)
          /\ storeBuffer[v] = <<>> => storeBuffer'[v] = <<>>
      BY <2>3, Zenon DEF Stays, SameHalt
    <3>2. AskedInv(u, v)'
      BY <1>1, <1>3, <1>6, <2>3, <3>1, Zenon DEF ProgressInv, AskedInv
    <3>3. PostInv(u, v)'
      BY <1>1, <1>3, <1>6, <2>3, <3>1, Zenon DEF ProgressInv, PostInv
    <3>4. CountInv(u, v)'
      BY <1>1, <1>3, <1>6, <2>3, <3>1, Zenon DEF ProgressInv, CountInv
    <3> QED BY <3>2, <3>3, <3>4, Zenon DEF ProgressInv
  <2> QED BY <2>1, <2>2, <2>3, Zenon
<1>7. QueueDistinct'
  BY <1>1, Zenon DEF QueueDistinct
<1>8. ResponsesAccounted'
  <2>1. AwaitedResponders' = AwaitedResponders /\ AwaitedCriticals' = AwaitedCriticals
    BY <1>3, AwaitedSame, Zenon
  <2>2. \A u \in Thread : pc'[u] \in ClaimLabel \cup OwnerLabel => pc[u] \in ClaimLabel \cup OwnerLabel
    BY Zenon DEF Stays, Engaged
  <2> QED BY <1>1, <2>1, <2>2, Zenon DEF ResponsesAccounted
<1>9. \A u \in Thread : /\ PcInv(u)' /\ NativeInv(u)' /\ AccessInv(u)' /\ CriticalInv(u)'
                        /\ HaltInv(u)' /\ QueueInv(u)' /\ StateInv(u)' /\ ExpectInv(u)'
                        /\ TodoInv(u)'
  BY <1>3, <1>4, <1>5, Zenon DEF Local
<1> QED BY <1>6, <1>7, <1>8, <1>9, Zenon DEF IInv

(* Waking a thread whose flags were cleared keeps the invariant ... *)
LEMMA NotifyKeeps ==
    ASSUME IInv, TypeOK', NEW t \in Thread, NEW w \in Thread, Notify(t, w)
    PROVE  IInv'
<1>1. /\ TypeOK /\ StateInv(t)
      /\ \A u \in Thread : Local(u) /\ QueueInv(u) /\ TodoInv(u)
      /\ \A u \in Thread \ {t} : ProgressInv(u, t)
  BY Zenon DEF IInv, Local
<1>2. /\ pc[t] = "notify"
      /\ UNCHANGED <<vmVars, flagVars, pfm, localVars, exclusiveVMAccessQueue, vmThreadListMutex,
                     exclusiveCount, expectVars>>
      /\ \A u \in Thread \ {t} : todo'[u] = todo[u]
  BY <1>1, Zenon DEF Notify, TypeOK, RequestTypes
<1>3. ~Engaged(t) /\ ~Engaged(t)' /\ ~Queued(t)
  BY <1>1, <1>2, Zenon DEF Engaged, Handed, QueueInv, Acquiring, ClaimLabel, OwnerLabel
<1>4. \A u \in Thread \ {t} : Stays(u) /\ SameHalt(u)
  BY <1>2, Zenon DEF Stays, SameHalt, OwnInNative
<1>5. \A u \in Thread : TodoInv(u)'
  BY <1>1, <1>2, Zenon DEF TodoInv
<1>6. Local(t)'
  BY <1>1, <1>2, <1>3, Zenon DEF Local, PcInv, NativeInv, NativeCode, OwnInNative, AccessInv,
        RunsInVM, CriticalInv, HaltInv
<1>7. (Responder(t)' <=> Responder(t)) /\ (CriticalResponder(t)' <=> CriticalResponder(t))
  BY <1>2, Zenon DEF Responder, CriticalResponder, MustRespond
<1>8. \A v \in Thread \ {t} : ProgressInv(v, t)'
  BY <1>1, <1>2, <1>3, <1>7, ZenonT(40) DEF ProgressInv, AskedInv, PostInv, CountInv, AllAsked,
      AllCounted, Handed,
        Queued, RunsInVM
<1>9. exclusiveAccessState = "NONE" => ~Has(t, "HALT_EXCLUSIVE")'
  BY <1>1, <1>2, Zenon DEF StateInv
<1> QED BY <1>2, <1>3, <1>4, <1>5, <1>6, <1>7, <1>8, <1>9, QuietStep, Zenon

(* ... as does the end of releaseExclusiveVMAccess. *)
LEMMA NotifyEndKeeps ==
    ASSUME IInv, TypeOK', NEW t \in Thread, NotifyEnd(t)
    PROVE  IInv'
<1>1. /\ TypeOK /\ StateInv(t)
      /\ \A u \in Thread : Local(u) /\ QueueInv(u) /\ TodoInv(u)
      /\ \A u \in Thread \ {t} : ProgressInv(u, t)
  BY Zenon DEF IInv, Local
<1>2. /\ pc[t] = "notify" /\ pc'[t] = "vm"
      /\ vmThreadListMutex = t /\ vmThreadListMutex' = NoThread
      /\ UNCHANGED <<vmVars, flagVars, pfmVars, ret, criticalVars, exclusiveVMAccessQueue,
                     exclusiveCount, todo, expectVars>>
      /\ \A u \in Thread \ {t} : pc'[u] = pc[u]
  BY <1>1, Zenon DEF NotifyEnd, TypeOK, PlaceTypes, Local, PcInv
<1>3. ~Engaged(t) /\ ~Engaged(t)' /\ ~Queued(t)
  BY <1>1, <1>2, Zenon DEF Engaged, Handed, QueueInv, Acquiring, ClaimLabel, OwnerLabel
<1>4. \A u \in Thread \ {t} : Stays(u) /\ SameHalt(u)
  BY <1>2, ThreadAssumption, Zenon DEF Stays, SameHalt, OwnInNative
<1>5. \A u \in Thread : TodoInv(u)'
  BY <1>1, <1>2, Zenon DEF TodoInv
<1>6. Local(t)'
  BY <1>1, <1>2, <1>3, ThreadAssumption, Zenon DEF Local, PcInv, NativeInv, NativeCode, OwnInNative,
        AccessInv, RunsInVM, CriticalInv, HaltInv, Holding, Acquiring, DeathLabel
<1>7. (Responder(t)' <=> Responder(t)) /\ (CriticalResponder(t)' <=> CriticalResponder(t))
  BY <1>2, Zenon DEF Responder, CriticalResponder, MustRespond
<1>8. RunsInVM(t)' /\ RunsInVM(t)
  BY <1>2, Zenon DEF RunsInVM
<1>9. \A v \in Thread \ {t} : ProgressInv(v, t)'
  BY <1>1, <1>2, <1>3, <1>7, <1>8, Zenon DEF ProgressInv, AskedInv, PostInv, CountInv, AllAsked,
      AllCounted,
        Handed, Queued
<1>10. exclusiveAccessState = "NONE" => ~Has(t, "HALT_EXCLUSIVE")'
  BY <1>1, <1>2, Zenon DEF StateInv
<1> QED BY <1>2, <1>3, <1>4, <1>5, <1>6, <1>7, <1>9, <1>10, QuietStep, Zenon

(* A thread created while a request is under way is halted before it can run. *)
LEMMA AllocateVMThreadKeeps ==
    ASSUME IInv, TypeOK', NEW t \in Thread, AllocateVMThread(t)
    PROVE  IInv'
<1>1. /\ TypeOK
      /\ \A u \in Thread : Local(u) /\ QueueInv(u) /\ TodoInv(u) /\ StateInv(u)
      /\ \A u \in Thread \ {t} : ProgressInv(u, t)
  BY Zenon DEF IInv, Local
<1>2. /\ pc[t] = "dead" /\ pc'[t] = "released"
      /\ vmThreadListMutex = NoThread /\ linked' = linked \cup {t}
      /\ UNCHANGED <<countVars, stateVars, eamWaiting, bufferVars, pfmVars, ret, criticalVars,
                     requestVars>>
      /\ \A u \in Thread \ {t} : pc'[u] = pc[u] /\ publicFlags'[u] = publicFlags[u]
  BY <1>1, Zenon DEF AllocateVMThread, TypeOK, PlaceTypes, FlagTypes
<1>3. /\ \A f : Has(t, f)' => f \in {"HALT_EXCLUSIVE", "HALTED_AT_SAFE_POINT"}
      /\ Has(t, "HALT_EXCLUSIVE")' <=> exclusiveAccessState # "NONE"
      /\ \A f : Has(t, f) => f = "HALT_INSPECTION"
      /\ ~Has(t, "VM_ACCESS")' /\ ~Has(t, "NOT_COUNTED_BY_EXCLUSIVE")'
      /\ ~Has(t, "JNI_CRITICAL_ACCESS")' /\ ~Has(t, "JNI_CRITICAL_REGION")'
  BY <1>1, <1>2, Zenon DEF AllocateVMThread, Local, PcInv, TypeOK, FlagTypes
<1>4. ~Engaged(t) /\ ~Engaged(t)' /\ ~Queued(t)
  BY <1>1, <1>2, Zenon DEF Engaged, Handed, QueueInv, Acquiring, ClaimLabel, OwnerLabel
<1>5. \A u \in Thread \ {t} : Stays(u) /\ SameHalt(u)
  BY <1>2, Zenon DEF Stays, SameHalt, OwnInNative
<1>6. \A u \in Thread : pc'[u] \notin {"post", "count"} /\ TodoInv(u)'
  BY <1>1, <1>2, ThreadAssumption, Zenon DEF Local, PcInv, TodoInv
<1>7. Local(t)'
  <2>1. PcInv(t)'
    BY <1>1, <1>2, Zenon DEF Local, PcInv, Holding, Acquiring
  <2>2. NativeInv(t)'
    BY <1>1, <1>2, Zenon DEF Local, NativeInv, NativeCode, OwnInNative
  <2>3. AccessInv(t)'
    BY <1>2, <1>3, Zenon DEF AccessInv, RunsInVM, Acquiring, DeathLabel, ClaimLabel, OwnerLabel
  <2>4. CriticalInv(t)' /\ HaltInv(t)'
    BY <1>1, <1>2, <1>3, <1>4, Zenon DEF Local, CriticalInv, HaltInv, Acquiring
  <2> QED BY <2>1, <2>2, <2>3, <2>4, Zenon DEF Local
<1>8. /\ ~Responder(t)' /\ ~Responder(t) /\ ~CriticalResponder(t)' /\ ~CriticalResponder(t)
      /\ ~RunsInVM(t)'
  BY <1>2, <1>3, Zenon DEF Responder, CriticalResponder, MustRespond, RunsInVM, ClaimLabel,
      OwnerLabel
<1>9. ASSUME NEW v \in Thread \ {t} PROVE ProgressInv(v, t)'
  <2>1. AllAsked(v)' => exclusiveAccessState # "NONE"
    BY <1>1, <1>2, Zenon DEF StateInv, AllAsked, Engaged, Handed, Queued, ClaimLabel, OwnerLabel
  <2>2. AskedInv(v, t)'
    BY <1>2, <1>3, <1>4, <1>8, <2>1, Zenon DEF AskedInv
  <2>3. PostInv(v, t)' /\ CountInv(v, t)'
    BY <1>3, <1>6, <1>8, Zenon DEF PostInv, CountInv
  <2> QED BY <2>2, <2>3, Zenon DEF ProgressInv
<1> QED BY <1>2, <1>3, <1>4, <1>5, <1>6, <1>7, <1>8, <1>9, QuietStep, Zenon

(* A thread leaves the list only when no request is under way. *)
LEMMA DeallocateVMThreadKeeps ==
    ASSUME IInv, TypeOK', NEW t \in Thread, DeallocateVMThread(t)
    PROVE  IInv'
<1>1. /\ TypeOK
      /\ \A u \in Thread : Local(u) /\ QueueInv(u) /\ TodoInv(u) /\ StateInv(u)
      /\ \A u \in Thread \ {t} : ProgressInv(u, t)
  BY Zenon DEF IInv, Local
<1>2. /\ pc[t] = "unlink" /\ pc'[t] = "dead"
      /\ vmThreadListMutex = NoThread /\ linked' = linked \ {t}
      /\ UNCHANGED <<countVars, stateVars, eamWaiting, bufferVars, pfmVars, ret, criticalVars,
                     requestVars>>
      /\ \A u \in Thread \ {t} : pc'[u] = pc[u] /\ publicFlags'[u] = publicFlags[u]
      /\ publicFlags'[t] = {"HALT_INSPECTION"}
  BY <1>1, Zenon DEF DeallocateVMThread, TypeOK, PlaceTypes, FlagTypes
<1>3. ~Has(t, "VM_ACCESS") /\ ~Has(t, "JNI_CRITICAL_ACCESS")
  BY <1>1, <1>2, Zenon DEF Local, AccessInv, CriticalInv, DeathLabel
<1>4. ~Engaged(t) /\ ~Engaged(t)' /\ ~Queued(t)
  BY <1>1, <1>2, Zenon DEF Engaged, Handed, QueueInv, Acquiring, ClaimLabel, OwnerLabel
<1>5. \A u \in Thread \ {t} : Stays(u) /\ SameHalt(u)
  BY <1>2, Zenon DEF Stays, SameHalt, OwnInNative
<1>6. \A u \in Thread : pc'[u] \notin {"post", "count"} /\ TodoInv(u)'
  BY <1>1, <1>2, ThreadAssumption, ZenonT(40) DEF Local, PcInv, TodoInv
<1>7. Local(t)'
  BY <1>1, <1>2, <1>4, Zenon DEF Local, PcInv, NativeInv, NativeCode, OwnInNative,
        AccessInv, RunsInVM, CriticalInv, HaltInv, Holding, Acquiring, DeathLabel, ClaimLabel,
        OwnerLabel
<1>8. /\ ~Responder(t)' /\ ~Responder(t) /\ ~CriticalResponder(t)' /\ ~CriticalResponder(t)
      /\ ~RunsInVM(t)'
  BY <1>2, <1>3, Zenon DEF Responder, CriticalResponder, MustRespond, RunsInVM, ClaimLabel,
      OwnerLabel
<1>9. ASSUME NEW v \in Thread \ {t} PROVE ProgressInv(v, t)'
  BY <1>2, <1>4, <1>6, <1>8, Zenon DEF ProgressInv, AskedInv, PostInv, CountInv
<1> QED BY <1>2, <1>4, <1>5, <1>6, <1>7, <1>8, <1>9, QuietStep, Zenon

(* Waiting to die is, to everybody else, a step like those of VMAccess. *)
LEMMA DeallocateWaitKeeps ==
    ASSUME ThreadsCounted, IInv, TypeOK', NEW t \in Thread, DeallocateWait(t)
    PROVE  IInv'
<1>1. TypeOK /\ Local(t) /\ QueueInv(t)
  BY Zenon DEF IInv, Local
<1>2. /\ pc[t] \in {"released", "dying"} /\ pc'[t] \in {"dying", "unlink"}
      /\ ~Has(t, "JNI_CRITICAL_REGION")
      /\ UNCHANGED <<linked, countVars, stateVars, flagVars, pfmVars, ret, criticalVars, requestVars>>
      /\ \A u \in Thread \ {t} : pc'[u] = pc[u]
  BY <1>1, Zenon DEF DeallocateWait, TypeOK, PlaceTypes, Local, CriticalInv
<1>3. Frame(t)
  BY <1>2, Zenon DEF Frame
<1>4. Kept(t) /\ StaysOut(t)
  BY <1>1, <1>2, Zenon DEF Kept, StaysOut, Unengaged, RequestLabel, Handed, Queued, QueueInv,
        RunsInVM, Acquiring, ClaimLabel, OwnerLabel
<1>5. Responds(t) /\ RespondsCritical(t)
  BY <1>2, Zenon DEF Responds, RespondsCritical, Responder, CriticalResponder, MustRespond
<1>6. Local(t)'
  <2>1. PcInv(t)'
    BY <1>1, <1>2, Zenon DEF Local, PcInv, Holding, Acquiring
  <2>2. NativeInv(t)'
    BY <1>1, <1>2, Zenon DEF Local, NativeInv, NativeCode, OwnInNative
  <2>3. AccessInv(t)'
    BY <1>1, <1>2, Zenon DEF Local, AccessInv, RunsInVM, Acquiring, DeathLabel, ClaimLabel,
        OwnerLabel
  <2>4. CriticalInv(t)' /\ HaltInv(t)'
    BY <1>1, <1>2, Zenon DEF Local, CriticalInv, HaltInv, Engaged, Handed, Acquiring, ClaimLabel,
        OwnerLabel
  <2> QED BY <2>1, <2>2, <2>3, <2>4, Zenon DEF Local
<1> QED BY <1>3, <1>4, <1>5, <1>6, AccessKeepsIInv, Zenon DEF AccessEffect

-----------------------------------------------------------------------------
(* The first request, the queue, the hand-over and the release. *)

(* While one thread has exclusive access no other runs in the VM or holds
   pointers into the heap, and no response is outstanding. *)
LEMMA OwnerAlone ==
    ASSUME ThreadsCounted, IInv, NEW t \in Thread, pc[t] \in OwnerLabel
    PROVE  /\ AwaitedResponders = {} /\ AwaitedCriticals = {}
           /\ \A u \in Thread \ {t} :
                /\ ~RunsInVM(u) /\ ~Has(u, "JNI_CRITICAL_ACCESS")
                /\ u \in linked => Has(u, "HALT_EXCLUSIVE")
<1>1. /\ ResponsesAccounted /\ ExpectInv(t)
      /\ \A u \in Thread : AccessInv(u) /\ PcInv(u) /\ HaltInv(u)
      /\ \A u \in Thread \ {t} : AskedInv(t, u)
  BY Zenon DEF IInv, ProgressInv
<1>2. Cardinality(AwaitedResponders) = 0 /\ Cardinality(AwaitedCriticals) = 0
  BY <1>1 DEF ResponsesAccounted, ExpectInv, OwnerLabel
<1>3. AwaitedResponders = {} /\ AwaitedCriticals = {}
  BY <1>2, AwaitedCounted, Zenon
<1>4. ASSUME NEW u \in Thread \ {t} PROVE u \in linked => Has(u, "HALT_EXCLUSIVE")
  BY <1>1, Zenon DEF AskedInv, AllAsked
<1>5. ASSUME NEW u \in Thread \ {t} PROVE ~RunsInVM(u)
  <2>1. RunsInVM(u) => u \in linked /\ Has(u, "VM_ACCESS") /\ ~Has(u, "NOT_COUNTED_BY_EXCLUSIVE")
    BY <1>1, Zenon DEF RunsInVM, PcInv, AccessInv, AskedInv, AllAsked, AllCounted, ClaimLabel,
        OwnerLabel
  <2>2. RunsInVM(u) => Responder(u)
    BY <1>4, <2>1, Zenon DEF Responder, MustRespond
  <2> QED BY <1>3, <2>2, Zenon DEF AwaitedResponders
<1>6. ASSUME NEW u \in Thread \ {t} PROVE ~Has(u, "JNI_CRITICAL_ACCESS")
  <2>1. pc[u] # "criticalCount"
    BY <1>5, Zenon DEF RunsInVM
  <2>2. Has(u, "JNI_CRITICAL_ACCESS") => u \in linked
    BY <1>1, Zenon DEF PcInv
  <2>3. Has(u, "JNI_CRITICAL_ACCESS") => CriticalResponder(u)
    BY <1>4, <2>1, <2>2, Zenon DEF CriticalResponder
  <2> QED BY <1>3, <2>3, Zenon DEF AwaitedCriticals
<1> QED BY <1>3, <1>4, <1>5, <1>6, Zenon

(* Nobody is on the way to a response while one thread has exclusive access. *)
LEMMA OwnerNoResponses ==
    ASSUME ThreadsCounted, IInv, NEW t \in Thread, pc[t] \in OwnerLabel, NEW u \in Thread
    PROVE  /\ ~Responder(u) /\ ~CriticalResponder(u)
           /\ pc[u] \notin {"acquireRespond", "criticalCount", "criticalExitRespond"}
<1>1. ~Responder(u) /\ ~CriticalResponder(u)
  BY OwnerAlone, Zenon DEF AwaitedResponders, AwaitedCriticals
<1>2. HaltInv(u)
  BY Zenon DEF IInv
<1>3. pc[u] \notin {"acquireRespond", "criticalExitRespond"}
  BY <1>1, <1>2, Zenon DEF CriticalResponder, HaltInv
<1>4. pc[u] # "criticalCount"
  BY OwnerAlone, Zenon DEF RunsInVM, OwnerLabel
<1> QED BY <1>1, <1>3, <1>4, Zenon

(* The fence in front of a request does not change what a thread reads back of its
   own inNative. *)
LEMMA FencedOwn ==
    ASSUME BufferTypes, NEW t \in Thread, Drained(t)
    PROVE  OwnInNative(t)' = OwnInNative(t)
BY Zenon DEF BufferTypes, Drained, OwnInNative

(* The queue of requesters: joining it at the end ... *)
LEMMA AppendQueued ==
    ASSUME NEW t \in Thread, exclusiveVMAccessQueue \in Seq(Thread), QueueDistinct, ~Queued(t),
           exclusiveVMAccessQueue' = Append(exclusiveVMAccessQueue, t)
    PROVE  /\ Queued(t)' /\ QueueDistinct'
           /\ \A u \in Thread \ {t} : Queued(u)' <=> Queued(u)
<1> DEFINE q == exclusiveVMAccessQueue
<1>1. /\ q' \in Seq(Thread) /\ Len(q') = Len(q) + 1 /\ Len(q) \in Nat
      /\ \A i \in 1..Len(q) : q'[i] = q[i]
      /\ q'[Len(q) + 1] = t
      /\ DOMAIN q = 1..Len(q) /\ DOMAIN q' = 1..(Len(q) + 1)
  OBVIOUS
<1> HIDE DEF q
<1>2. /\ \A u \in Thread : Queued(u) <=> \E i \in 1..Len(q) : q[i] = u
      /\ \A u \in Thread : Queued(u)' <=> \E i \in 1..(Len(q) + 1) : q'[i] = u
      /\ \A i, j \in 1..Len(q) : q[i] = q[j] => i = j
  BY <1>1, Zenon DEF Queued, QueueDistinct, q
<1>3. Queued(t)'
  <2>1. Len(q) + 1 \in 1..(Len(q) + 1)
    BY <1>1
  <2> QED BY <1>1, <1>2, <2>1, Zenon
<1>4. ASSUME NEW u \in Thread \ {t} PROVE Queued(u)' <=> Queued(u)
  <2>1. ASSUME NEW i \in 1..Len(q), q[i] = u PROVE Queued(u)'
    <3>1. i \in 1..(Len(q) + 1) /\ q'[i] = u
      BY <1>1, <2>1
    <3> QED BY <1>2, <3>1, Zenon
  <2>2. ASSUME NEW i \in 1..(Len(q) + 1), q'[i] = u PROVE Queued(u)
    <3>1. i \in 1..Len(q) /\ q[i] = u
      BY <1>1, <2>2
    <3> QED BY <1>2, <3>1, Zenon
  <2> QED BY <1>2, <2>1, <2>2, Zenon
<1>5. ASSUME NEW i \in 1..(Len(q) + 1), NEW j \in 1..(Len(q) + 1), q'[i] = q'[j] PROVE i = j
  <2>1. /\ i \in 1..Len(q) => q'[i] = q[i]
        /\ j \in 1..Len(q) => q'[j] = q[j]
        /\ i \in 1..Len(q) \/ i = Len(q) + 1
        /\ j \in 1..Len(q) \/ j = Len(q) + 1
    BY <1>1
  <2>2. \A k \in 1..Len(q) : q[k] # t
    BY <1>2, Zenon
  <2> QED BY <1>1, <1>2, <1>5, <2>1, <2>2, Zenon
<1>6. QueueDistinct'
  BY <1>1, <1>5, Zenon DEF QueueDistinct, q
<1> QED BY <1>3, <1>4, <1>6, Zenon

(* ... and leaving it at the head. *)
LEMMA TailQueued ==
    ASSUME exclusiveVMAccessQueue \in Seq(Thread), QueueDistinct, exclusiveVMAccessQueue # <<>>,
           exclusiveVMAccessQueue' = Tail(exclusiveVMAccessQueue)
    PROVE  /\ Head(exclusiveVMAccessQueue) \in Thread /\ QueueDistinct'
           /\ Queued(Head(exclusiveVMAccessQueue))
           /\ \A u \in Thread : Queued(u)' <=> Queued(u) /\ u # Head(exclusiveVMAccessQueue)
<1> DEFINE q == exclusiveVMAccessQueue
<1>1. /\ q' \in Seq(Thread) /\ Len(q') = Len(q) - 1 /\ Len(q) \in Nat \ {0}
      /\ \A i \in 1..(Len(q) - 1) : q'[i] = q[i + 1]
      /\ Head(q) = q[1] /\ Head(q) \in Thread
      /\ DOMAIN q = 1..Len(q) /\ DOMAIN q' = 1..(Len(q) - 1)
  OBVIOUS
<1> HIDE DEF q
<1>2. /\ \A u \in Thread : Queued(u) <=> \E i \in 1..Len(q) : q[i] = u
      /\ \A u \in Thread : Queued(u)' <=> \E i \in 1..(Len(q) - 1) : q'[i] = u
      /\ \A i, j \in 1..Len(q) : q[i] = q[j] => i = j
  BY <1>1, Zenon DEF Queued, QueueDistinct, q
<1>3. Queued(Head(q))
  <2>1. 1 \in 1..Len(q)
    BY <1>1
  <2> QED BY <1>1, <1>2, <2>1, Zenon
<1>4. ASSUME NEW u \in Thread PROVE Queued(u)' <=> Queued(u) /\ u # Head(q)
  <2>1. ASSUME NEW i \in 1..(Len(q) - 1), q'[i] = u PROVE Queued(u) /\ u # Head(q)
    <3>1. i + 1 \in 1..Len(q) /\ 1 \in 1..Len(q) /\ i + 1 # 1 /\ q[i + 1] = u
      BY <1>1, <2>1
    <3>2. Queued(u) /\ u # q[1]
      BY <1>2, <3>1, Zenon
    <3> QED BY <1>1, <3>2, Zenon
  <2>2. ASSUME NEW i \in 1..Len(q), q[i] = u, u # Head(q) PROVE Queued(u)'
    <3>1. i - 1 \in 1..(Len(q) - 1) /\ q'[i - 1] = u
      BY <1>1, <2>2
    <3> QED BY <1>2, <3>1, Zenon
  <2> QED BY <1>2, <2>1, <2>2, Zenon
<1>5. ASSUME NEW i \in 1..(Len(q) - 1), NEW j \in 1..(Len(q) - 1), q'[i] = q'[j] PROVE i = j
  <2>1. i + 1 \in 1..Len(q) /\ j + 1 \in 1..Len(q) /\ q[i + 1] = q[j + 1]
    BY <1>1, <1>5
  <2>2. i + 1 = j + 1
    BY <1>2, <2>1, Zenon
  <2> QED BY <2>2
<1>6. QueueDistinct'
  BY <1>1, <1>5, Zenon DEF QueueDistinct, q
<1> QED BY <1>1, <1>3, <1>4, <1>6, Zenon DEF q

(* The first requester: nobody is halted, and nobody is awaited yet. *)
LEMMA AcquireExclusiveFirstKeeps ==
    ASSUME ThreadsCounted, IInv, TypeOK', NEW t \in Thread, AcquireExclusiveFirst(t)
    PROVE  IInv'
<1>1. /\ TypeOK /\ QueueDistinct
      /\ \A u \in Thread : Local(u) /\ QueueInv(u) /\ StateInv(u) /\ ExpectInv(u) /\ TodoInv(u)
  BY Zenon DEF IInv, Local
<1>2. /\ pc[t] = "vm" /\ pc'[t] = "postList" /\ pfm[t] = NoThread
      /\ exclusiveAccessState = "NONE" /\ exclusiveAccessState' = "PENDING"
      /\ exclusiveAccessResponseCount' = 0 /\ jniCriticalResponseCount' = 0
      /\ exclusiveCount'[t] = 1
      /\ UNCHANGED <<linked, pfmVars, ret, criticalVars, exclusiveVMAccessQueue, vmThreadListMutex,
                     todo, expectVars>>
      /\ \A f : f # "NOT_AT_SAFE_POINT" => (Has(t, f)' <=> Has(t, f))
      /\ OwnInNative(t)' = OwnInNative(t)
      /\ \A u \in Thread \ {t} : /\ pc'[u] = pc[u] /\ publicFlags'[u] = publicFlags[u]
                                 /\ exclusiveCount'[u] = exclusiveCount[u]
                                 /\ inNative'[u] = inNative[u] /\ storeBuffer'[u] = storeBuffer[u]
  BY <1>1, FencedOwn, Zenon DEF AcquireExclusiveFirst, Drained, TypeOK, PlaceTypes, FlagTypes,
        CountTypes, BufferTypes
<1>3. \A u \in Thread : /\ ~Engaged(u) /\ ~Queued(u) /\ ~Has(u, "HALT_EXCLUSIVE")
                        /\ ~Has(u, "NOT_COUNTED_BY_EXCLUSIVE")
  BY <1>1, <1>2, Zenon DEF StateInv, Local, HaltInv
<1>4. \A u \in Thread : ~Queued(u)'
  BY <1>2, <1>3, Zenon DEF Queued
<1>5. \A u \in Thread \ {t} : Stays(u) /\ SameHalt(u)
  BY <1>2, Zenon DEF Stays, SameHalt, OwnInNative
<1>6. ASSUME NEW u \in Thread \ {t}
      PROVE  Local(u)' /\ QueueInv(u)' /\ ~Engaged(u)'
  BY <1>1, <1>3, <1>4, <1>5, StaysLocal, StaysSame, Zenon DEF Local
<1>7. Engaged(t)' /\ ~Has(t, "HALT_EXCLUSIVE")' /\ ~Has(t, "NOT_COUNTED_BY_EXCLUSIVE")'
  BY <1>2, <1>3, ZenonT(40) DEF Engaged, ClaimLabel
<1>8. Local(t)'
  <2>1. PcInv(t)'
    BY <1>1, <1>2, Zenon DEF Local, PcInv, Holding, Acquiring
  <2>2. NativeInv(t)'
    BY <1>1, <1>2, Zenon DEF Local, NativeInv, NativeCode
  <2>3. AccessInv(t)'
    BY <1>1, <1>2, Zenon DEF Local, AccessInv, RunsInVM, Acquiring, DeathLabel
  <2>4. CriticalInv(t)' /\ HaltInv(t)'
    BY <1>1, <1>2, <1>7, Zenon DEF Local, CriticalInv, HaltInv, Acquiring
  <2> QED BY <2>1, <2>2, <2>3, <2>4, Zenon DEF Local
<1>9. QueueInv(t)'
  BY <1>2, <1>4, <1>7 DEF QueueInv
<1>10. ASSUME NEW u \in Thread PROVE StateInv(u)' /\ ExpectInv(u)' /\ TodoInv(u)'
  <2>1. CASE u = t
    BY <1>1, <1>2, <2>1, Zenon DEF StateInv, ExpectInv, TodoInv, Handed, Acquiring, ClaimLabel,
        OwnerLabel
  <2>2. CASE u # t
    <3>1. pc'[u] = pc[u] /\ pc[u] \notin ClaimLabel \cup OwnerLabel /\ ~Handed(u)'
      BY <1>2, <1>3, <1>6, <2>2, Zenon DEF Engaged
    <3>2. StateInv(u)'
      BY <1>2, <3>1, Zenon DEF StateInv, ClaimLabel
    <3>3. ExpectInv(u)' /\ TodoInv(u)'
      BY <1>1, <1>2, <3>1, Zenon DEF ExpectInv, TodoInv, ClaimLabel, OwnerLabel
    <3> QED BY <3>2, <3>3, Zenon
  <2> QED BY <2>1, <2>2, Zenon
<1>11. \A u \in Thread : ~Responder(u)' /\ ~CriticalResponder(u)'
                         /\ ~Has(u, "NOT_COUNTED_BY_EXCLUSIVE")'
  BY <1>2, <1>3, <1>7, Zenon DEF Responder, CriticalResponder, MustRespond
<1>12. ASSUME NEW u \in Thread, NEW v \in Thread, u # v PROVE ProgressInv(u, v)'
  <2>1. CASE u # t
    BY <1>6, <1>12, <2>1, IdleProgress, Zenon
  <2>2. CASE u = t
    BY <1>2, <1>6, <1>11, <1>12, <2>2, Zenon DEF ProgressInv, AskedInv, PostInv, CountInv, AllAsked,
        AllCounted,
          Handed, Acquiring, OwnerLabel
  <2> QED BY <2>1, <2>2, Zenon
<1>13. QueueDistinct'
  BY <1>1, <1>2, Zenon DEF QueueDistinct
<1>14. ResponsesAccounted'
  <2>1. AwaitedResponders' = {} /\ AwaitedCriticals' = {}
    BY <1>11, Zenon DEF AwaitedResponders, AwaitedCriticals
  <2>2. Cardinality(AwaitedResponders') = 0 /\ Cardinality(AwaitedCriticals') = 0
    BY <2>1, AwaitedCounted, Zenon
  <2>3. \A u \in Thread : pc'[u] \in ClaimLabel \cup OwnerLabel => u = t
    BY <1>6, Zenon DEF Engaged
  <2>4. responsesExpected'[t] = 0 /\ jniCriticalResponsesExpected'[t] = 0
    BY <1>1, <1>2, Zenon DEF ExpectInv
  <2> QED BY <1>2, <2>2, <2>3, <2>4 DEF ResponsesAccounted
<1>15. \A u \in Thread : Local(u)' /\ QueueInv(u)' /\ StateInv(u)' /\ ExpectInv(u)' /\ TodoInv(u)'
  BY <1>6, <1>8, <1>9, <1>10, Zenon
<1> QED BY <1>12, <1>13, <1>14, <1>15, Zenon DEF IInv, Local

(* The owner hands over: it is the one thread the next requester awaits, and
   every other thread is still halted. *)
LEMMA HandOffKeeps ==
    ASSUME ThreadsCounted, IInv, TypeOK', NEW t \in Thread, HandOff(t)
    PROVE  IInv'
<1>1. /\ TypeOK /\ QueueDistinct
      /\ \A u \in Thread : Local(u) /\ QueueInv(u) /\ StateInv(u) /\ ExpectInv(u) /\ TodoInv(u)
      /\ \A u \in Thread \ {t} : ~Engaged(u)
  BY Zenon DEF IInv, Local, HandOff, ProgressInv, AskedInv, Engaged, OwnerLabel
<1>2. PICK next \in Thread :
        /\ next = Head(exclusiveVMAccessQueue) /\ Queued(next) /\ QueueDistinct'
        /\ \A u \in Thread : Queued(u)' <=> Queued(u) /\ u # next
  BY <1>1, TailQueued, Zenon DEF HandOff, TypeOK, RequestTypes
<1>3. /\ pc[t] = "exclusive" /\ pc[t] \in OwnerLabel /\ Engaged(t)
      /\ ~Queued(t) /\ next # t
  BY <1>1, <1>2, ZenonT(40) DEF HandOff, Engaged, OwnerLabel, QueueInv, Acquiring
<1>4. /\ pc'[t] = "notify" /\ exclusiveCount'[t] = 0
      /\ exclusiveAccessState' = "HANDING_OFF"
      /\ jniCriticalResponseCount' = IF Has(t, "JNI_CRITICAL_ACCESS") THEN 0 ELSE -1
      /\ UNCHANGED <<linked, exclusiveAccessResponseCount, bufferVars, pfmVars, ret, criticalVars,
                     vmThreadListMutex, expectVars>>
      /\ \A u \in Thread \ {t} : /\ pc'[u] = pc[u] /\ exclusiveCount'[u] = exclusiveCount[u]
                                 /\ todo'[u] = todo[u]
      /\ \A u \in Thread \ {t, next} : publicFlags'[u] = publicFlags[u]
      /\ publicFlags'[next] = publicFlags[next] \ Halted
      /\ publicFlags'[t] = (publicFlags[t] \ {"NOT_AT_SAFE_POINT"}) \cup {"HALT_EXCLUSIVE"}
  BY <1>1, <1>2, <1>3 DEF HandOff, TypeOK, PlaceTypes, FlagTypes, CountTypes, RequestTypes
<1>5. /\ Has(t, "HALT_EXCLUSIVE")' /\ ~Has(t, "NOT_COUNTED_BY_EXCLUSIVE")'
      /\ Has(t, "VM_ACCESS")'
      /\ \A f : f \notin {"NOT_AT_SAFE_POINT", "HALT_EXCLUSIVE"} => (Has(t, f)' <=> Has(t, f))
      /\ ~Has(next, "HALT_EXCLUSIVE")' /\ ~Has(next, "NOT_COUNTED_BY_EXCLUSIVE")'
  BY <1>1, <1>3, <1>4, Zenon DEF Local, HaltInv, AccessInv, RunsInVM, Halted
<1>6. ASSUME NEW u \in Thread \ {t} PROVE Stays(u)
  <2>1. CASE u = next
    <3>1. pc[next] # "dead"
      BY <1>1, <1>2, Zenon DEF QueueInv, Acquiring
    <3>2. \A f : f \notin Halted => (Has(u, f)' <=> Has(u, f))
      BY <1>4, <2>1, Zenon
    <3> QED BY <1>4, <2>1, <3>1, <3>2, Zenon DEF Stays, OwnInNative
  <2>2. CASE u # next
    BY <1>4, <2>2, Zenon DEF Stays, OwnInNative
  <2> QED BY <2>1, <2>2, Zenon
<1>7. \A u \in Thread \ {t, next} : SameHalt(u) /\ (Queued(u)' <=> Queued(u))
  BY <1>2, <1>4, Zenon DEF SameHalt
<1>8. ~Engaged(t)' /\ ~Queued(t)'
  BY <1>2, <1>3, <1>4, Zenon DEF Engaged, Handed, Acquiring, ClaimLabel, OwnerLabel
<1>9. /\ pc'[next] \in Acquiring /\ ret'[next] = "granted" /\ Handed(next)' /\ Engaged(next)'
      /\ ~Queued(next)'
  BY <1>1, <1>2, <1>3, <1>4, Zenon DEF QueueInv, Handed, Engaged
<1>10. ASSUME NEW u \in Thread \ {t, next} PROVE Local(u)' /\ QueueInv(u)' /\ ~Engaged(u)'
  BY <1>1, <1>6, <1>7, StaysLocal, StaysSame, Zenon DEF Local
<1>11. Local(next)'
  <2>1. PcInv(next)' /\ NativeInv(next)' /\ AccessInv(next)' /\ CriticalInv(next)'
    BY <1>1, <1>2, <1>3, <1>6, StaysLocal, Zenon
  <2>2. HaltInv(next)'
    BY <1>2, <1>3, <1>4, <1>5, <1>9, OwnerNoResponses, Zenon DEF HaltInv, Acquiring
  <2> QED BY <2>1, <2>2, Zenon DEF Local
<1>12. Local(t)'
  <2>1. PcInv(t)'
    BY <1>1, <1>3, <1>4, Zenon DEF Local, PcInv, Holding, Acquiring
  <2>2. NativeInv(t)'
    BY <1>1, <1>3, <1>4, Zenon DEF Local, NativeInv, NativeCode, OwnInNative
  <2>3. AccessInv(t)'
    BY <1>4, <1>5, Zenon DEF AccessInv, RunsInVM, Acquiring, DeathLabel
  <2>4. CriticalInv(t)' /\ HaltInv(t)'
    BY <1>1, <1>3, <1>4, <1>5, <1>8, Zenon DEF Local, CriticalInv, HaltInv, Acquiring
  <2> QED BY <2>1, <2>2, <2>3, <2>4, Zenon DEF Local
<1>13. QueueInv(t)' /\ QueueInv(next)'
  <2>1. QueueInv(t)'
    BY <1>4, <1>8 DEF QueueInv
  <2>2. QueueInv(next)'
    BY <1>1, <1>2, <1>3, <1>4, <1>9, Zenon DEF QueueInv
  <2> QED BY <2>1, <2>2, ZenonT(40)
<1>14. ASSUME NEW u \in Thread
       PROVE  pc'[u] \notin ClaimLabel \cup OwnerLabel /\ (pc[u] = pc'[u] \/ u = t)
  BY <1>1, <1>4, Zenon DEF Engaged, ClaimLabel, OwnerLabel
<1>15. ASSUME NEW u \in Thread PROVE StateInv(u)' /\ TodoInv(u)' /\ ExpectInv(u)'
  <2>1. StateInv(u)' /\ TodoInv(u)'
    BY <1>4, <1>14, Zenon DEF StateInv, TodoInv, ClaimLabel, OwnerLabel
  <2>2. ExpectInv(u)'
    BY <1>1, <1>3, <1>4, <1>14, Zenon DEF ExpectInv, ClaimLabel, OwnerLabel
  <2> QED BY <2>1, <2>2, Zenon
<1>16. ASSUME NEW v \in Thread, v # next PROVE ProgressInv(next, v)'
  <2>1. v \in linked' => Has(v, "HALT_EXCLUSIVE")'
    BY <1>3, <1>4, <1>5, <1>16, OwnerAlone, ZenonT(40)
  <2>2. RunsInVM(v)' => ~Has(v, "NOT_COUNTED_BY_EXCLUSIVE")'
    <3>1. CASE v = t
      BY <1>5, <3>1, Zenon
    <3>2. CASE v # t
      BY <1>1, <1>3, <1>6, <1>16, <3>2, OwnerAlone, StaysLocal, Zenon
    <3> QED BY <3>1, <3>2, Zenon
  <2>3. ~Engaged(v)'
    BY <1>8, <1>10, <1>16, Zenon
  <2> QED BY <1>9, <2>1, <2>2, <2>3, Zenon DEF ProgressInv, AskedInv, PostInv, CountInv, Acquiring
<1>17. ASSUME NEW u \in Thread, NEW v \in Thread, u # v PROVE ProgressInv(u, v)'
  <2>1. CASE u = next
    BY <1>16, <1>17, <2>1, Zenon
  <2>2. CASE u # next
    BY <1>8, <1>10, <2>2, IdleProgress, Zenon
  <2> QED BY <2>1, <2>2, Zenon
<1>18. ResponsesAccounted'
  <2>1. ASSUME NEW u \in Thread \ {t} PROVE ~Responder(u)' /\ ~CriticalResponder(u)'
    <3>1. CASE u = next
      BY <1>5, <3>1, Zenon DEF Responder, CriticalResponder, MustRespond
    <3>2. CASE u # next
      BY <1>3, <1>6, <1>7, <3>2, StaysSame, OwnerNoResponses, Zenon
    <3> QED BY <3>1, <3>2, Zenon
  <2>2. Responder(t)' /\ (CriticalResponder(t)' <=> Has(t, "JNI_CRITICAL_ACCESS"))
    BY <1>4, <1>5, Zenon DEF Responder, CriticalResponder, MustRespond
  <2>3. AwaitedResponders' = {t} /\ AwaitedCriticals' = IF Has(t, "JNI_CRITICAL_ACCESS") THEN {t} ELSE {}
    BY <2>1, <2>2, Zenon DEF AwaitedResponders, AwaitedCriticals
  <2>4. Cardinality({t}) = 1 /\ Cardinality({}) = 0
    BY DEF ThreadsCounted
  <2>5. exclusiveAccessResponseCount' = 0
    BY <1>1, <1>3, <1>4, Zenon DEF ExpectInv
  <2>6. /\ exclusiveAccessResponseCount' + 1 = Cardinality(AwaitedResponders')
        /\ jniCriticalResponseCount' + 1 = Cardinality(AwaitedCriticals')
    <3>1. CASE Has(t, "JNI_CRITICAL_ACCESS")
      BY <1>4, <2>3, <2>4, <2>5, <3>1
    <3>2. CASE ~Has(t, "JNI_CRITICAL_ACCESS")
      BY <1>4, <2>3, <2>4, <2>5, <3>2
    <3> QED BY <3>1, <3>2, Zenon
  <2> QED BY <1>14, <2>6, Zenon DEF ResponsesAccounted
<1>19. \A u \in Thread : Local(u)' /\ QueueInv(u)' /\ StateInv(u)' /\ ExpectInv(u)' /\ TodoInv(u)'
  BY <1>10, <1>11, <1>12, <1>13, <1>15, Zenon
<1> QED BY <1>2, <1>17, <1>18, <1>19, Zenon DEF IInv, Local

(* With nobody queued the world is let go: no thread is left halted or
   engaged. *)
LEMMA ReleaseExclusiveKeeps ==
    ASSUME ThreadsCounted, IInv, TypeOK', NEW t \in Thread, ReleaseExclusive(t)
    PROVE  IInv'
<1>1. /\ TypeOK /\ QueueDistinct
      /\ \A u \in Thread : Local(u) /\ QueueInv(u) /\ StateInv(u) /\ ExpectInv(u) /\ TodoInv(u)
      /\ \A u \in Thread \ {t} : ~Engaged(u)
  BY Zenon DEF IInv, Local, ReleaseExclusive, ProgressInv, AskedInv, Engaged, OwnerLabel
<1>2. /\ pc[t] = "exclusive" /\ pc[t] \in OwnerLabel /\ Engaged(t)
      /\ pc'[t] = "notify" /\ exclusiveCount'[t] = 0
      /\ exclusiveAccessState' = "NONE"
      /\ exclusiveVMAccessQueue = <<>> /\ exclusiveVMAccessQueue' = <<>>
      /\ UNCHANGED <<linked, countVars, bufferVars, pfmVars, ret, criticalVars, vmThreadListMutex,
                     expectVars>>
      /\ \A u \in Thread \ {t} : /\ pc'[u] = pc[u] /\ exclusiveCount'[u] = exclusiveCount[u]
                                 /\ todo'[u] = todo[u]
  BY <1>1, ZenonT(40) DEF ReleaseExclusive, TypeOK, PlaceTypes, CountTypes, RequestTypes,
      Engaged, OwnerLabel
<1>3. /\ publicFlags'[t] = publicFlags[t] \ {"NOT_AT_SAFE_POINT"}
      /\ \A u \in Thread \ {t} : publicFlags'[u] = publicFlags[u] \ (IF u \in linked THEN Halted ELSE {})
  BY Zenon DEF ReleaseExclusive
<1>4. \A u \in Thread : ~Queued(u) /\ ~Queued(u)'
  BY <1>2 DEF Queued
<1>5. ASSUME NEW u \in Thread \ {t} PROVE Stays(u)
  <2>1. \A f : f \notin Halted => (Has(u, f)' <=> Has(u, f))
    BY <1>3, Zenon
  <2>2. pc[u] = "dead" => publicFlags'[u] = publicFlags[u]
    <3>1. pc[u] = "dead" => u \notin linked
      BY <1>1, Zenon DEF Local, PcInv
    <3>2. u \notin linked => publicFlags'[u] = publicFlags[u] \ {}
      BY <1>3, Zenon
    <3> QED BY <3>1, <3>2, Zenon
  <2> QED BY <1>2, <2>1, <2>2, Zenon DEF Stays, OwnInNative
<1>6. ASSUME NEW u \in Thread
      PROVE  ~Has(u, "HALT_EXCLUSIVE")' /\ ~Has(u, "NOT_COUNTED_BY_EXCLUSIVE")'
  <2>1. CASE u = t
    BY <1>1, <1>2, <1>3, <2>1, Zenon DEF Local, HaltInv
  <2>2. CASE u # t /\ u \in linked
    BY <1>3, <2>2, Zenon DEF Halted
  <2>3. CASE u # t /\ u \notin linked
    BY <1>1, <1>3, <2>3 DEF Local, PcInv
  <2> QED BY <2>1, <2>2, <2>3, Zenon
<1>7. \A u \in Thread : ~Engaged(u)'
  BY <1>1, <1>2, <1>4, Zenon DEF Engaged, Handed, Acquiring, ClaimLabel, OwnerLabel
<1>8. ASSUME NEW u \in Thread PROVE HaltInv(u)'
  <2>1. pc'[u] \notin {"acquireRespond", "criticalCount", "criticalExitRespond"}
    BY <1>2, OwnerNoResponses, Zenon
  <2> QED BY <1>6, <1>7, <2>1, Zenon DEF HaltInv
<1>9. ASSUME NEW u \in Thread \ {t} PROVE Local(u)'
  BY <1>1, <1>5, <1>8, StaysLocal, Zenon DEF Local
<1>10. Local(t)'
  <2>1. PcInv(t)'
    BY <1>1, <1>2, Zenon DEF Local, PcInv, Holding, Acquiring
  <2>2. NativeInv(t)'
    BY <1>1, <1>2, Zenon DEF Local, NativeInv, NativeCode, OwnInNative
  <2>3. AccessInv(t)'
    BY <1>1, <1>2, <1>3, Zenon DEF Local, AccessInv, RunsInVM, Acquiring, DeathLabel
  <2>4. CriticalInv(t)'
    BY <1>1, <1>2, <1>3, Zenon DEF Local, CriticalInv, Acquiring
  <2> QED BY <1>8, <2>1, <2>2, <2>3, <2>4, Zenon DEF Local
<1>11. ASSUME NEW u \in Thread PROVE QueueInv(u)'
  <2>1. exclusiveCount'[u] \in Nat /\ ~(exclusiveCount'[u] > 0)
    BY <1>1, <1>2, <1>4 DEF QueueInv, TypeOK, CountTypes
  <2> QED BY <1>4, <1>7, <2>1, ZenonT(40) DEF QueueInv
<1>12. ASSUME NEW u \in Thread
       PROVE  pc'[u] \notin ClaimLabel \cup OwnerLabel /\ (pc[u] = pc'[u] \/ u = t) /\ ~Handed(u)'
  BY <1>2, <1>7, Zenon DEF Engaged
<1>13. ASSUME NEW u \in Thread PROVE StateInv(u)' /\ TodoInv(u)' /\ ExpectInv(u)'
  <2>1. StateInv(u)' /\ TodoInv(u)'
    BY <1>4, <1>6, <1>7, <1>12, Zenon DEF StateInv, TodoInv, ClaimLabel, OwnerLabel
  <2>2. ExpectInv(u)'
    BY <1>1, <1>2, <1>12, Zenon DEF ExpectInv, ClaimLabel, OwnerLabel
  <2> QED BY <2>1, <2>2, Zenon
<1>14. \A u, v \in Thread : u # v => ProgressInv(u, v)'
  BY <1>7, IdleProgress, ZenonT(40)
<1>15. QueueDistinct' /\ ResponsesAccounted'
  BY <1>2, <1>12 DEF QueueDistinct, ResponsesAccounted
<1>16. \A u \in Thread : Local(u)' /\ QueueInv(u)' /\ StateInv(u)' /\ ExpectInv(u)' /\ TodoInv(u)'
  BY <1>9, <1>10, <1>11, <1>13, Zenon
<1> QED BY <1>14, <1>15, <1>16, Zenon DEF IInv, Local

(* A thread that queues behind a claim responds to it at once if it was
   counted, and is halted before it lets go of the mutex. *)
LEMMA AcquireExclusiveQueuedKeeps ==
    ASSUME ThreadsCounted, IInv, TypeOK', NEW t \in Thread, AcquireExclusiveQueued(t)
    PROVE  IInv'
<1> DEFINE counted == MustRespond(t)
           drop == ~Has(t, "HALT_EXCLUSIVE") /\ Has(t, "JNI_CRITICAL_ACCESS")
<1>1. /\ TypeOK /\ QueueDistinct /\ ResponsesAccounted
      /\ \A u \in Thread : Local(u) /\ QueueInv(u) /\ StateInv(u) /\ ExpectInv(u) /\ TodoInv(u)
      /\ \A u, v \in Thread : u # v => ProgressInv(u, v)
  BY Zenon DEF IInv, Local
<1>2. /\ pc[t] = "vm" /\ pfm[t] = NoThread /\ exclusiveAccessState # "NONE"
      /\ pc'[t] = "acquire" /\ ret'[t] = "granted" /\ pfm'[t] = t
      /\ exclusiveCount'[t] = 1
      /\ exclusiveVMAccessQueue' = Append(exclusiveVMAccessQueue, t)
      /\ exclusiveAccessResponseCount' =
           exclusiveAccessResponseCount - (IF counted THEN 1 ELSE 0)
      /\ reacquireJNICriticalAccess'[t] = drop
      /\ UNCHANGED <<linked, jniCriticalResponseCount, stateVars, jniCriticalDirectCount,
                     vmThreadListMutex, todo, expectVars>>
      /\ OwnInNative(t)' = OwnInNative(t)
  BY <1>1, FencedOwn, ZenonT(40) DEF AcquireExclusiveQueued, TypeOK, PlaceTypes, FlagTypes, CountTypes,
        MonitorTypes
<1>3. \A u \in Thread \ {t} :
        /\ pc'[u] = pc[u] /\ ret'[u] = ret[u] /\ pfm'[u] = pfm[u]
        /\ publicFlags'[u] = publicFlags[u]
        /\ exclusiveCount'[u] = exclusiveCount[u]
        /\ reacquireJNICriticalAccess'[u] = reacquireJNICriticalAccess[u]
        /\ inNative'[u] = inNative[u] /\ storeBuffer'[u] = storeBuffer[u]
  BY <1>1 DEF AcquireExclusiveQueued, Drained, TypeOK, PlaceTypes, FlagTypes, CountTypes,
        MonitorTypes, BufferTypes
<1>4. /\ Has(t, "HALT_EXCLUSIVE")' /\ ~Has(t, "VM_ACCESS")'
      /\ Has(t, "JNI_CRITICAL_ACCESS")' <=> Has(t, "JNI_CRITICAL_ACCESS") /\ ~drop
      /\ Has(t, "JNI_CRITICAL_REGION")' <=> Has(t, "JNI_CRITICAL_REGION")
      /\ Has(t, "NOT_COUNTED_BY_EXCLUSIVE")' <=> Has(t, "NOT_COUNTED_BY_EXCLUSIVE")
  <2>1. CASE drop
    BY <1>1, <2>1, Zenon DEF AcquireExclusiveQueued, TypeOK, FlagTypes
  <2>2. CASE ~drop
    BY <1>1, <2>2, Zenon DEF AcquireExclusiveQueued, TypeOK, FlagTypes
  <2> QED BY <2>1, <2>2, Zenon
<1>5. /\ ~Engaged(t) /\ ~Queued(t) /\ Has(t, "VM_ACCESS") /\ RunsInVM(t)
      /\ ~reacquireJNICriticalAccess[t]
  BY <1>1, <1>2, Zenon DEF Engaged, Handed, QueueInv, Acquiring, ClaimLabel, OwnerLabel, Local,
        AccessInv, CriticalInv, RunsInVM, TypeOK, FlagTypes
<1>6. Queued(t)' /\ QueueDistinct' /\ \A u \in Thread \ {t} : Queued(u)' <=> Queued(u)
  BY <1>1, <1>2, <1>5, AppendQueued, Zenon DEF TypeOK, RequestTypes
<1>7. ~Engaged(t)' /\ ~RunsInVM(t)'
  BY <1>2, <1>6, Zenon DEF Engaged, Handed, RunsInVM, ClaimLabel, OwnerLabel
<1>8. \A u \in Thread \ {t} : Stays(u) /\ SameHalt(u)
  BY <1>2, <1>3, Zenon DEF Stays, SameHalt, OwnInNative
<1>9. ASSUME NEW u \in Thread \ {t}
      PROVE  /\ RunsInVM(u)' <=> RunsInVM(u)
             /\ Engaged(u)' <=> Engaged(u)
             /\ Handed(u)' <=> Handed(u)
             /\ AllAsked(u)' <=> AllAsked(u)
             /\ AllCounted(u)' <=> AllCounted(u)
             /\ Responder(u)' <=> Responder(u)
             /\ CriticalResponder(u)' <=> CriticalResponder(u)
             /\ Local(u)' /\ QueueInv(u)'
  BY <1>1, <1>6, <1>8, StaysLocal, StaysSame, Zenon DEF Local
<1>10. /\ Responder(t) <=> counted
       /\ ~Responder(t)'
       /\ CriticalResponder(t)' <=> CriticalResponder(t)
  <2>1. (Responder(t) <=> counted) /\ ~Responder(t)'
    BY <1>2, <1>4, <1>5, Zenon DEF Responder
  <2>2. CriticalResponder(t)' <=> CriticalResponder(t)
    BY <1>2, <1>4, Zenon DEF CriticalResponder
  <2> QED BY <2>1, <2>2, Zenon
<1>11. Local(t)'
  <2>1. PcInv(t)'
    BY <1>1, <1>2, Zenon DEF Local, PcInv, Holding, Acquiring
  <2>2. NativeInv(t)'
    BY <1>1, <1>2, Zenon DEF Local, NativeInv, NativeCode
  <2>3. AccessInv(t)'
    BY <1>2, <1>4, <1>7, Zenon DEF AccessInv
  <2>4. CriticalInv(t)'
    BY <1>1, <1>2, <1>4, Zenon DEF Local, CriticalInv, Acquiring
  <2>5. HaltInv(t)'
    BY <1>2, <1>4, <1>7, Zenon DEF HaltInv
  <2> QED BY <2>1, <2>2, <2>3, <2>4, <2>5, ZenonT(40) DEF Local
<1>12. QueueInv(t)'
  BY <1>2, <1>4, <1>6 DEF QueueInv, Acquiring
<1>13. ASSUME NEW u \in Thread \ {t} PROVE ~(counted /\ pc[u] \in {"awaitJNI"} \cup OwnerLabel)
  <2>1. counted => AwaitedResponders # {}
    BY <1>10, Zenon DEF AwaitedResponders
  <2>2. pc[u] \in {"awaitJNI"} \cup OwnerLabel => Cardinality(AwaitedResponders) = 0
    BY <1>1 DEF ResponsesAccounted, ExpectInv, ClaimLabel, OwnerLabel
  <2> QED BY <2>1, <2>2, AwaitedCounted, Zenon
<1>14. ASSUME NEW u \in Thread PROVE StateInv(u)' /\ ExpectInv(u)' /\ TodoInv(u)'
  <2>1. CASE u = t
    BY <1>1, <1>2, <1>7, <2>1, Zenon DEF StateInv, ExpectInv, TodoInv, Engaged, ClaimLabel,
        OwnerLabel
  <2>2. CASE u # t
    <3>1. StateInv(u)' /\ TodoInv(u)'
      BY <1>1, <1>2, <1>3, <1>9, <2>2, Zenon DEF StateInv, TodoInv
    <3>2. pc'[u] \in {"awaitJNI"} \cup OwnerLabel =>
            exclusiveAccessResponseCount' = exclusiveAccessResponseCount
      <4>1. pc'[u] \in {"awaitJNI"} \cup OwnerLabel => ~counted
        BY <1>3, <1>13, <2>2, Zenon
      <4>2. exclusiveAccessResponseCount \in Int
        BY <1>1, ZenonT(40) DEF TypeOK, CountTypes
      <4>3. ~counted => exclusiveAccessResponseCount' = exclusiveAccessResponseCount
        BY <1>2, <4>2
      <4> QED BY <4>1, <4>3, Zenon
    <3>3. ExpectInv(u)'
      BY <1>1, <1>2, <1>3, <2>2, <3>2, Zenon DEF ExpectInv
    <3> QED BY <3>1, <3>3, Zenon
  <2> QED BY <2>1, <2>2, Zenon
<1>15. ASSUME NEW u \in Thread, NEW v \in Thread, u # v PROVE ProgressInv(u, v)'
  <2>1. CASE u = t
    BY <1>7, <1>15, <2>1, IdleProgress, Zenon
  <2>2. CASE v = t
    <3>1. ProgressInv(u, t) /\ pc'[u] = pc[u]
      BY <1>1, <1>3, <1>15, <2>2, Zenon
    <3>2. PostInv(u, t)'
      BY <1>2, <1>4, <1>10, <3>1, Zenon DEF ProgressInv, PostInv
    <3>3. AskedInv(u, t)' /\ CountInv(u, t)'
      BY <1>4, <1>7, Zenon DEF AskedInv, CountInv
    <3> QED BY <2>2, <3>2, <3>3, Zenon DEF ProgressInv
  <2>3. CASE u # t /\ v # t
    <3>1. /\ pc'[u] = pc[u] /\ todo'[u] = todo[u] /\ linked' = linked
          /\ \A f : Has(v, f)' <=> Has(v, f)
          /\ storeBuffer'[v] = storeBuffer[v]
      BY <1>2, <1>3, <2>3, Zenon
    <3>2. AskedInv(u, v)'
      BY <1>1, <1>9, <1>15, <2>3, <3>1, Zenon DEF ProgressInv, AskedInv
    <3>3. PostInv(u, v)'
      BY <1>1, <1>9, <1>15, <2>3, <3>1, ZenonT(40) DEF ProgressInv, PostInv
    <3>4. CountInv(u, v)'
      BY <1>1, <1>9, <1>15, <2>3, <3>1, ZenonT(40) DEF ProgressInv, CountInv
    <3> QED BY <3>2, <3>3, <3>4, Zenon DEF ProgressInv
  <2> QED BY <2>1, <2>2, <2>3, Zenon
<1>16. ResponsesAccounted'
  <2>1. AwaitedCriticals' = AwaitedCriticals
    BY <1>9, <1>10, Zenon DEF AwaitedCriticals
  <2>2. /\ AwaitedResponders \ {t} = AwaitedResponders' \ {t}
        /\ t \in AwaitedResponders <=> counted
        /\ t \notin AwaitedResponders'
    BY <1>9, <1>10, Zenon DEF AwaitedResponders
  <2>3. Cardinality(AwaitedResponders') = Cardinality(AwaitedResponders) - (IF counted THEN 1 ELSE 0)
    <3>1. CASE counted
      BY <2>2, <3>1, AwaitedCounted, CountFollows
    <3>2. CASE ~counted
      BY <2>2, <3>2, AwaitedCounted, CountFollows
    <3> QED BY <3>1, <3>2, Zenon
  <2>4. /\ exclusiveAccessResponseCount \in Int /\ exclusiveAccessResponseCount' \in Int
        /\ \A u \in Thread : responsesExpected[u] \in Int
    BY <1>1 DEF TypeOK, CountTypes
  <2>5. exclusiveAccessResponseCount' - Cardinality(AwaitedResponders')
          = exclusiveAccessResponseCount - Cardinality(AwaitedResponders)
    BY <1>2, <2>3, <2>4, AwaitedCounted
  <2>6. \A u \in Thread : pc'[u] \in ClaimLabel \cup OwnerLabel =>
           pc[u] \in ClaimLabel \cup OwnerLabel
    BY <1>3, <1>7, ZenonT(40) DEF Engaged
  <2>7. ASSUME NEW u \in Thread, pc'[u] \in ClaimLabel \cup OwnerLabel
        PROVE  exclusiveAccessResponseCount' + responsesExpected'[u] = Cardinality(AwaitedResponders')
    <3>1. exclusiveAccessResponseCount + responsesExpected[u] = Cardinality(AwaitedResponders)
      BY <1>1, <2>6, <2>7, Zenon DEF ResponsesAccounted
    <3>2. responsesExpected'[u] = responsesExpected[u]
      BY <1>2, Zenon
    <3> QED BY <2>4, <2>5, <3>1, <3>2, AwaitedCounted, SameDrift
  <2>8. exclusiveAccessState' = "HANDING_OFF" =>
          exclusiveAccessResponseCount' + 1 = Cardinality(AwaitedResponders')
    <3>1. exclusiveAccessState' = "HANDING_OFF" =>
            exclusiveAccessResponseCount + 1 = Cardinality(AwaitedResponders)
      BY <1>1, <1>2, Zenon DEF ResponsesAccounted
    <3> QED BY <2>4, <2>5, <3>1, AwaitedCounted, SameDrift
  <2> QED BY <1>1, <1>2, <2>1, <2>6, <2>7, <2>8, ZenonT(40) DEF ResponsesAccounted
<1>17. \A u \in Thread : Local(u)' /\ QueueInv(u)' /\ StateInv(u)' /\ ExpectInv(u)' /\ TodoInv(u)'
  BY <1>9, <1>11, <1>12, <1>14, Zenon
<1> QED BY <1>6, <1>15, <1>16, <1>17, ZenonT(40) DEF IInv, Local

=============================================================================
