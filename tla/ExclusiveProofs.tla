--------------------------- MODULE ExclusiveProofs ---------------------------
(***************************************************************************)
(* VM access is safe for any number of threads: the inductive invariant    *)
(* holds in every reachable state, and with it exclusive access means that *)
(* no other thread runs in the VM, and the response counters are exact.    *)
(* From the same invariant, the protocol implements StopTheWorld.          *)
(***************************************************************************)
EXTENDS AccessProofs, InvariantProofs, FiniteSetTheorems, SequenceTheorems

USE DEF Has

(* Sets of threads can be counted, as there are finitely many threads. *)
LEMMA ThreadsAreCounted == ThreadsCounted
<1> SUFFICES ASSUME NEW S \in SUBSET Thread
             PROVE  /\ Cardinality(S) \in Nat
                    /\ Cardinality(S) = 0 <=> S = {}
                    /\ \A t \in Thread \ S : Cardinality(S \cup {t}) = Cardinality(S) + 1
  BY Zenon DEF ThreadsCounted
<1>1. IsFiniteSet(S)
  BY ThreadAssumption, FS_Subset, Zenon
<1> QED BY <1>1, FS_CardinalityType, FS_EmptySet, FS_AddElement, ZenonT(40)

(* Every step of VMAccess has the effects of AccessEffect. *)
LEMMA EveryAccessEffect ==
    ASSUME TypeOK, TypeOK', NEW t \in Thread, Local(t), QueueInv(t),
           Access(t) \/ DrainOne(t), UNCHANGED requestVars
    PROVE  AccessEffect(t)
BY ClearVMAccessEffect, RespondEffect, GiveUpCriticalEffect, RespondCriticalEffect,
    WaitForAccessEffect, WakeEffect, TakeVMAccessEffect, ExitInlineEffect,
    ExitOutOfLineEffect, ExitSlowEffect, EnterInlineEffect, EnterOutOfLineEffect,
    EnterSlowEffect, EndAsyncCheckEffect, EnterCriticalWithAccessEffect,
    CountCriticalEffect, EnterCriticalWithoutAccessEffect, EnterCriticalThroughVMEffect,
    SetCriticalFlagsEffect, ExitCriticalSlowEffect, ExitCriticalRespondEffect,
    ReleaseFastEffect, ReleaseSlowEffect, AcquireFastEffect, AcquireSlowEffect,
    TryAcquireEffect, ExitVMToJNIEffect, EnterVMFromJNIEffect, EnterNestedCriticalEffect,
    EnterCriticalFastEffect, EnterCriticalSlowEffect, CheckAsyncMessagesEffect,
    ExitNestedCriticalEffect, ExitCriticalFastEffect, ExitCriticalBeginEffect,
    DrainOneEffect, Zenon DEF Access, AccessStep, AccessBegin, AccessDuty, ExitCriticalRegion


(* The initial state, with every thread outside the VM, satisfies the invariant. *)
LEMMA InitIInv == Init => IInv
<1> SUFFICES ASSUME Init PROVE IInv
  OBVIOUS
<1>1. TypeOK
  BY InitTypes, Zenon
<1>2. ASSUME NEW t \in Thread
      PROVE  /\ pc[t] \in {"dead", "released"} /\ publicFlags[t] = {} /\ ~OwnInNative(t)
             /\ t \in linked <=> pc[t] # "dead"
             /\ pfm[t] = NoThread /\ vmThreadListMutex # t
             /\ ~reacquireJNICriticalAccess[t] /\ exclusiveCount[t] = 0
             /\ responsesExpected[t] = 0 /\ jniCriticalResponsesExpected[t] = 0
             /\ ~Queued(t)
  BY ThreadAssumption, RequesterAssumption DEF Init, OwnInNative, Queued
<1>3. ASSUME NEW t \in Thread
      PROVE  ~Engaged(t) /\ ~Handed(t) /\ ~RunsInVM(t) /\ ~NativeCode(t) /\ ~AllAsked(t)
  BY <1>2, Zenon DEF Engaged, Handed, RunsInVM, NativeCode, AllAsked, Acquiring, ClaimLabel,
      OwnerLabel
<1>4. ASSUME NEW t \in Thread
      PROVE  PcInv(t) /\ NativeInv(t) /\ AccessInv(t) /\ CriticalInv(t) /\ HaltInv(t)
  BY <1>2, <1>3, ZenonT(40) DEF PcInv, NativeInv, AccessInv, CriticalInv, HaltInv, Holding, Acquiring,
      DeathLabel
<1>5. ASSUME NEW t \in Thread
      PROVE  QueueInv(t) /\ StateInv(t) /\ ExpectInv(t) /\ TodoInv(t)
  BY <1>2, <1>3 DEF QueueInv, StateInv, ExpectInv, TodoInv, ClaimLabel, OwnerLabel
<1>6. ASSUME NEW t \in Thread, NEW u \in Thread PROVE ProgressInv(t, u)
  BY <1>2, <1>3, Zenon DEF ProgressInv, AskedInv, PostInv, CountInv, AllCounted
<1>7. QueueDistinct /\ ResponsesAccounted
  BY <1>2 DEF Init, QueueDistinct, ResponsesAccounted, ClaimLabel, OwnerLabel
<1> QED BY <1>1, <1>4, <1>5, <1>6, <1>7, ZenonT(40) DEF IInv

(* IInv is inductive: every step of every thread keeps it. *)
LEMMA NextKeepsIInv == IInv /\ [Next]_vars => IInv'
<1> SUFFICES ASSUME IInv, [Next]_vars PROVE IInv'
  OBVIOUS
<1>1. TypeOK /\ TypeOK'
  BY NextTypes, Zenon DEF IInv
<1>2. ASSUME NEW t \in Thread, Access(t) \/ DrainOne(t), UNCHANGED requestVars PROVE IInv'
  <2>1. Local(t) /\ QueueInv(t)
    BY Zenon DEF IInv, Local
  <2> QED BY <1>1, <1>2, <2>1, EveryAccessEffect, AccessKeepsIInv, ThreadsAreCounted, ZenonT(40)
<1>3. ASSUME NEW t \in Thread, RequestStep(t) PROVE IInv'
  BY <1>1, <1>3, GrantedKeeps, AcceptHandOffKeeps, PostBeginKeeps, FlushKeeps, PostEndKeeps,
     PostHaltKeeps, PostCountKeeps, NotifyKeeps, AwaitKeeps, EnterExclusiveKeeps,
     ReleaseExclusiveNestedKeeps, HandOffKeeps, ReleaseExclusiveKeeps, NotifyEndKeeps,
     ThreadsAreCounted, ZenonT(40) DEF RequestStep
<1>4. ASSUME NEW t \in Thread, RequestBegin(t) PROVE IInv'
  BY <1>1, <1>4, AcquireExclusiveNestedKeeps, AcquireExclusiveFirstKeeps,
     AcquireExclusiveQueuedKeeps, ThreadsAreCounted, ZenonT(40) DEF RequestBegin
<1>5. ASSUME NEW t \in Thread, Lifecycle(t) PROVE IInv'
  BY <1>1, <1>5, AllocateVMThreadKeeps, DeallocateWaitKeeps, DeallocateVMThreadKeeps,
     ThreadsAreCounted, ZenonT(40) DEF Lifecycle
<1>6. CASE UNCHANGED vars
  <2> USE DEF vars, bufferVars, flagVars, pfmVars, criticalVars, localVars, countVars, stateVars,
              vmVars, expectVars, requestVars
  <2>1. ASSUME NEW u \in Thread
        PROVE  /\ PcInv(u)' /\ NativeInv(u)' /\ AccessInv(u)' /\ CriticalInv(u)' /\ HaltInv(u)'
               /\ QueueInv(u)' /\ StateInv(u)' /\ ExpectInv(u)' /\ TodoInv(u)'
    BY <1>6, ZenonT(40) DEF IInv, PcInv, NativeInv, AccessInv, CriticalInv, HaltInv, QueueInv, StateInv,
       ExpectInv, TodoInv, Engaged, Handed, RunsInVM, NativeCode, OwnInNative, Queued
  <2>2. ASSUME NEW u \in Thread, NEW v \in Thread, u # v PROVE ProgressInv(u, v)'
    BY <1>6, <2>2, ZenonT(40) DEF IInv, ProgressInv, AskedInv, PostInv, CountInv, AllAsked,
       AllCounted, Engaged, Handed, Queued, RunsInVM, Responder, CriticalResponder, MustRespond
  <2>3. QueueDistinct' /\ ResponsesAccounted'
    BY <1>6, Zenon DEF IInv, QueueDistinct, ResponsesAccounted, AwaitedResponders,
       AwaitedCriticals, Responder, CriticalResponder, MustRespond
  <2> QED BY <1>1, <2>1, <2>2, <2>3, ZenonT(40) DEF IInv
<1> QED BY <1>2, <1>3, <1>4, <1>5, <1>6, ZenonT(40) DEF Next, ThreadNext

(* The inductive invariant of VM access holds in every reachable state, for any
   set of threads and any bounds. *)
THEOREM InvariantHolds == Spec => []IInv
BY InitIInv, NextKeepsIInv, PTL DEF Spec

-----------------------------------------------------------------------------
(* The assertions in the code. *)

(* A step that leaves no safe point and ends no request keeps SafePointInv. *)
LEMMA SameSafePoint ==
    ASSUME SafePointInv, UNCHANGED exclusiveCount,
           \A u \in Thread : Has(u, "NOT_AT_SAFE_POINT")' => Has(u, "NOT_AT_SAFE_POINT")
    PROVE  SafePointInv'
BY Zenon DEF SafePointInv

(* Only acquireExclusiveVMAccess leaves a safe point, and it counts itself; the
   last release is back at one. *)
LEMMA NextSafePoint == IInv /\ SafePointInv /\ [Next]_vars => SafePointInv'
<1> SUFFICES ASSUME IInv, SafePointInv, [Next]_vars PROVE SafePointInv'
  OBVIOUS
<1> USE DEF WithFlags, Halted, bufferVars, flagVars, criticalVars, localVars, requestVars
<1>1. TypeOK /\ TypeOK'
  BY NextTypes, Zenon DEF IInv
<1>2. /\ publicFlags \in [Thread -> SUBSET Flag]
      /\ exclusiveCount \in [Thread -> 0..MaxExclusiveDepth]
      /\ MaxExclusiveDepth \in Nat
  BY <1>1, RequesterAssumption, ZenonT(40) DEF TypeOK, FlagTypes, CountTypes
<1>3. ASSUME NEW t \in Thread, Access(t) \/ DrainOne(t), UNCHANGED requestVars
      PROVE  SafePointInv'
  <2>1. Local(t) /\ QueueInv(t)
    BY Zenon DEF IInv, Local
  <2>2. AccessEffect(t)
    BY <1>1, <1>3, <2>1, EveryAccessEffect, ZenonT(40)
  <2> QED BY <1>3, <2>2, SameSafePoint, ZenonT(40) DEF AccessEffect, Frame, Kept
<1>4. ASSUME NEW t \in Thread,
             AcceptHandOff(t) \/ PostBegin(t) \/ Flush(t) \/ PostEnd(t) \/ Await(t)
               \/ EnterExclusive(t) \/ NotifyEnd(t)
               \/ \E u \in Thread : Notify(t, u)
      PROVE  SafePointInv'
  BY <1>4, SameSafePoint, Zenon DEF AcceptHandOff, PostBegin, Flush, PostEnd, Await,
     EnterExclusive, NotifyEnd, Notify
<1>5. ASSUME NEW t \in Thread, Granted(t) PROVE SafePointInv'
  BY <1>2, <1>5, SameSafePoint, Zenon DEF Granted
<1>6. ASSUME NEW t \in Thread, NEW u \in Thread, PostHalt(t, u) \/ PostCount(t, u)
      PROVE  SafePointInv'
  <2>1. CASE PostHalt(t, u)
    <3>1. publicFlags'[u] = publicFlags[u] \cup Halted
      BY <1>2, <2>1, Zenon DEF PostHalt
    <3>2. \A w \in Thread \ {u} : publicFlags'[w] = publicFlags[w]
      BY <1>2, <2>1, Zenon DEF PostHalt
    <3>3. ASSUME NEW w \in Thread PROVE Has(w, "NOT_AT_SAFE_POINT")' => Has(w, "NOT_AT_SAFE_POINT")
      <4>1. CASE w = u
        BY <3>1, <4>1, Zenon
      <4>2. CASE w # u
        BY <3>2, <4>2, Zenon
      <4> QED BY <4>1, <4>2, Zenon
    <3> QED BY <2>1, <3>3, SameSafePoint, ZenonT(40) DEF PostHalt
  <2>2. CASE PostCount(t, u)
    <3>1. \A w \in Thread : publicFlags'[w] \subseteq publicFlags[w]
      BY <1>2, <2>2, Zenon DEF PostCount
    <3> QED BY <2>2, <3>1, SameSafePoint, Zenon DEF PostCount
  <2> QED BY <1>6, <2>1, <2>2, Zenon
<1>7. ASSUME NEW t \in Thread, AllocateVMThread(t) \/ DeallocateWait(t) \/ DeallocateVMThread(t)
      PROVE  SafePointInv'
  <2>1. CASE AllocateVMThread(t)
    <3>1. \A w \in Thread :
            publicFlags'[w] \subseteq publicFlags[w] \cup {"HALT_EXCLUSIVE", "HALTED_AT_SAFE_POINT"}
      BY <1>2, <2>1, Zenon DEF AllocateVMThread
    <3> QED BY <2>1, <3>1, SameSafePoint, ZenonT(40) DEF AllocateVMThread
  <2>2. CASE DeallocateWait(t)
    BY <2>2, SameSafePoint, Zenon DEF DeallocateWait
  <2>3. CASE DeallocateVMThread(t)
    <3>1. \A w \in Thread : publicFlags'[w] \subseteq publicFlags[w] \cup {"HALT_INSPECTION"}
      BY <1>2, <2>3, Zenon DEF DeallocateVMThread
    <3> QED BY <2>3, <3>1, SameSafePoint, ZenonT(40) DEF DeallocateVMThread
  <2> QED BY <1>7, <2>1, <2>2, <2>3, ZenonT(40)
<1>8. ASSUME NEW t \in Thread,
             \/ AcquireExclusiveNested(t) \/ ReleaseExclusiveNested(t)
             \/ AcquireExclusiveFirst(t) \/ AcquireExclusiveQueued(t)
      PROVE  SafePointInv'
  <2>1. \/ exclusiveCount'[t] = exclusiveCount[t] + 1 \/ exclusiveCount'[t] = 1
        \/ exclusiveCount'[t] = exclusiveCount[t] - 1 /\ exclusiveCount[t] > 1
    BY <1>2, <1>8, Zenon DEF AcquireExclusiveNested, ReleaseExclusiveNested,
       AcquireExclusiveFirst, AcquireExclusiveQueued
  <2>2. exclusiveCount[t] \in Nat
    BY <1>2
  <2>3. exclusiveCount'[t] > 0
    BY <2>1, <2>2
  <2>4. ASSUME NEW u \in Thread \ {t}
        PROVE  publicFlags'[u] = publicFlags[u] /\ exclusiveCount'[u] = exclusiveCount[u]
    BY <1>2, <1>8, ZenonT(40) DEF AcquireExclusiveNested, ReleaseExclusiveNested,
       AcquireExclusiveFirst, AcquireExclusiveQueued
  <2> QED BY <2>3, <2>4, Zenon DEF SafePointInv
<1>9. ASSUME NEW t \in Thread, HandOff(t) PROVE SafePointInv'
  <2>1. PICK next : publicFlags' = [publicFlags EXCEPT
                           ![t] = (@ \ {"NOT_AT_SAFE_POINT"}) \cup {"HALT_EXCLUSIVE"},
                           ![next] = @ \ Halted]
    BY <1>9, Zenon DEF HandOff
  <2>2. "NOT_AT_SAFE_POINT" \notin publicFlags'[t]
    <3>1. CASE next = t
      BY <1>2, <2>1, <3>1
    <3>2. CASE next # t
      BY <1>2, <2>1, <3>2
    <3> QED BY <3>1, <3>2, ZenonT(40)
  <2>3. \A u \in Thread : publicFlags'[u] \subseteq publicFlags[u] \cup {"HALT_EXCLUSIVE"}
    BY <1>2, <2>1, Zenon
  <2>4. \A u \in Thread \ {t} : exclusiveCount'[u] = exclusiveCount[u]
    BY <1>2, <1>9, Zenon DEF HandOff
  <2> QED BY <2>2, <2>3, <2>4, ZenonT(40) DEF SafePointInv
<1>10. ASSUME NEW t \in Thread, ReleaseExclusive(t) PROVE SafePointInv'
  <2>1. "NOT_AT_SAFE_POINT" \notin publicFlags'[t]
    BY <1>2, <1>10, Zenon DEF ReleaseExclusive
  <2>2. \A u \in Thread : publicFlags'[u] \subseteq publicFlags[u]
    BY <1>2, <1>10, Zenon DEF ReleaseExclusive
  <2>3. \A u \in Thread \ {t} : exclusiveCount'[u] = exclusiveCount[u]
    BY <1>2, <1>10, Zenon DEF ReleaseExclusive
  <2> QED BY <2>1, <2>2, <2>3, ZenonT(40) DEF SafePointInv
<1>11. CASE UNCHANGED vars
  BY <1>11, Zenon DEF SafePointInv, vars
<1> QED BY <1>3, <1>4, <1>5, <1>6, <1>7, <1>8, <1>9, <1>10, <1>11, ZenonT(40)
    DEF Next, ThreadNext, RequestStep, RequestBegin, Lifecycle

(* Between the passes nobody has responded, for nobody was counted. *)
LEMMA NoEarlyResponse ==
    ASSUME IInv, NEW t \in Thread, pc[t] = "post"
    PROVE  exclusiveAccessResponseCount = 0
<1>1. HaltInv(t) /\ ExpectInv(t) /\ \A u \in Thread \ {t} : PostInv(t, u)
  BY Zenon DEF IInv, ProgressInv
<1>2. ~Responder(t)
  BY <1>1, Zenon DEF HaltInv, Engaged, ClaimLabel, Responder, MustRespond
<1>3. AwaitedResponders = {}
  BY <1>1, <1>2, Zenon DEF AwaitedResponders, PostInv
<1>4. Cardinality(AwaitedResponders) = 0
  BY <1>3, ThreadsAreCounted, Zenon DEF ThreadsCounted
<1>5. responsesExpected[t] = 0
  BY <1>1, Zenon DEF ExpectInv
<1>6. exclusiveAccessResponseCount + responsesExpected[t] = Cardinality(AwaitedResponders)
  BY Zenon DEF IInv, ResponsesAccounted, ClaimLabel
<1>7. exclusiveAccessResponseCount \in Int
  BY Zenon DEF IInv, TypeOK, CountTypes
<1> QED BY <1>4, <1>5, <1>6, <1>7

(* The assertions of VMAccess.cpp and AsyncMessageHandler.cpp never fail. *)
THEOREM AssertionsNeverFail == Spec => []AssertionsHold
<1>1. IInv /\ SafePointInv => AssertionsHold
  <2> SUFFICES ASSUME IInv, SafePointInv, NEW t \in Thread
               PROVE
        /\ pc[t] \in {"acquire", "acquireRespond", "test", "wait", "released"} =>
             ~Has(t, "VM_ACCESS")
        /\ RunsInVM(t) => Has(t, "VM_ACCESS") /\ ~OwnInNative(t)
        /\ pc[t] \in {"acquire", "test"} => ~OwnInNative(t)
        /\ pc[t] = "accept" => exclusiveAccessState = "HANDING_OFF"
        /\ pc[t] \in {"await", "awaitVM", "awaitJNI"} =>
             exclusiveAccessState \in {"PENDING", "HANDED_OFF"}
        /\ pc[t] \in OwnerLabel => /\ exclusiveAccessState = "EXCLUSIVE"
                                   /\ ~Has(t, "NOT_COUNTED_BY_EXCLUSIVE")
        /\ pc[t] = "post" /\ todo[t] = {} => exclusiveAccessResponseCount = 0
        /\ pc[t] \in {"vm", "async"} => ~Has(t, "NOT_AT_SAFE_POINT")
    BY Zenon DEF AssertionsHold
  <2>1. /\ PcInv(t) /\ NativeInv(t) /\ AccessInv(t) /\ HaltInv(t) /\ QueueInv(t)
        /\ StateInv(t)
    BY Zenon DEF IInv
  <2>2. pc[t] \in {"acquire", "acquireRespond", "test", "wait", "released"} => ~Has(t, "VM_ACCESS")
    BY <2>1, Zenon DEF AccessInv, Acquiring
  <2>3. RunsInVM(t) \/ pc[t] \in {"acquire", "test"} => ~NativeCode(t)
    BY <2>1, Zenon DEF RunsInVM, NativeCode, ClaimLabel, OwnerLabel
  <2>4. /\ RunsInVM(t) => Has(t, "VM_ACCESS") /\ ~OwnInNative(t)
        /\ pc[t] \in {"acquire", "test"} => ~OwnInNative(t)
    BY <2>1, <2>3, Zenon DEF AccessInv, NativeInv
  <2>5. /\ pc[t] = "accept" => exclusiveAccessState = "HANDING_OFF"
        /\ pc[t] \in {"await", "awaitVM", "awaitJNI"} =>
             exclusiveAccessState \in {"PENDING", "HANDED_OFF"}
        /\ pc[t] \in OwnerLabel => exclusiveAccessState = "EXCLUSIVE"
    BY <2>1, Zenon DEF StateInv, Handed, ClaimLabel
  <2>6. pc[t] \in OwnerLabel => ~Has(t, "NOT_COUNTED_BY_EXCLUSIVE")
    BY <2>1, Zenon DEF HaltInv, Engaged
  <2>7. pc[t] \in {"vm", "async"} => ~Queued(t) /\ ~Engaged(t)
    BY <2>1, Zenon DEF QueueInv, Engaged, Handed, Acquiring, ClaimLabel, OwnerLabel
  <2>8. pc[t] \in {"vm", "async"} => ~Has(t, "NOT_AT_SAFE_POINT")
    BY <2>1, <2>7, ZenonT(40) DEF QueueInv, SafePointInv
  <2> QED BY <2>2, <2>4, <2>5, <2>6, <2>8, NoEarlyResponse, ZenonT(40)
<1>2. Init => SafePointInv
  BY Zenon DEF Init, SafePointInv
<1> QED BY <1>1, <1>2, NextSafePoint, InvariantHolds, PTL DEF Spec

-----------------------------------------------------------------------------
(* What exclusive access means. *)

(* When acquireExclusiveVMAccess has returned, no other thread runs in the VM
   or holds pointers into the heap from a JNI critical region. *)
THEOREM ExclusiveSafe == Spec => []ExclusiveMeansAlone
<1>1. IInv => ExclusiveMeansAlone
  BY OwnerAlone, ThreadsAreCounted, ZenonT(40) DEF ExclusiveMeansAlone
<1> QED BY <1>1, InvariantHolds, PTL

(* The response counters that end the wait of acquireExclusiveVMAccess are
   always the number of threads it still awaits. *)
THEOREM CountersExact == Spec => []ResponsesAccounted
<1>1. IInv => ResponsesAccounted
  BY Zenon DEF IInv
<1> QED BY <1>1, InvariantHolds, PTL

-----------------------------------------------------------------------------
(* VM access implements StopTheWorld. *)

(* The requester that is not queued and has no exclusive access yet is the one that
   acquireExclusiveVMAccess serves. *)
LEMMA ClaimantEngaged ==
    IInv => Claimant = {u \in Thread : Engaged(u) /\ pc[u] \notin OwnerLabel}
<1> SUFFICES ASSUME IInv, NEW u \in Thread
             PROVE  u \in Claimant <=> Engaged(u) /\ pc[u] \notin OwnerLabel
  BY Zenon DEF Claimant
<1>1. QueueInv(u) /\ (Engaged(u) => ~Queued(u))
  BY EngagedNotQueued, ZenonT(40) DEF IInv
<1> QED BY <1>1, Zenon DEF QueueInv, Claimant, Owner, Queued

(* No thread but one is served or has exclusive access. *)
LEMMA OneEngaged ==
    IInv => \A t, u \in Thread : Engaged(t) /\ Engaged(u) => t = u
BY Zenon DEF IInv, ProgressInv, AskedInv

(* A thread that has exclusive access has it alone, and one that is served waits first. *)
LEMMA WorldView ==
    IInv => \A t \in Thread : Engaged(t) =>
              /\ pc[t] \in OwnerLabel => Owner = {t} /\ Claimant = {}
              /\ pc[t] \notin OwnerLabel => Owner = {} /\ Claimant = {t}
<1> SUFFICES ASSUME IInv, NEW t \in Thread, Engaged(t)
             PROVE  /\ pc[t] \in OwnerLabel => Owner = {t} /\ Claimant = {}
                    /\ pc[t] \notin OwnerLabel => Owner = {} /\ Claimant = {t}
  OBVIOUS
<1>1. \A u \in Thread : Engaged(u) => u = t
  BY OneEngaged, Zenon
<1>2. \A u \in Thread : pc[u] \in OwnerLabel => u = t
  BY <1>1, Zenon DEF Engaged
<1>3. Claimant = {u \in Thread : Engaged(u) /\ pc[u] \notin OwnerLabel}
  BY ClaimantEngaged, Zenon
<1> QED BY <1>1, <1>2, <1>3, ZenonT(40) DEF Owner

(* Exclusive access means alone, in the terms of StopTheWorld. *)
LEMMA OwnerRunsAlone ==
    IInv => \A t \in Owner : Running = {t}
<1> SUFFICES ASSUME IInv, NEW t \in Owner PROVE Running = {t}
  OBVIOUS
<1>1. ExclusiveMeansAlone
  BY OwnerAlone, ThreadsAreCounted, Zenon DEF ExclusiveMeansAlone
<1> QED BY <1>1, Zenon DEF ExclusiveMeansAlone, Running, RunsInVM, Owner

(* The same after a step. *)
LEMMA AfterStep ==
    IInv' => /\ \A t \in Owner' : Running' = {t}
             /\ \A t \in Thread : Engaged(t)' =>
                  /\ pc'[t] \in OwnerLabel => Owner' = {t} /\ Claimant' = {}
                  /\ pc'[t] \notin OwnerLabel => Owner' = {} /\ Claimant' = {t}
             /\ Claimant' = {u \in Thread : Engaged(u)' /\ pc'[u] \notin OwnerLabel}
<1>1. (IInv => \A t \in Owner : Running = {t})'
  BY OwnerRunsAlone, PTL
<1>2. (IInv => \A t \in Thread : Engaged(t) =>
              /\ pc[t] \in OwnerLabel => Owner = {t} /\ Claimant = {}
              /\ pc[t] \notin OwnerLabel => Owner = {} /\ Claimant = {t})'
  BY WorldView, PTL
<1>3. (IInv => Claimant = {u \in Thread : Engaged(u) /\ pc[u] \notin OwnerLabel})'
  BY ClaimantEngaged, PTL
<1> QED BY <1>1, <1>2, <1>3, ZenonT(40)

(* Whether t runs is all that a step may change in view of StopTheWorld: it starts, or
   stops, while nobody has exclusive access, or the step is not seen at all. *)
LEMMA UnseenStep ==
    ASSUME IInv, IInv', NEW t \in Thread,
           exclusiveVMAccessQueue' = exclusiveVMAccessQueue,
           \A u \in Thread : /\ exclusiveCount'[u] > 0 <=> exclusiveCount[u] > 0
                             /\ pc'[u] \in OwnerLabel <=> pc[u] \in OwnerLabel,
           \A u \in Thread \ {t} : /\ RunsInVM(u)' <=> RunsInVM(u)
                                   /\ Has(u, "JNI_CRITICAL_ACCESS")' <=> Has(u, "JNI_CRITICAL_ACCESS")
    PROVE  [World!Next]_World!worldVars
<1>1. Owner' = Owner
  BY Zenon DEF Owner
<1>2. Claimant' = Claimant
  BY <1>1, Zenon DEF Claimant
<1>3. TheOne(Owner)' = TheOne(Owner) /\ Waiters' = Waiters
  BY <1>1, <1>2 DEF TheOne, Waiters
<1>4. Running' \ {t} = Running \ {t}
  BY Zenon DEF Running
<1>5. CASE Running' = Running
  BY <1>3, <1>5, ZenonT(40) DEF World!worldVars
<1>6. CASE Owner # {}
  <2>1. PICK o \in Owner : TRUE
    BY <1>6, Zenon
  <2>2. Running = {o} /\ Running' = {o}
    BY <1>1, OwnerRunsAlone, AfterStep, ZenonT(40)
  <2> QED BY <1>5, <2>2, ZenonT(40)
<1>7. CASE Owner = {} /\ Running' # Running
  <2>1. TheOne(Owner) = NoThread /\ NoThread # t
    BY <1>7, ThreadAssumption, Zenon DEF TheOne
  <2>2. Running' = Running \cup {t} \/ Running' = Running \ {t}
    BY <1>4, Zenon
  <2>3. World!Start(t) \/ World!Stop(t)
    BY <1>3, <2>1, <2>2, ZenonT(40) DEF World!Start, World!Stop
  <2> QED BY <2>3, Zenon DEF World!Next
<1> QED BY <1>5, <1>6, <1>7, ZenonT(40)

(* Every step of VMAccess is such a step. *)
LEMMA AccessStopsTheWorld ==
    ASSUME IInv, IInv', NEW t \in Thread, AccessEffect(t)
    PROVE  [World!Next]_World!worldVars
<1>1. Frame(t) /\ Kept(t)
  BY Zenon DEF AccessEffect
<1>2. ASSUME NEW u \in Thread PROVE pc'[u] \in OwnerLabel <=> pc[u] \in OwnerLabel
  BY <1>1, Zenon DEF Frame, Kept, Unengaged, RequestLabel, OwnerLabel
<1>3. ASSUME NEW u \in Thread \ {t}
      PROVE  /\ RunsInVM(u)' <=> RunsInVM(u)
             /\ Has(u, "JNI_CRITICAL_ACCESS")' <=> Has(u, "JNI_CRITICAL_ACCESS")
  BY <1>1, OthersKept, Zenon
<1>4. exclusiveVMAccessQueue' = exclusiveVMAccessQueue /\ exclusiveCount' = exclusiveCount
  BY <1>1, Zenon DEF Frame, requestVars
<1> QED BY <1>2, <1>3, <1>4, UnseenStep, ZenonT(40)

(* Nor are the steps of a request seen that neither grant nor release exclusive access ... *)
LEMMA RequestUnseen ==
    ASSUME IInv, IInv', NEW t \in Thread,
           \/ Granted(t) \/ AcceptHandOff(t) \/ PostBegin(t) \/ Flush(t) \/ PostEnd(t)
           \/ \E u \in Thread : PostHalt(t, u) \/ PostCount(t, u) \/ Notify(t, u)
           \/ Await(t) /\ pc'[t] # "exclusiveList"
           \/ EnterExclusive(t) \/ ReleaseExclusiveNested(t) \/ NotifyEnd(t)
           \/ AcquireExclusiveNested(t)
    PROVE  [World!Next]_World!worldVars
<1> USE DEF Goto, WithFlags, Halted, OwnerLabel, ClaimLabel, bufferVars, flagVars, pfmVars,
            criticalVars, localVars, countVars, stateVars, vmVars, expectVars, requestVars
<1>1. /\ publicFlags \in [Thread -> SUBSET Flag] /\ pc \in [Thread -> Label]
      /\ exclusiveCount \in [Thread -> 0..MaxExclusiveDepth]
  BY Zenon DEF IInv, TypeOK, FlagTypes, PlaceTypes, CountTypes
<1>2. exclusiveVMAccessQueue' = exclusiveVMAccessQueue /\ ret' = ret
  BY Zenon DEF Granted, AcceptHandOff, PostBegin, Flush, PostEnd, PostHalt, PostCount, Notify,
     Await, EnterExclusive, ReleaseExclusiveNested, NotifyEnd, AcquireExclusiveNested
<1>3. ASSUME NEW u \in Thread PROVE exclusiveCount'[u] > 0 <=> exclusiveCount[u] > 0
  <2>1. CASE ReleaseExclusiveNested(t) \/ AcquireExclusiveNested(t)
    <3>1. pc[t] = "exclusive" /\ QueueInv(t) /\ Engaged(t)
      BY <2>1, ZenonT(40) DEF ReleaseExclusiveNested, AcquireExclusiveNested, IInv, Engaged
    <3>2. exclusiveCount[t] > 0
      BY <3>1, ZenonT(40) DEF QueueInv
    <3> QED BY <1>1, <2>1, <3>2, RequesterAssumption DEF ReleaseExclusiveNested,
        AcquireExclusiveNested
  <2>2. CASE ~(ReleaseExclusiveNested(t) \/ AcquireExclusiveNested(t))
    BY <2>2, ZenonT(40) DEF Granted, AcceptHandOff, PostBegin, Flush, PostEnd, PostHalt, PostCount,
       Notify, Await, EnterExclusive, NotifyEnd
  <2> QED BY <2>1, <2>2, ZenonT(40)
<1>4. ASSUME NEW u \in Thread
      PROVE  /\ pc'[u] \in OwnerLabel <=> pc[u] \in OwnerLabel
             /\ u # t => pc'[u] = pc[u]
  <2>1. CASE Await(t) /\ pc'[t] # "exclusiveList"
    BY <1>1, <2>1, ZenonT(40) DEF Await, AwaitVM, AwaitJNI
  <2>2. CASE ~(Await(t) /\ pc'[t] # "exclusiveList")
    BY <1>1, <2>2, ZenonT(40) DEF Granted, AcceptHandOff, PostBegin, Flush, PostEnd, PostHalt, PostCount,
       Notify, EnterExclusive, ReleaseExclusiveNested, NotifyEnd, AcquireExclusiveNested
  <2> QED BY <2>1, <2>2, ZenonT(40)
<1>5. ASSUME NEW u \in Thread
      PROVE  Has(u, "JNI_CRITICAL_ACCESS")' <=> Has(u, "JNI_CRITICAL_ACCESS")
  <2>1. CASE \E v \in Thread : PostHalt(t, v) \/ PostCount(t, v)
    BY <1>1, <2>1 DEF PostHalt, PostCount
  <2>2. CASE Granted(t)
    BY <1>1, <2>2, ZenonT(40) DEF Granted
  <2>3. CASE ~Granted(t) /\ ~\E v \in Thread : PostHalt(t, v) \/ PostCount(t, v)
    BY <2>3, Zenon DEF AcceptHandOff, PostBegin, Flush, PostEnd, Notify, Await, EnterExclusive,
       ReleaseExclusiveNested, NotifyEnd, AcquireExclusiveNested
  <2> QED BY <2>1, <2>2, <2>3, ZenonT(40)
<1>6. ASSUME NEW u \in Thread \ {t} PROVE RunsInVM(u)' <=> RunsInVM(u)
  BY <1>2, <1>4, Zenon DEF RunsInVM
<1> QED BY <1>2, <1>3, <1>4, <1>5, <1>6, UnseenStep, ZenonT(40)

(* ... or those of a thread that is created or dies. *)
LEMMA LifecycleUnseen ==
    ASSUME IInv, IInv', NEW t \in Thread, Lifecycle(t)
    PROVE  [World!Next]_World!worldVars
<1> USE DEF Goto, WithFlags, OwnerLabel, ClaimLabel, bufferVars, flagVars, pfmVars, criticalVars,
            localVars, countVars, stateVars, vmVars, expectVars, requestVars
<1>1. publicFlags \in [Thread -> SUBSET Flag] /\ pc \in [Thread -> Label]
  BY Zenon DEF IInv, TypeOK, FlagTypes, PlaceTypes
<1>2. /\ exclusiveVMAccessQueue' = exclusiveVMAccessQueue /\ ret' = ret
      /\ exclusiveCount' = exclusiveCount
  BY Zenon DEF Lifecycle, AllocateVMThread, DeallocateWait, DeallocateVMThread
<1>3. ASSUME NEW u \in Thread
      PROVE  /\ pc'[u] \in OwnerLabel <=> pc[u] \in OwnerLabel
             /\ u # t => pc'[u] = pc[u] /\ publicFlags'[u] = publicFlags[u]
  BY <1>1, Zenon DEF Lifecycle, AllocateVMThread, DeallocateWait, DeallocateVMThread
<1>4. ASSUME NEW u \in Thread \ {t} PROVE RunsInVM(u)' <=> RunsInVM(u)
  BY <1>2, <1>3, ZenonT(40) DEF RunsInVM
<1> QED BY <1>2, <1>3, <1>4, UnseenStep, ZenonT(40)

(* The end of the wait in acquireExclusiveVMAccess grants the first waiter. *)
LEMMA AwaitGrants ==
    ASSUME IInv, IInv', NEW t \in Thread, Await(t), pc'[t] = "exclusiveList"
    PROVE  World!Next
<1> USE DEF OwnerLabel, ClaimLabel
<1>1. /\ pc \in [Thread -> Label] /\ pc[t] \in ClaimLabel /\ exclusiveVMAccessQueue \in Seq(Thread)
      /\ exclusiveVMAccessQueue' = exclusiveVMAccessQueue
      /\ publicFlags' = publicFlags /\ ret' = ret /\ pc' = [pc EXCEPT ![t] = "exclusiveList"]
  BY Zenon DEF IInv, TypeOK, PlaceTypes, RequestTypes, Await, AwaitVM, AwaitJNI, Goto, flagVars
<1>2. Owner = {} /\ Claimant = {t} /\ Owner' = {t} /\ Claimant' = {}
  BY <1>1, WorldView, AfterStep, ZenonT(40) DEF Engaged
<1>3. TheOne(Owner) = NoThread /\ TheOne(Owner)' = t
  BY <1>2, Zenon DEF TheOne
<1>4. Waiters = <<t>> \o exclusiveVMAccessQueue /\ Waiters' = exclusiveVMAccessQueue
  BY <1>1, <1>2, ZenonT(40) DEF Waiters, TheOne
<1>5. Waiters # <<>> /\ Head(Waiters) = t /\ Tail(Waiters) = exclusiveVMAccessQueue
  BY <1>1, <1>4, HeadTailProperties, ConcatProperties
<1>6. Running' = {t}
  BY <1>2, AfterStep, Zenon
<1>7. Running' = Running
  BY <1>1, Zenon DEF Running, RunsInVM
<1> QED BY <1>3, <1>4, <1>5, <1>6, <1>7, ZenonT(40) DEF World!Next, World!Grant

(* releaseExclusiveVMAccess lets go: whom the access is handed to stays the first to
   wait. *)
LEMMA ReleaseReleases ==
    ASSUME IInv, IInv', NEW t \in Thread, HandOff(t) \/ ReleaseExclusive(t)
    PROVE  World!Next
<1> USE DEF OwnerLabel, ClaimLabel
<1> DEFINE q == exclusiveVMAccessQueue
<1>1. /\ pc \in [Thread -> Label] /\ publicFlags \in [Thread -> SUBSET Flag]
      /\ q \in Seq(Thread) /\ exclusiveCount \in [Thread -> 0..MaxExclusiveDepth]
  BY Zenon DEF IInv, TypeOK, PlaceTypes, FlagTypes, RequestTypes, CountTypes
<1>2. /\ pc[t] = "exclusive" /\ pc' = [pc EXCEPT ![t] = "notify"] /\ ret' = ret
      /\ exclusiveCount' = [exclusiveCount EXCEPT ![t] = 0]
  BY Zenon DEF HandOff, ReleaseExclusive, Goto
<1>3. Owner = {t} /\ Claimant = {}
  BY <1>2, WorldView, Zenon DEF Engaged
<1>4. Owner' = {}
  BY <1>1, <1>2, <1>3, ZenonT(40) DEF Owner
<1>5. TheOne(Owner) = t /\ TheOne(Owner)' = NoThread /\ Waiters = q
  BY <1>3, <1>4, Zenon DEF TheOne, Waiters
<1>6. ASSUME NEW u \in Thread
      PROVE  Has(u, "JNI_CRITICAL_ACCESS")' <=> Has(u, "JNI_CRITICAL_ACCESS")
  <2>1. CASE HandOff(t)
    <3>1. /\ publicFlags' = [publicFlags EXCEPT
                               ![t] = (@ \ {"NOT_AT_SAFE_POINT"}) \cup {"HALT_EXCLUSIVE"},
                               ![Head(q)] = @ \ Halted]
          /\ Head(q) \in Thread
      BY <1>1, <2>1 DEF HandOff
    <3> HIDE DEF q
    <3> QED BY <1>1, <3>1, ZenonT(40) DEF Halted
  <2>2. CASE ReleaseExclusive(t)
    BY <2>2, Zenon DEF ReleaseExclusive, Halted
  <2> QED BY <2>1, <2>2, Zenon
<1>7. Running' = Running
  BY <1>1, <1>2, <1>6, ZenonT(40) DEF Running, RunsInVM
<1>8. \A u \in Thread : exclusiveCount[u] > 0 /\ u # t => Queued(u)
  <2> SUFFICES ASSUME NEW u \in Thread, exclusiveCount[u] > 0, u # t PROVE Queued(u)
    OBVIOUS
  <2> QED BY <1>3, Zenon DEF Claimant, Queued
<1>9. Waiters' = q
  <2>1. CASE ReleaseExclusive(t)
    <3>1. q = <<>> /\ q' = <<>>
      BY <2>1, Zenon DEF ReleaseExclusive
    <3>2. Claimant' = {}
      BY <1>1, <1>2, <1>8, <3>1 DEF Claimant, Queued
    <3> QED BY <3>1, <3>2, ZenonT(40) DEF Waiters
  <2>2. CASE HandOff(t)
    <3>1. /\ q # <<>> /\ q' = Tail(q)
      BY <2>2, Zenon DEF HandOff
    <3>2. PICK next \in Thread : next = Head(q) /\ Queued(next) /\ ~Queued(next)'
      BY <1>1, <3>1, TailQueued, ZenonT(40) DEF IInv
    <3>3. pc[next] \in Acquiring /\ ret[next] = "granted"
      BY <3>2, ZenonT(40) DEF IInv, QueueInv
    <3>4. Engaged(next)' /\ pc'[next] \notin OwnerLabel
      BY <1>1, <1>2, <3>2, <3>3, ZenonT(40) DEF Engaged, Handed, Acquiring
    <3>5. Claimant' = {next}
      BY <3>4, AfterStep, ZenonT(40)
    <3>6. Waiters' = <<next>> \o Tail(q)
      BY <3>1, <3>5, ZenonT(40) DEF Waiters, TheOne
    <3>7. q = <<next>> \o Tail(q)
      BY <1>1, <3>1, <3>2
    <3> QED BY <3>6, <3>7, Zenon
  <2> QED BY <2>1, <2>2, ZenonT(40)
<1> QED BY <1>5, <1>7, <1>9, ZenonT(40) DEF World!Next, World!Release

(* Who asks first while nobody else does is the only one to wait. *)
LEMMA FirstRequests ==
    ASSUME IInv, IInv', NEW t \in Thread, AcquireExclusiveFirst(t)
    PROVE  World!Next
<1> USE DEF OwnerLabel, ClaimLabel
<1>1. /\ pc \in [Thread -> Label] /\ publicFlags \in [Thread -> SUBSET Flag]
      /\ exclusiveVMAccessQueue \in Seq(Thread)
  BY Zenon DEF IInv, TypeOK, PlaceTypes, FlagTypes, RequestTypes
<1>2. /\ pc[t] = "vm" /\ pc' = [pc EXCEPT ![t] = "postList"] /\ ret' = ret
      /\ exclusiveVMAccessQueue' = exclusiveVMAccessQueue
      /\ exclusiveAccessState = "NONE"
      /\ publicFlags' = [publicFlags EXCEPT ![t] = (@ \ {}) \cup {"NOT_AT_SAFE_POINT"}]
  BY Zenon DEF AcquireExclusiveFirst, Goto, WithFlags
<1>3. \A u \in Thread : ~Engaged(u) /\ ~Queued(u)
  BY <1>2, ZenonT(40) DEF IInv, StateInv
<1>4. exclusiveVMAccessQueue = <<>>
  BY <1>1, <1>3, EmptySeq DEF Queued
<1>5. Owner = {} /\ Claimant = {}
  BY <1>3, ClaimantEngaged, ZenonT(40) DEF Owner, Engaged
<1>6. Owner' = {} /\ Claimant' = {t}
  BY <1>1, <1>2, AfterStep, ZenonT(40) DEF Engaged
<1>7. /\ TheOne(Owner) = NoThread /\ TheOne(Owner)' = NoThread /\ NoThread # t
      /\ Waiters = <<>> /\ Waiters' = <<t>> \o <<>>
  BY <1>2, <1>4, <1>5, <1>6, ThreadAssumption, ZenonT(40) DEF TheOne, Waiters
<1>8. Running' = Running
  BY <1>1, <1>2, ZenonT(40) DEF Running, RunsInVM
<1> QED BY <1>7, <1>8 DEF World!Next, World!Request

(* Who finds somebody else at it joins the end of the queue and stops running, if it
   does not stay in a JNI critical region until it has responded. *)
LEMMA QueuedRequests ==
    ASSUME IInv, IInv', NEW t \in Thread, AcquireExclusiveQueued(t)
    PROVE  World!Next
<1> USE DEF OwnerLabel, ClaimLabel
<1> DEFINE q == exclusiveVMAccessQueue
<1>1. /\ pc \in [Thread -> Label] /\ ret \in [Thread -> ReturnLabel]
      /\ publicFlags \in [Thread -> SUBSET Flag] /\ q \in Seq(Thread)
      /\ exclusiveCount \in [Thread -> 0..MaxExclusiveDepth]
  BY ZenonT(40) DEF IInv, TypeOK, PlaceTypes, FlagTypes, RequestTypes, CountTypes
<1>2. /\ pc[t] = "vm" /\ pc' = [pc EXCEPT ![t] = "acquire"]
      /\ ret' = [ret EXCEPT ![t] = "granted"]
      /\ q' = Append(q, t) /\ exclusiveCount[t] = 0
      /\ exclusiveCount' = [exclusiveCount EXCEPT ![t] = 1]
  BY Zenon DEF AcquireExclusiveQueued, Goto
<1>3. \A u \in Thread \ {t} : publicFlags'[u] = publicFlags[u]
  BY <1>1, ZenonT(40) DEF AcquireExclusiveQueued, WithFlags
<1>4. Has(t, "JNI_CRITICAL_ACCESS")' => Has(t, "JNI_CRITICAL_ACCESS")
  BY <1>1, Zenon DEF AcquireExclusiveQueued, WithFlags
<1>5. Running' \in {Running, Running \ {t}}
  BY <1>1, <1>2, <1>3, <1>4, ZenonT(40) DEF Running, RunsInVM
<1>6. Owner' = Owner /\ t \notin Owner /\ t \notin Claimant
  BY <1>1, <1>2 DEF Owner, Claimant
<1>7. TheOne(Owner)' = TheOne(Owner) /\ TheOne(Owner) # t
  <2>1. NoThread # t
    BY ThreadAssumption, ZenonT(40)
  <2> QED BY <1>6, <2>1 DEF TheOne
<1>8. ~Queued(t)
  BY <1>2, ZenonT(40) DEF IInv, QueueInv, Acquiring
<1>9. /\ DOMAIN q' = 1..(Len(q) + 1) /\ DOMAIN q = 1..Len(q) /\ Len(q) \in Nat
      /\ \A i \in 1..Len(q) : q'[i] = q[i]
      /\ q'[Len(q) + 1] = t
  BY <1>1, <1>2
<1>10. Claimant' = Claimant
  <2>1. Queued(t)' /\ \A u \in Thread \ {t} : Queued(u)' <=> Queued(u)
    BY <1>1, <1>2, <1>8, AppendQueued, ZenonT(40) DEF IInv
  <2>2. \A u \in Thread : u # t => exclusiveCount'[u] = exclusiveCount[u]
    BY <1>1, <1>2, Zenon
  <2>3. Claimant' = {u \in Thread : exclusiveCount'[u] > 0 /\ u \notin Owner /\ ~Queued(u)'}
    BY <1>6, Zenon DEF Claimant, Queued
  <2>4. Claimant = {u \in Thread : exclusiveCount[u] > 0 /\ u \notin Owner /\ ~Queued(u)}
    BY Zenon DEF Claimant, Queued
  <2> QED BY <1>6, <2>1, <2>2, <2>3, <2>4, ZenonT(40)
<1>11. Waiters' = Append(Waiters, t) /\ \A i \in DOMAIN Waiters : Waiters[i] # t
  <2>1. CASE Claimant = {}
    BY <1>2, <1>8, <1>10, <2>1, ZenonT(40) DEF Waiters, Queued
  <2>2. CASE Claimant # {}
    <3>1. PICK c \in Thread \ {t} : TheOne(Claimant) = c
      BY <1>6, <2>2, Zenon DEF TheOne, Claimant
    <3>2. Waiters = <<c>> \o q /\ Waiters' = <<c>> \o Append(q, t)
      BY <1>2, <1>10, <2>2, <3>1, ZenonT(40) DEF Waiters
    <3>3. \A i \in DOMAIN (<<c>> \o q) : (<<c>> \o q)[i] # t
      BY <1>1, <1>8, <1>9, <3>1 DEF Queued
    <3>4. <<c>> \o Append(q, t) = Append(<<c>> \o q, t)
      BY <1>1
    <3> QED BY <3>2, <3>3, <3>4, ZenonT(40)
  <2> QED BY <2>1, <2>2, Zenon
<1> QED BY <1>5, <1>7, <1>11, ZenonT(40) DEF World!Next, World!Request

(* Every step of a reachable state is a step of StopTheWorld, or one it does not see. *)
LEMMA NextStopsTheWorld == IInv /\ IInv' /\ [Next]_vars => [World!Next]_World!worldVars
<1> SUFFICES ASSUME IInv, IInv', [Next]_vars PROVE [World!Next]_World!worldVars
  OBVIOUS
<1>1. ASSUME NEW t \in Thread, Access(t) \/ DrainOne(t), UNCHANGED requestVars
      PROVE  [World!Next]_World!worldVars
  <2>1. Local(t) /\ QueueInv(t) /\ TypeOK
    BY Zenon DEF IInv, Local
  <2>2. TypeOK'
    BY Zenon DEF IInv
  <2>3. AccessEffect(t)
    BY <1>1, <2>1, <2>2, EveryAccessEffect, ZenonT(40)
  <2> QED BY <2>3, AccessStopsTheWorld, ZenonT(40)
<1>2. ASSUME NEW t \in Thread, RequestStep(t) PROVE [World!Next]_World!worldVars
  <2>1. CASE Await(t) /\ pc'[t] = "exclusiveList"
    BY <2>1, AwaitGrants, ZenonT(40)
  <2>2. CASE HandOff(t) \/ ReleaseExclusive(t)
    BY <2>2, ReleaseReleases, Zenon
  <2>3. CASE ~(HandOff(t) \/ ReleaseExclusive(t)) /\ ~(Await(t) /\ pc'[t] = "exclusiveList")
    BY <1>2, <2>3, RequestUnseen, ZenonT(40) DEF RequestStep
  <2> QED BY <2>1, <2>2, <2>3, ZenonT(40)
<1>3. ASSUME NEW t \in Thread, RequestBegin(t) PROVE [World!Next]_World!worldVars
  BY <1>3, RequestUnseen, FirstRequests, QueuedRequests, ZenonT(40) DEF RequestBegin
<1>4. ASSUME NEW t \in Thread, Lifecycle(t) PROVE [World!Next]_World!worldVars
  BY <1>4, LifecycleUnseen, ZenonT(40)
<1>5. CASE UNCHANGED vars
  <2>1. /\ publicFlags' = publicFlags /\ pc' = pc /\ ret' = ret
        /\ exclusiveCount' = exclusiveCount /\ exclusiveVMAccessQueue' = exclusiveVMAccessQueue
    BY <1>5, Zenon DEF vars, flagVars, localVars, requestVars
  <2>2. Running' = Running
    BY <2>1, Zenon DEF Running, RunsInVM
  <2>3. Owner' = Owner
    BY <2>1, ZenonT(40) DEF Owner
  <2>4. Claimant' = Claimant
    BY <2>1, <2>3, ZenonT(40) DEF Claimant
  <2> QED BY <2>1, <2>2, <2>3, <2>4 DEF World!worldVars, TheOne, Waiters
<1> QED BY <1>1, <1>2, <1>3, <1>4, <1>5, Zenon DEF Next, ThreadNext

(* The flags, counters, hand-offs and monitors of VMAccess.cpp implement
   StopTheWorld for any set of threads: requests are granted in the order of
   arrival, to a thread that runs alone, and nobody starts until it has released. *)
THEOREM StopsTheWorld == Spec => ImplementsStopTheWorld
<1>1. Init => World!Init
  <2> SUFFICES ASSUME Init PROVE World!Init
    OBVIOUS
  <2>1. ASSUME NEW t \in Thread
        PROVE  ~RunsInVM(t) /\ publicFlags[t] = {} /\ pc[t] \notin OwnerLabel /\ exclusiveCount[t] = 0
    BY RequesterAssumption, ZenonT(40) DEF Init, RunsInVM, ClaimLabel, OwnerLabel
  <2>2. Running = {} /\ Owner = {} /\ Claimant = {} /\ exclusiveVMAccessQueue = <<>>
    BY <2>1 DEF Init, Running, Owner, Claimant
  <2> QED BY <2>2, Zenon DEF World!Init, TheOne, Waiters
<1> QED BY <1>1, InvariantHolds, NextStopsTheWorld, PTL DEF Spec, ImplementsStopTheWorld, World!Spec
=============================================================================
