-------------------------- MODULE InspectionProofs --------------------------
(***************************************************************************)
(* Proofs about ThreadInspection, for any threads, inspectors, suspenders  *)
(* and bounds: requests to halt a thread are counted; and where at most    *)
(* one thread asks for exclusive VM access, a thread that is inspected or  *)
(* suspended stays out of the VM.                                          *)
(***************************************************************************)
EXTENDS ThreadInspection, FiniteSetTheorems, TLAPS

(* The hypotheses.  A target is kept alive by its inspectorCount; a second thread that asks
   for exclusive VM access is queued, and haltThreadForInspection does not wait for a queued
   target. *)
NobodyDies   == Mortal = {}
OneRequester == \A r, s \in Requester : r = s

(* What a place and the place to return to say of a thread. *)
Acquiring == {"acquire", "acquireRespond", "test", "wait"}

Within(l, r) ==
    \/ l \in {"vm", "async", "criticalVM", "criticalCount", "accept", "notify"}
    \/ l \in {"postList", "post", "count", "await", "awaitVM", "awaitJNI", "exclusiveList", "exclusive"}
    \/ l \in {"criticalExit", "criticalExitRespond"} /\ r = "vm"
    \/ l \in InspectInVM
Granting(l, r) == l = "granted" \/ (l \in Acquiring /\ r = "granted")
In(l, r)       == Within(l, r) \/ Granting(l, r)

(* It asks for exclusive access, has it, or is about to let go of it. *)
Claiming(l, r) == Granting(l, r) \/ l \in RequestLabel

WithAccess(l, r) == Within(l, r) \/ l \in {"release", "critical", "granted"}

InNative(l, r) ==
    \/ l \in {"native", "exitCheck", "exit", "criticalNative", "suspendWaiting"}
    \/ l \in {"respond", "criticalExit", "criticalExitRespond"} /\ r = "native"

(* Where the routines that release and acquire VM access return to. *)
Returning(l, r) ==
    /\ l = "release" => r \in {"released", "inspectWait", "resumeAcquire"}
    /\ l = "respond" => r \in {"released", "native", "vm", "critical", "async", "inspectWait",
         "resumeAcquire"}
    /\ l \in Acquiring => r \in {"vm", "critical", "async", "granted", "inspectCheck", "inspect"}
    /\ l \in {"criticalExit", "criticalExitRespond"} => r \in {"vm", "native"}
    /\ l \notin DeathLabel

Asking(l, r) ==
    \/ l \in {"inspectRelease", "inspectWait", "inspectWaiting", "inspectAcquire", "inspectCheck",
              "inspectCancel", "inspected"}
    \/ l \in {"release", "respond"} /\ r = "inspectWait"
    \/ l \in Acquiring /\ r = "inspectCheck"

(* It has found its target halted. *)
Found(l, r) ==
    \/ l \in {"inspectAcquire", "inspectCheck", "inspected"}
    \/ l \in Acquiring /\ r = "inspectCheck"

(* A place for each thread. *)
ByThread(f) == f = [u \in Thread |-> f[u]]

Types ==
    /\ publicFlags \in [Thread -> SUBSET Flag]
    /\ inNative \in [Thread -> BOOLEAN] /\ storeBuffer \in [Thread -> Seq(BOOLEAN)]
    /\ ByThread(pc) /\ ByThread(ret)

InspectTypes ==
    /\ inspectionSuspendCount \in [Thread -> Nat]
    /\ target \in [Thread -> Thread \cup {NoThread}]
    /\ suspended \subseteq Thread

(* What the place of a thread says of its flags. *)
PlaceInv(t) ==
    /\ Returning(pc[t], ret[t])
    /\ WithAccess(pc[t], ret[t]) => Has(t, "VM_ACCESS")
    /\ OwnInNative(t) => InNative(pc[t], ret[t])

TargetInv == \A t \in Thread : Asking(pc[t], ret[t]) => target[t] \in Thread \ {t}

(* The places by what they say: outside the VM and of native code, in native code, in the VM,
   in it about to cancel an inspection, and those of an inspection under way. *)
RestOut   == {"released", "enterCheck", "enter", "resumeAcquire"}
NativeOut == {"native", "exitCheck", "exit", "criticalNative", "suspendWaiting"}
PlainIn   == {"vm", "async", "criticalVM", "criticalCount", "inspect"}
ClaimIn   == {"accept", "notify", "postList", "post", "count", "await", "awaitVM", "awaitJNI",
              "exclusiveList", "exclusive"}
ResumeIn  == {"resumeCheck", "resumeRelease"}
CancelIn  == {"inspectCheck", "inspectCancel"}
AskIn     == {"inspectRelease", "inspected"}
AskOut    == {"inspectWait", "inspectWaiting", "inspectAcquire"}
CriticalOut == {"criticalExit", "criticalExitRespond"}

(* What a step of t does to the four variables that places speak of. *)
PcTo(t, l)  == ByThread(pc)' /\ pc'[t] = l /\ \A u \in Thread \ {t} : pc'[u] = pc[u]
RetTo(t, r) == ByThread(ret)' /\ ret'[t] = r /\ \A u \in Thread \ {t} : ret'[u] = ret[u]
FlagsTo(t, F) ==
    /\ publicFlags' \in [Thread -> SUBSET Flag] /\ publicFlags'[t] = F
    /\ \A u \in Thread \ {t} : publicFlags'[u] = publicFlags[u]
Owns(t, n) ==
    /\ inNative' \in [Thread -> BOOLEAN] /\ storeBuffer' \in [Thread -> Seq(BOOLEAN)]
    /\ OwnInNative(t)' = n
    /\ \A u \in Thread \ {t} : OwnInNative(u)' = OwnInNative(u)

(* Halted before the step means halted after it, for as long as the flag is set. *)
StaysOut(t, l, r) ==
    /\ (~In(pc[t], ret[t]) \/ pc[t] \in Cancelling) /\ Has(t, "HALT_INSPECTION")
         => ~In(l, r) \/ l \in Cancelling
    /\ ~In(pc[t], ret[t]) /\ Has(t, "HALT_JAVA_SUSPEND") => ~In(l, r)
(* What a wait for the target has found out. *)
Waited(t) == ~Within(pc[target[t]], ret[target[t]])
SameAsking(t, l, r) ==
    /\ Asking(l, r) <=> Asking(pc[t], ret[t])
    /\ Found(l, r) => Found(pc[t], ret[t]) \/ Waited(t)

(* It takes no part in exclusive access, if it was not queued for it. *)
Unclaimed(t, l, r) ==
    Claiming(l, r) \/ Claiming(pc[t], ret[t])
      => Granting(pc[t], ret[t]) \/ (l = pc[t] /\ r = ret[t])

(* The places and flags that t may go to by a step of its own. *)
Lawful(t, l, r, F, n) ==
    /\ Returning(l, r) /\ (WithAccess(l, r) => "VM_ACCESS" \in F) /\ (n => InNative(l, r))
    /\ "HALT_INSPECTION" \in F <=> Has(t, "HALT_INSPECTION")
    /\ "HALT_JAVA_SUSPEND" \in F <=> Has(t, "HALT_JAVA_SUSPEND")
    /\ StaysOut(t, l, r) /\ SameAsking(t, l, r)

(* What a step of t does that halts and resumes nobody, and one that is no request either. *)
Same(u) == /\ pc'[u] = pc[u] /\ ret'[u] = ret[u] /\ OwnInNative(u)' = OwnInNative(u)
           /\ Has(u, "VM_ACCESS")' <=> Has(u, "VM_ACCESS")
Kept(u) == /\ Has(u, "HALT_INSPECTION")' <=> Has(u, "HALT_INSPECTION")
           /\ Has(u, "HALT_JAVA_SUSPEND")' <=> Has(u, "HALT_JAVA_SUSPEND")
Calm(t) ==
    /\ Types' /\ PlaceInv(t)'
    /\ \A u \in Thread \ {t} : Same(u)
    /\ \A u \in Thread : Kept(u)
    /\ StaysOut(t, pc'[t], ret'[t]) /\ SameAsking(t, pc'[t], ret'[t])
Quiet(t) == Calm(t) /\ Unclaimed(t, pc'[t], ret'[t])

(* The inspectors that have asked u to halt, as InspectionsCounted counts them. *)
Askers(u)  == {t \in Thread : target[t] = u /\ Asking(pc[t], ret[t])}
Counted(u) == /\ inspectionSuspendCount[u] = Cardinality(Askers(u))
              /\ inspectionSuspendCount[u] > 0 <=> Has(u, "HALT_INSPECTION")

CountInv ==
    /\ Types /\ InspectTypes
    /\ \A t \in Thread : PlaceInv(t)
    /\ TargetInv
    /\ \A u \in Thread : Counted(u)

(* With one requester nobody is ever queued. *)
NoQueue ==
    /\ exclusiveVMAccessQueue = <<>>
    /\ \A t \in Thread : /\ ~Granting(pc[t], ret[t]) /\ pc[t] # "accept"
                         /\ Claiming(pc[t], ret[t]) => t \in Requester
    /\ exclusiveAccessState # "NONE" => \E t \in Thread : pc[t] \in ClaimLabel \cup OwnerLabel

(* A thread is halted: out of the VM, or about to cancel an inspection of its own. *)
HaltedOut(t) == ~In(pc[t], ret[t]) \/ pc[t] \in Cancelling

FoundInv == \A t \in Thread : Found(pc[t], ret[t]) => HaltedOut(target[t])
SuspendInv == \A u \in suspended : Has(u, "HALT_JAVA_SUSPEND") /\ ~In(pc[u], ret[u])

HaltInv == NoQueue /\ FoundInv /\ SuspendInv

-----------------------------------------------------------------------------
(* What the places say, a class at a time. *)

(* A thread that has released VM access, or acquires it again after a resume, is outside the VM
   and asks for nothing. *)
LEMMA RestOutPlace ==
    \A l \in RestOut : \A r : /\ Returning(l, r) /\ ~In(l, r) /\ ~WithAccess(l, r) /\ ~InNative(l, r)
                          /\ ~Asking(l, r) /\ ~Found(l, r) /\ l \notin Cancelling /\ ~Claiming(l, r)
BY Zenon DEF RestOut, Returning, In, Within, Granting, WithAccess, InNative, Asking, Found, Acquiring,
       InspectInVM, Cancelling, DeathLabel, Claiming, RequestLabel, ClaimLabel, OwnerLabel

(* A thread in a native method, and a suspender that waits in one, is outside the VM, whatever
   its VM access flag says. *)
LEMMA NativeOutPlace ==
    \A l \in NativeOut : \A r : /\ Returning(l, r) /\ ~In(l, r) /\ ~WithAccess(l, r) /\ InNative(l, r)
                            /\ ~Asking(l, r) /\ ~Found(l, r) /\ l \notin Cancelling /\ ~Claiming(l, r)
BY Zenon DEF NativeOut, Returning, In, Within, Granting, WithAccess, InNative, Asking, Found, Acquiring,
       InspectInVM, Cancelling, DeathLabel, Claiming, RequestLabel, ClaimLabel, OwnerLabel

(* A thread in the VM that asks for no exclusive access has VM access and asks nobody to halt. *)
LEMMA PlainInPlace ==
    \A l \in PlainIn : \A r : /\ Returning(l, r) /\ In(l, r) /\ WithAccess(l, r) /\ ~InNative(l, r)
                          /\ ~Asking(l, r) /\ ~Found(l, r) /\ l \notin Cancelling /\ ~Claiming(l, r)
BY Zenon DEF PlainIn, Returning, In, Within, Granting, WithAccess, InNative, Asking, Found, Acquiring,
       InspectInVM, Cancelling, DeathLabel, Claiming, RequestLabel, ClaimLabel, OwnerLabel

(* A thread that acquires, has or releases exclusive VM access is in the VM. *)
LEMMA ClaimInPlace ==
    \A l \in ClaimIn : \A r : /\ Returning(l, r) /\ In(l, r) /\ WithAccess(l, r) /\ ~InNative(l, r)
                          /\ ~Asking(l, r) /\ ~Found(l, r) /\ l \notin Cancelling /\ Claiming(l, r)
                             /\ ~Granting(l, r)
BY Zenon DEF ClaimIn, Returning, In, Within, Granting, WithAccess, InNative, Asking, Found, Acquiring,
       InspectInVM, Cancelling, DeathLabel, Claiming, RequestLabel, ClaimLabel, OwnerLabel

(* resumeThreadForInspection, once the request is undone: in the VM, but allowed there while
   halted. *)
LEMMA ResumeInPlace ==
    \A l \in ResumeIn : \A r : /\ Returning(l, r) /\ In(l, r) /\ WithAccess(l, r) /\ ~InNative(l, r)
                           /\ ~Asking(l, r) /\ ~Found(l, r) /\ l \in Cancelling /\ ~Claiming(l, r)
BY Zenon DEF ResumeIn, Returning, In, Within, Granting, WithAccess, InNative, Asking, Found, Acquiring,
       InspectInVM, Cancelling, DeathLabel, Claiming, RequestLabel, ClaimLabel, OwnerLabel

(* haltThreadForInspection between the wait and its answer: in the VM, but allowed there while
   halted. *)
LEMMA CancelInPlace ==
    \A l \in CancelIn : \A r : /\ Returning(l, r) /\ In(l, r) /\ WithAccess(l, r) /\ ~InNative(l, r)
                           /\ Asking(l, r) /\ (Found(l, r) <=> l = "inspectCheck")
                              /\ l \in Cancelling /\ ~Claiming(l, r)
BY Zenon DEF CancelIn, Returning, In, Within, Granting, WithAccess, InNative, Asking, Found, Acquiring,
       InspectInVM, Cancelling, DeathLabel, Claiming, RequestLabel, ClaimLabel, OwnerLabel

(* haltThreadForInspection before it releases VM access, and the inspection itself: in the VM. *)
LEMMA AskInPlace ==
    \A l \in AskIn : \A r : /\ Returning(l, r) /\ In(l, r) /\ WithAccess(l, r) /\ ~InNative(l, r)
                        /\ Asking(l, r) /\ (Found(l, r) <=> l = "inspected") /\ l \notin Cancelling
                           /\ ~Claiming(l, r)
BY Zenon DEF AskIn, Returning, In, Within, Granting, WithAccess, InNative, Asking, Found, Acquiring,
       InspectInVM, Cancelling, DeathLabel, Claiming, RequestLabel, ClaimLabel, OwnerLabel

(* haltThreadForInspection while it waits for its target: outside the VM; it has found the
   target halted once it acquires VM access again. *)
LEMMA AskOutPlace ==
    \A l \in AskOut : \A r : /\ Returning(l, r) /\ ~In(l, r) /\ ~WithAccess(l, r) /\ ~InNative(l, r)
                         /\ Asking(l, r) /\ (Found(l, r) <=> l = "inspectAcquire")
                            /\ l \notin Cancelling /\ ~Claiming(l, r)
BY Zenon DEF AskOut, Returning, In, Within, Granting, WithAccess, InNative, Asking, Found, Acquiring,
       InspectInVM, Cancelling, DeathLabel, Claiming, RequestLabel, ClaimLabel, OwnerLabel

(* A thread that ends a critical region is where it began it, in the VM or in a native method. *)
LEMMA CriticalOutPlace ==
    \A l \in CriticalOut : \A r :
        /\ Returning(l, r) <=> r \in {"vm", "native"}
        /\ In(l, r) <=> r = "vm"
        /\ WithAccess(l, r) <=> r = "vm"
        /\ InNative(l, r) <=> r = "native"
        /\ ~Asking(l, r) /\ ~Found(l, r) /\ l \notin Cancelling /\ ~Claiming(l, r)
BY Zenon DEF CriticalOut, Returning, In, Within, Granting, WithAccess, InNative, Asking, Found, Acquiring,
       InspectInVM, Cancelling, DeathLabel, Claiming, RequestLabel, ClaimLabel, OwnerLabel

(* internalAcquireVMAccess is outside the VM, and is what its caller waits for: exclusive
   access, or the answer of an inspection. *)
LEMMA AcquiringPlace ==
    \A l \in Acquiring : \A r :
        /\ Returning(l, r) <=> r \in {"vm", "critical", "async", "granted", "inspectCheck", "inspect"}
        /\ In(l, r) <=> r = "granted"
        /\ ~WithAccess(l, r) /\ ~InNative(l, r)
        /\ Asking(l, r) <=> r = "inspectCheck"
        /\ Found(l, r) <=> r = "inspectCheck"
        /\ Claiming(l, r) <=> r = "granted"
        /\ Granting(l, r) <=> r = "granted"
        /\ l \notin Cancelling
BY Zenon DEF Returning, In, Within, Granting, WithAccess, InNative, Asking, Found, Acquiring,
       InspectInVM, Cancelling, DeathLabel, Claiming, RequestLabel, ClaimLabel, OwnerLabel

(* internalReleaseVMAccess has VM access until it clears the flag. *)
LEMMA ReleasePlace ==
    \A r : /\ Returning("release", r) <=> r \in {"released", "inspectWait", "resumeAcquire"}
           /\ ~In("release", r) /\ WithAccess("release", r) /\ ~InNative("release", r)
           /\ Asking("release", r) <=> r = "inspectWait"
           /\ ~Found("release", r) /\ "release" \notin Cancelling /\ ~Claiming("release", r)
BY Zenon DEF Returning, In, Within, Granting, WithAccess, InNative, Asking, Found, Acquiring,
       InspectInVM, Cancelling, DeathLabel, Claiming, RequestLabel, ClaimLabel, OwnerLabel

(* A thread that responds to a request for exclusive access is outside the VM. *)
LEMMA RespondPlace ==
    \A r : /\ Returning("respond", r) <=>
                 r \in {"released", "native", "vm", "critical", "async", "inspectWait", "resumeAcquire"}
           /\ ~In("respond", r) /\ ~WithAccess("respond", r)
           /\ InNative("respond", r) <=> r = "native"
           /\ Asking("respond", r) <=> r = "inspectWait"
           /\ ~Found("respond", r) /\ "respond" \notin Cancelling /\ ~Claiming("respond", r)
BY Zenon DEF Returning, In, Within, Granting, WithAccess, InNative, Asking, Found, Acquiring,
       InspectInVM, Cancelling, DeathLabel, Claiming, RequestLabel, ClaimLabel, OwnerLabel

(* A thread that enters a critical region with VM access has it, and asks nobody to halt. *)
LEMMA CriticalPlace ==
    \A r : /\ Returning("critical", r) /\ ~In("critical", r) /\ WithAccess("critical", r)
           /\ ~InNative("critical", r) /\ ~Asking("critical", r) /\ ~Found("critical", r)
           /\ "critical" \notin Cancelling /\ ~Claiming("critical", r)
BY Zenon DEF Returning, In, Within, Granting, WithAccess, InNative, Asking, Found, Acquiring,
       InspectInVM, Cancelling, DeathLabel, Claiming, RequestLabel, ClaimLabel, OwnerLabel

(* A thread that was handed exclusive access is on its way into the VM. *)
LEMMA GrantedPlace ==
    \A r : /\ Returning("granted", r) /\ In("granted", r) /\ WithAccess("granted", r)
           /\ ~InNative("granted", r) /\ ~Asking("granted", r) /\ ~Found("granted", r)
           /\ "granted" \notin Cancelling /\ Claiming("granted", r) /\ Granting("granted", r)
BY Zenon DEF Returning, In, Within, Granting, WithAccess, InNative, Asking, Found, Acquiring,
       InspectInVM, Cancelling, DeathLabel, Claiming, RequestLabel, ClaimLabel, OwnerLabel

-----------------------------------------------------------------------------
(* What the helpers of VMAccess do to the four variables. *)

(* A step to a label moves its thread alone. *)
LEMMA GotoTo ==
    ASSUME Types, NEW t \in Thread, NEW l, Goto(t, l) PROVE PcTo(t, l)
BY Zenon DEF Types, Goto, PcTo, ByThread

(* A step that leaves every label alone moves its thread to where it is. *)
LEMMA PcStays ==
    ASSUME Types, NEW t \in Thread, UNCHANGED pc PROVE PcTo(t, pc[t])
BY Zenon DEF Types, PcTo, ByThread

(* Setting where to return to is a matter of one thread. *)
LEMMA RetSet ==
    ASSUME Types, NEW t \in Thread, NEW r, ret' = [ret EXCEPT ![t] = r] PROVE RetTo(t, r)
BY Zenon DEF Types, RetTo, ByThread

(* ... and so is leaving it alone. *)
LEMMA RetStays ==
    ASSUME Types, NEW t \in Thread, UNCHANGED ret PROVE RetTo(t, ret[t])
BY Zenon DEF Types, RetTo, ByThread

(* setVMThreadFlags and clearVMThreadFlags on the own flags change nobody else's. *)
LEMMA FlagsSet ==
    ASSUME Types, NEW t \in Thread, NEW s \in SUBSET Flag, NEW c, publicFlags' = WithFlags(t, s, c)
    PROVE  FlagsTo(t, (publicFlags[t] \ c) \cup s)
BY Zenon DEF Types, WithFlags, FlagsTo

(* ... and a step that leaves publicFlags alone keeps them. *)
LEMMA FlagsStay ==
    ASSUME Types, NEW t \in Thread, UNCHANGED publicFlags PROVE FlagsTo(t, publicFlags[t])
BY Zenon DEF Types, FlagsTo

(* What a thread reads of its own inNative, from its store buffer or from memory, is a Boolean. *)
LEMMA OwnIsBoolean == ASSUME Types, NEW t \in Thread PROVE OwnInNative(t) \in BOOLEAN
<1>1. storeBuffer[t] \in Seq(BOOLEAN) /\ inNative[t] \in BOOLEAN
  BY Zenon DEF Types
<1>2. storeBuffer[t] # <<>> => storeBuffer[t][Len(storeBuffer[t])] \in BOOLEAN
  BY <1>1
<1> QED
  BY <1>1, <1>2, Zenon DEF OwnInNative

(* A step that leaves inNative and the store buffers alone keeps what each thread reads of
   itself. *)
LEMMA BufferStays ==
    ASSUME Types, NEW t \in Thread, UNCHANGED bufferVars PROVE Owns(t, OwnInNative(t))
BY Zenon DEF Types, bufferVars, Owns, OwnInNative

(* An atomic instruction drains the store buffer, and its thread still reads the same inNative. *)
LEMMA BufferDrained ==
    ASSUME Types, NEW t \in Thread, Drained(t) PROVE Owns(t, OwnInNative(t))
<1> DEFINE n == OwnInNative(t)
<1>1. n \in BOOLEAN
  BY OwnIsBoolean, Zenon
<1> HIDE DEF n
<1>2. inNative' = [inNative EXCEPT ![t] = n] /\ storeBuffer' = [storeBuffer EXCEPT ![t] = <<>>]
  BY Zenon DEF Drained, n
<1>3. Owns(t, n)
  BY <1>1, <1>2 DEF Types, Owns, OwnInNative
<1> QED
  BY <1>3, Zenon DEF n

(* A fenced store to inNative is what its thread then reads. *)
LEMMA BufferFenced ==
    ASSUME Types, NEW t \in Thread, NEW n \in BOOLEAN, StoreFenced(t, n) PROVE Owns(t, n)
BY DEF Types, StoreFenced, Owns, OwnInNative

(* ... and so is a store that waits in the store buffer. *)
LEMMA BufferStored ==
    ASSUME Types, NEW t \in Thread, NEW n \in BOOLEAN, Store(t, n) PROVE Owns(t, n)
<1>1. storeBuffer[t] \in Seq(BOOLEAN) /\ storeBuffer'[t] = Append(storeBuffer[t], n)
  BY Zenon DEF Types, Store
<1>2. storeBuffer'[t] # <<>> /\ storeBuffer'[t][Len(storeBuffer'[t])] = n
  BY <1>1
<1>3. storeBuffer' \in [Thread -> Seq(BOOLEAN)] /\ UNCHANGED inNative
  BY DEF Types, Store
<1>4. \A u \in Thread \ {t} : OwnInNative(u)' = OwnInNative(u)
  BY Zenon DEF Types, Store, OwnInNative
<1> QED
  BY <1>2, <1>3, <1>4, Zenon DEF Owns, OwnInNative, Types

(* A flush shows every processor what each reads of itself. *)
LEMMA BufferFlushed ==
    ASSUME Types, NEW t \in Thread, inNative' = [u \in Thread |-> OwnInNative(u)],
           storeBuffer' = [u \in Thread |-> <<>>]
    PROVE  Owns(t, OwnInNative(t))
<1>1. \A u \in Thread : OwnInNative(u) \in BOOLEAN
  BY OwnIsBoolean, Zenon
<1>2. \A u \in Thread : OwnInNative(u)' = OwnInNative(u)
  <2> TAKE u \in Thread
  <2>1. storeBuffer'[u] = <<>> /\ inNative'[u] = OwnInNative(u)
    OBVIOUS
  <2>2. OwnInNative(u)' = inNative'[u]
    BY <2>1, Zenon DEF OwnInNative
  <2> QED
    BY <2>1, <2>2, Zenon
<1>3. inNative' \in [Thread -> BOOLEAN] /\ storeBuffer' \in [Thread -> Seq(BOOLEAN)]
  BY <1>1
<1> QED
  BY <1>2, <1>3, Zenon DEF Owns

(* The newest of the pending stores stays the newest when the oldest is gone. *)
LEMMA TailLast ==
    ASSUME NEW S, NEW s \in Seq(S), s # <<>>
    PROVE  IF Tail(s) = <<>> THEN Head(s) = s[Len(s)] ELSE Tail(s)[Len(Tail(s))] = s[Len(s)]
<1>1. /\ Len(s) \in Nat \ {0} /\ Len(Tail(s)) = Len(s) - 1 /\ Head(s) = s[1]
      /\ \A i \in 1..Len(Tail(s)) : Tail(s)[i] = s[i + 1]
  OBVIOUS
<1>2. CASE Len(s) = 1
  <2>1. Head(s) = s[Len(s)]
    BY <1>1, <1>2, Zenon
  <2>2. \A q \in Seq(S) : Len(q) = 0 => q = <<>>
    OBVIOUS
  <2>3. Tail(s) \in Seq(S) /\ Len(Tail(s)) = 0
    BY <1>1, <1>2
  <2> QED
    BY <2>1, <2>2, <2>3, Zenon
<1>3. CASE Len(s) # 1
  <2>1. Len(Tail(s)) \in 1..Len(Tail(s)) /\ Len(Tail(s)) # 0 /\ Len(Tail(s)) + 1 = Len(s)
    BY <1>1, <1>3
  <2>2. Tail(s)[Len(Tail(s))] = s[Len(s)]
    BY <1>1, <2>1, Zenon
  <2>3. Len(<<>>) = 0
    OBVIOUS
  <2>4. Tail(s) # <<>>
    BY <2>1, <2>3, Zenon
  <2> QED
    BY <2>2, <2>4, Zenon
<1> QED
  BY <1>2, <1>3, Zenon

(* A store that leaves the buffer by itself changes nothing its thread reads. *)
LEMMA BufferDrainedOne ==
    ASSUME Types, NEW t \in Thread, DrainOne(t) PROVE Owns(t, OwnInNative(t))
<1> DEFINE s == storeBuffer[t]
<1>1. /\ s \in Seq(BOOLEAN) /\ s # <<>>
      /\ storeBuffer' = [storeBuffer EXCEPT ![t] = Tail(s)]
      /\ inNative' = [inNative EXCEPT ![t] = Head(s)]
  BY Zenon DEF Types, DrainOne
<1> HIDE DEF s
<1>2. Head(s) \in BOOLEAN /\ Tail(s) \in Seq(BOOLEAN)
  BY <1>1
<1>3. inNative' \in [Thread -> BOOLEAN] /\ storeBuffer' \in [Thread -> Seq(BOOLEAN)]
  BY <1>1, <1>2, Zenon DEF Types
<1>4. inNative'[t] = Head(s) /\ storeBuffer'[t] = Tail(s)
  BY <1>1, <1>2, Zenon DEF Types
<1>5. IF Tail(s) = <<>> THEN Head(s) = s[Len(s)] ELSE Tail(s)[Len(Tail(s))] = s[Len(s)]
  BY <1>1, TailLast, Zenon
<1>6. OwnInNative(t) = s[Len(s)]
  BY <1>1, Zenon DEF OwnInNative, s
<1>7. OwnInNative(t)' = OwnInNative(t)
  BY <1>4, <1>5, <1>6, Zenon DEF OwnInNative
<1>8. \A u \in Thread \ {t} : OwnInNative(u)' = OwnInNative(u)
  BY <1>1, Zenon DEF Types, OwnInNative
<1> QED
  BY <1>3, <1>7, <1>8, Zenon DEF Owns

(* The masks of the acquire and release paths hold both halt flags. *)
LEMMA NotHalted ==
    ASSUME NEW t, \/ ~HasAny(t, HaltAny) \/ ~HasAny(t, OutOfLine) \/ ~HasAny(t, ReleaseRequired)
                  \/ OnlyVMAccess(t) \/ publicFlags[t] = {}
                  \/ Has(t, "VM_ACCESS") /\ ~MustRelease(t)
    PROVE  ~Has(t, "HALT_INSPECTION") /\ ~Has(t, "HALT_JAVA_SUSPEND")
BY Zenon DEF Has, HasAny, MustRelease, OnlyVMAccess, OutOfLine, ReleaseRequired, HaltAny, HaltNoSuspend

(* A lawful move is a calm step. *)
LEMMA LawfulIsCalm ==
    ASSUME Types, NEW t \in Thread, NEW l, NEW r, NEW F, NEW n,
           PcTo(t, l), RetTo(t, r), FlagsTo(t, F), Owns(t, n), Lawful(t, l, r, F, n)
    PROVE  Calm(t)
<1>1. Types'
  BY Zenon DEF PcTo, RetTo, FlagsTo, Owns, Types
<1>2. pc'[t] = l /\ ret'[t] = r /\ publicFlags'[t] = F /\ OwnInNative(t)' = n
  BY Zenon DEF PcTo, RetTo, FlagsTo, Owns
<1>3. PlaceInv(t)'
  BY <1>2, Zenon DEF PlaceInv, Lawful, Has
<1>4. \A u \in Thread \ {t} : Same(u) /\ Kept(u)
  BY Zenon DEF PcTo, RetTo, FlagsTo, Owns, Same, Kept, Has
<1>5. Kept(t)
  BY <1>2, Zenon DEF Kept, Lawful, Has
<1>6. StaysOut(t, pc'[t], ret'[t]) /\ SameAsking(t, pc'[t], ret'[t])
  BY <1>2, Zenon DEF Lawful
<1> QED
  BY <1>1, <1>3, <1>4, <1>5, <1>6, Zenon DEF Calm

(* ... and a quiet one, if it does not claim exclusive access. *)
LEMMA LawfulIsQuiet ==
    ASSUME Types, NEW t \in Thread, NEW l, NEW r, NEW F, NEW n,
           PcTo(t, l), RetTo(t, r), FlagsTo(t, F), Owns(t, n), Lawful(t, l, r, F, n), Unclaimed(t, l, r)
    PROVE  Quiet(t)
<1>1. Calm(t)
  BY LawfulIsCalm, Zenon
<1>2. pc'[t] = l /\ ret'[t] = r
  BY Zenon DEF PcTo, RetTo
<1> QED
  BY <1>1, <1>2, Zenon DEF Quiet

-----------------------------------------------------------------------------
(* Every step of a thread for itself is quiet. *)

(* internalReleaseVMAccess leads out of the VM. *)
LEMMA ReleaseQuiet ==
    ASSUME Types, NEW t \in Thread, PlaceInv(t),
           ReleaseFast(t) \/ ReleaseSlow(t) \/ ClearVMAccess(t)
    PROVE  Quiet(t)
<1>1. CASE ReleaseFast(t)
  <2>1. /\ PcTo(t, "released") /\ RetTo(t, ret[t])
        /\ FlagsTo(t, (publicFlags[t] \ {"VM_ACCESS"}) \cup {}) /\ Owns(t, OwnInNative(t))
    BY <1>1, GotoTo, RetStays, FlagsSet, BufferDrained, Zenon
       DEF ReleaseFast, Flag, ReleaseRequired, OutOfLine, HaltAny, HaltNoSuspend, Critical
  <2>2. Lawful(t, "released", ret[t], (publicFlags[t] \ {"VM_ACCESS"}) \cup {}, OwnInNative(t))
          /\ Unclaimed(t, "released", ret[t])
    BY <1>1, PlainInPlace, RestOutPlace, Zenon
       DEF ReleaseFast, PlainIn, RestOut, Lawful, StaysOut, SameAsking, Unclaimed, PlaceInv, Has
  <2> QED
    BY <2>1, <2>2, LawfulIsQuiet, Zenon
<1>2. CASE ReleaseSlow(t)
  <2>1. /\ PcTo(t, "release") /\ RetTo(t, "released")
        /\ FlagsTo(t, publicFlags[t]) /\ Owns(t, OwnInNative(t))
    BY <1>2, GotoTo, RetSet, FlagsStay, BufferStays, Zenon DEF ReleaseSlow, flagVars
  <2>2. Lawful(t, "release", "released", publicFlags[t], OwnInNative(t))
          /\ Unclaimed(t, "release", "released")
    BY <1>2, PlainInPlace, ReleasePlace, Zenon
       DEF ReleaseSlow, PlainIn, Lawful, StaysOut, SameAsking, Unclaimed, PlaceInv, Has
  <2> QED
    BY <2>1, <2>2, LawfulIsQuiet, Zenon
<1>3. CASE ClearVMAccess(t)
  <2>1. /\ PcTo(t, "respond") /\ RetTo(t, ret[t])
        /\ FlagsTo(t, (publicFlags[t] \ {"VM_ACCESS"}) \cup {}) /\ Owns(t, OwnInNative(t))
    BY <1>3, GotoTo, RetStays, FlagsSet, BufferDrained, Zenon
       DEF ClearVMAccess, Flag, ReleaseRequired, OutOfLine, HaltAny, HaltNoSuspend, Critical
  <2>2. Lawful(t, "respond", ret[t], (publicFlags[t] \ {"VM_ACCESS"}) \cup {}, OwnInNative(t))
          /\ Unclaimed(t, "respond", ret[t])
    BY <1>3, ReleasePlace, RespondPlace, Zenon
       DEF ClearVMAccess, Lawful, StaysOut, SameAsking, Unclaimed, PlaceInv, Has
  <2> QED
    BY <2>1, <2>2, LawfulIsQuiet, Zenon
<1> QED
  BY <1>1, <1>2, <1>3, Zenon

(* The response to a request for exclusive access leads on to where VM access was released or
   acquired for. *)
LEMMA RespondQuiet ==
    ASSUME Types, NEW t \in Thread, PlaceInv(t), Respond(t)
    PROVE  Quiet(t)
<1> DEFINE F == IF MustHaltAtSafePoint(t)
                THEN (publicFlags[t] \ {"REQUEST_SAFE_POINT"}) \cup {"HALTED_AT_SAFE_POINT"}
                ELSE publicFlags[t]
           l == IF ret[t] \in {"vm", "critical", "async"} THEN "acquire" ELSE ret[t]
<1>1. FlagsTo(t, F)
  <2>1. CASE MustHaltAtSafePoint(t)
    BY <2>1, FlagsSet, Zenon DEF Respond, Flag, HaltAny, HaltNoSuspend, ReleaseRequired
  <2>2. CASE ~MustHaltAtSafePoint(t)
    BY <2>2, FlagsStay, Zenon DEF Respond
  <2> QED
    BY <2>1, <2>2, Zenon
<1>2. /\ "HALT_INSPECTION" \in F <=> Has(t, "HALT_INSPECTION")
      /\ "HALT_JAVA_SUSPEND" \in F <=> Has(t, "HALT_JAVA_SUSPEND")
  BY Zenon DEF Has
<1>3. RetTo(t, ret[t]) /\ Owns(t, OwnInNative(t))
  BY RetStays, BufferStays, Zenon DEF Respond
<1>4. PcTo(t, l)
  BY GotoTo, Zenon DEF Respond, ContinueHolding
<1>5. /\ pc[t] = "respond" /\ (OwnInNative(t) => ret[t] = "native")
      /\ ret[t] \in {"released", "native", "vm", "critical", "async", "inspectWait", "resumeAcquire"}
  BY RespondPlace, Zenon DEF Respond, PlaceInv
<1> HIDE DEF F
<1>6. Lawful(t, l, ret[t], F, OwnInNative(t)) /\ Unclaimed(t, l, ret[t])
  <2>1. CASE ret[t] \in {"vm", "critical", "async"}
    BY <1>2, <1>5, <2>1, RespondPlace, AcquiringPlace, Zenon DEF Acquiring, Lawful, StaysOut, SameAsking,
         Unclaimed
  <2>2. CASE ret[t] \in {"released", "resumeAcquire"}
    BY <1>2, <1>5, <2>2, RespondPlace, RestOutPlace, Zenon DEF RestOut, Lawful, StaysOut, SameAsking, Unclaimed
  <2>3. CASE ret[t] = "native"
    BY <1>2, <1>5, <2>3, RespondPlace, NativeOutPlace, Zenon DEF NativeOut, Lawful, StaysOut, SameAsking,
         Unclaimed
  <2>4. CASE ret[t] = "inspectWait"
    BY <1>2, <1>5, <2>4, RespondPlace, AskOutPlace, Zenon DEF AskOut, Lawful, StaysOut, SameAsking, Unclaimed
  <2> QED
    BY <1>5, <2>1, <2>2, <2>3, <2>4, Zenon
<1> HIDE DEF l
<1> QED
  BY <1>1, <1>3, <1>4, <1>6, LawfulIsQuiet, Zenon

(* internalAcquireVMAccess gets into the VM at once only if no halt flag is set. *)
LEMMA AcquireQuiet ==
    ASSUME Types, NEW t \in Thread, PlaceInv(t),
           AcquireFast(t) \/ AcquireSlow(t) \/ TryAcquire(t) \/ RespondCritical(t)
             \/ WaitForAccess(t) \/ Wake(t)
    PROVE  Quiet(t)
<1>1. CASE AcquireFast(t)
  <2>1. /\ PcTo(t, "vm") /\ RetTo(t, ret[t])
        /\ FlagsTo(t, (publicFlags[t] \ {}) \cup {"VM_ACCESS"}) /\ Owns(t, OwnInNative(t))
    BY <1>1, GotoTo, RetStays, FlagsSet, BufferStays, Zenon
       DEF AcquireFast, Flag, ReleaseRequired, OutOfLine, HaltAny, HaltNoSuspend, Critical, flagVars
  <2>2. Lawful(t, "vm", ret[t], (publicFlags[t] \ {}) \cup {"VM_ACCESS"}, OwnInNative(t))
          /\ Unclaimed(t, "vm", ret[t])
    BY <1>1, RestOutPlace, PlainInPlace, NotHalted, Zenon
       DEF AcquireFast, RestOut, PlainIn, Lawful, StaysOut, SameAsking, Unclaimed, PlaceInv, Has
  <2> QED
    BY <2>1, <2>2, LawfulIsQuiet, Zenon
<1>2. CASE AcquireSlow(t)
  <2>1. /\ PcTo(t, "acquire") /\ RetTo(t, "vm")
        /\ FlagsTo(t, publicFlags[t]) /\ Owns(t, OwnInNative(t))
    BY <1>2, GotoTo, RetSet, FlagsStay, BufferStays, Zenon DEF AcquireSlow, flagVars
  <2>2. Lawful(t, "acquire", "vm", publicFlags[t], OwnInNative(t)) /\ Unclaimed(t, "acquire", "vm")
    BY <1>2, RestOutPlace, AcquiringPlace, Zenon
       DEF AcquireSlow, RestOut, Acquiring, Lawful, StaysOut, SameAsking, Unclaimed, PlaceInv, Has
  <2> QED
    BY <2>1, <2>2, LawfulIsQuiet, Zenon
<1>3. CASE TryAcquire(t)
  <2>1. /\ PcTo(t, "vm") /\ RetTo(t, ret[t])
        /\ FlagsTo(t, (publicFlags[t] \ {"DISABLE_INLINE_ACQUIRE"}) \cup {"VM_ACCESS"}) /\ Owns(t, OwnInNative(t))
    BY <1>3, GotoTo, RetStays, FlagsSet, BufferStays, Zenon
       DEF TryAcquire, Flag, ReleaseRequired, OutOfLine, HaltAny, HaltNoSuspend, Critical, flagVars
  <2>2. Lawful(t, "vm", ret[t], (publicFlags[t] \ {"DISABLE_INLINE_ACQUIRE"}) \cup {"VM_ACCESS"},
             OwnInNative(t)) /\ Unclaimed(t, "vm", ret[t])
    BY <1>3, RestOutPlace, PlainInPlace, NotHalted, Zenon
       DEF TryAcquire, RestOut, PlainIn, Lawful, StaysOut, SameAsking, Unclaimed, PlaceInv, Has
  <2> QED
    BY <2>1, <2>2, LawfulIsQuiet, Zenon
<1>4. CASE RespondCritical(t)
  <2>1. /\ PcTo(t, "test") /\ RetTo(t, ret[t])
        /\ FlagsTo(t, publicFlags[t]) /\ Owns(t, OwnInNative(t))
    BY <1>4, GotoTo, RetStays, FlagsStay, BufferStays, Zenon DEF RespondCritical, flagVars
  <2>2. Lawful(t, "test", ret[t], publicFlags[t], OwnInNative(t)) /\ Unclaimed(t, "test", ret[t])
    BY <1>4, AcquiringPlace, Zenon
       DEF RespondCritical, Acquiring, Lawful, StaysOut, SameAsking, Unclaimed, PlaceInv, Has
  <2> QED
    BY <2>1, <2>2, LawfulIsQuiet, Zenon
<1>5. CASE WaitForAccess(t)
  <2>1. /\ PcTo(t, "wait") /\ RetTo(t, ret[t])
        /\ FlagsTo(t, publicFlags[t]) /\ Owns(t, OwnInNative(t))
    BY <1>5, GotoTo, RetStays, FlagsStay, BufferStays, Zenon DEF WaitForAccess, flagVars
  <2>2. Lawful(t, "wait", ret[t], publicFlags[t], OwnInNative(t)) /\ Unclaimed(t, "wait", ret[t])
    BY <1>5, AcquiringPlace, Zenon
       DEF WaitForAccess, Acquiring, Lawful, StaysOut, SameAsking, Unclaimed, PlaceInv, Has
  <2> QED
    BY <2>1, <2>2, LawfulIsQuiet, Zenon
<1>6. CASE Wake(t)
  <2>1. /\ PcTo(t, "test") /\ RetTo(t, ret[t])
        /\ FlagsTo(t, publicFlags[t]) /\ Owns(t, OwnInNative(t))
    BY <1>6, GotoTo, RetStays, FlagsStay, BufferStays, Zenon DEF Wake, flagVars
  <2>2. Lawful(t, "test", ret[t], publicFlags[t], OwnInNative(t)) /\ Unclaimed(t, "test", ret[t])
    BY <1>6, AcquiringPlace, Zenon
       DEF Wake, Acquiring, Lawful, StaysOut, SameAsking, Unclaimed, PlaceInv, Has
  <2> QED
    BY <2>1, <2>2, LawfulIsQuiet, Zenon
<1> QED
  BY <1>1, <1>2, <1>3, <1>4, <1>5, <1>6, Zenon

(* The loop of internalAcquireVMAccess gives up critical access and waits without entering the
   VM. *)
LEMMA GiveUpQuiet ==
    ASSUME Types, NEW t \in Thread, PlaceInv(t), GiveUpCritical(t)
    PROVE  Quiet(t)
<1> DEFINE F == (publicFlags[t] \ {"JNI_CRITICAL_ACCESS"}) \cup {}
<1>1. PICK l \in {"acquireRespond", "test"} : Goto(t, l)
  BY Zenon DEF GiveUpCritical
<1>2. PcTo(t, l) /\ RetTo(t, ret[t]) /\ Owns(t, OwnInNative(t))
  BY <1>1, GotoTo, RetStays, BufferStays, Zenon DEF GiveUpCritical
<1>3. FlagsTo(t, F)
  BY FlagsSet, Zenon DEF GiveUpCritical
<1>4. Lawful(t, l, ret[t], F, OwnInNative(t)) /\ Unclaimed(t, l, ret[t])
  BY <1>1, AcquiringPlace, Zenon DEF GiveUpCritical, Acquiring, Lawful, StaysOut, SameAsking, Unclaimed,
       PlaceInv, Has
<1> QED
  BY <1>2, <1>3, <1>4, LawfulIsQuiet, Zenon

(* The acquire of an inspector ignores HALT_INSPECTION, and goes to where it is cancelled. *)
LEMMA TakeQuiet ==
    ASSUME Types, NEW t \in Thread, PlaceInv(t), TakeVMAccess(t)
    PROVE  Quiet(t)
<1> DEFINE S == {"VM_ACCESS"} \cup
                  (IF reacquireJNICriticalAccess[t] THEN {"JNI_CRITICAL_ACCESS"} ELSE {})
           F == (publicFlags[t] \ {"DISABLE_INLINE_ACQUIRE"}) \cup S
<1>1. PcTo(t, ret[t]) /\ RetTo(t, ret[t]) /\ Owns(t, OwnInNative(t))
  BY GotoTo, RetStays, BufferStays, Zenon DEF TakeVMAccess, ContinueHolding
<1>2. S \in SUBSET Flag /\ publicFlags' = WithFlags(t, S, {"DISABLE_INLINE_ACQUIRE"})
  BY Zenon DEF TakeVMAccess, Flag, Critical
<1>3. FlagsTo(t, F)
  BY <1>2, FlagsSet, Zenon
<1>4. /\ "HALT_INSPECTION" \in F <=> Has(t, "HALT_INSPECTION")
      /\ "HALT_JAVA_SUSPEND" \in F <=> Has(t, "HALT_JAVA_SUSPEND")
      /\ "VM_ACCESS" \in F
  BY Zenon DEF Has
<1> HIDE DEF F
<1>5. /\ pc[t] \in Acquiring /\ ~OwnInNative(t)
      /\ ret[t] \in {"vm", "critical", "async", "granted", "inspectCheck", "inspect"}
  BY AcquiringPlace, Zenon DEF TakeVMAccess, PlaceInv, Acquiring
<1>6. Lawful(t, ret[t], ret[t], F, OwnInNative(t)) /\ Unclaimed(t, ret[t], ret[t])
  <2>1. CASE ret[t] \in {"vm", "async", "inspect"}
    <3>1. ~HasAny(t, HaltAny)
      BY <2>1, Zenon DEF TakeVMAccess, HaltMask
    <3>2. ~Has(t, "HALT_INSPECTION") /\ ~Has(t, "HALT_JAVA_SUSPEND")
      BY <3>1, NotHalted, Zenon
    <3>3. /\ Returning(ret[t], ret[t]) /\ ~InNative(ret[t], ret[t]) /\ ~Asking(ret[t], ret[t])
          /\ ~Found(ret[t], ret[t]) /\ ~Claiming(ret[t], ret[t])
      BY <2>1, PlainInPlace, Zenon DEF PlainIn
    <3>4. ~Asking(pc[t], ret[t]) /\ ~Claiming(pc[t], ret[t])
      BY <1>5, <2>1, AcquiringPlace, Zenon
    <3> QED
      BY <1>4, <1>5, <3>2, <3>3, <3>4, Zenon DEF Lawful, StaysOut, SameAsking, Unclaimed
  <2>2. CASE ret[t] = "critical"
    BY <1>4, <1>5, <2>2, AcquiringPlace, CriticalPlace, Zenon DEF Lawful, StaysOut, SameAsking, Unclaimed
  <2>3. CASE ret[t] = "granted"
    BY <1>4, <1>5, <2>3, AcquiringPlace, GrantedPlace, Zenon DEF Lawful, StaysOut, SameAsking, Unclaimed
  <2>4. CASE ret[t] = "inspectCheck"
    <3>1. ~Has(t, "HALT_JAVA_SUSPEND")
      BY <2>4, Zenon DEF TakeVMAccess, HaltMask, Has, HasAny, HaltAny, HaltNoSuspend
    <3> QED
      BY <1>4, <1>5, <2>4, <3>1, AcquiringPlace, CancelInPlace, Zenon
         DEF CancelIn, Lawful, StaysOut, SameAsking, Unclaimed
  <2> QED
    BY <1>5, <2>1, <2>2, <2>3, <2>4, Zenon
<1> QED
  BY <1>1, <1>3, <1>6, LawfulIsQuiet, Zenon

(* internalExitVMToJNI leads out of the VM and into the native method. *)
LEMMA NativeQuiet ==
    ASSUME Types, NEW t \in Thread, PlaceInv(t),
           ExitVMToJNI(t) \/ EnterVMFromJNI(t) \/ ExitInline(t) \/ EnterInline(t)
             \/ ExitOutOfLine(t) \/ EnterOutOfLine(t) \/ ExitSlow(t)
    PROVE  Quiet(t)
<1>1. CASE ExitVMToJNI(t)
  <2>1. /\ PcTo(t, "exitCheck") /\ RetTo(t, ret[t])
        /\ FlagsTo(t, publicFlags[t]) /\ Owns(t, TRUE)
    BY <1>1, GotoTo, RetStays, FlagsStay, BufferStored, Zenon DEF ExitVMToJNI, flagVars
  <2>2. Lawful(t, "exitCheck", ret[t], publicFlags[t], TRUE) /\ Unclaimed(t, "exitCheck", ret[t])
    BY <1>1, PlainInPlace, NativeOutPlace, Zenon
       DEF ExitVMToJNI, PlainIn, NativeOut, Lawful, StaysOut, SameAsking, Unclaimed, PlaceInv, Has
  <2> QED
    BY <2>1, <2>2, LawfulIsQuiet, Zenon
<1>2. CASE EnterVMFromJNI(t)
  <2>1. /\ PcTo(t, "enterCheck") /\ RetTo(t, ret[t])
        /\ FlagsTo(t, publicFlags[t]) /\ Owns(t, FALSE)
    BY <1>2, GotoTo, RetStays, FlagsStay, BufferStored, Zenon DEF EnterVMFromJNI, flagVars
  <2>2. Lawful(t, "enterCheck", ret[t], publicFlags[t], FALSE) /\ Unclaimed(t, "enterCheck", ret[t])
    BY <1>2, NativeOutPlace, RestOutPlace, Zenon
       DEF EnterVMFromJNI, NativeOut, RestOut, Lawful, StaysOut, SameAsking, Unclaimed, PlaceInv,
           Has
  <2> QED
    BY <2>1, <2>2, LawfulIsQuiet, Zenon
<1>3. CASE ExitInline(t)
  <2>1. /\ PcTo(t, "native") /\ RetTo(t, ret[t])
        /\ FlagsTo(t, publicFlags[t]) /\ Owns(t, OwnInNative(t))
    BY <1>3, GotoTo, RetStays, FlagsStay, BufferStays, Zenon DEF ExitInline, flagVars
  <2>2. Lawful(t, "native", ret[t], publicFlags[t], OwnInNative(t)) /\ Unclaimed(t, "native", ret[t])
    BY <1>3, NativeOutPlace, Zenon
       DEF ExitInline, NativeOut, Lawful, StaysOut, SameAsking, Unclaimed, PlaceInv, Has
  <2> QED
    BY <2>1, <2>2, LawfulIsQuiet, Zenon
<1>4. CASE EnterInline(t)
  <2>1. /\ PcTo(t, "vm") /\ RetTo(t, ret[t])
        /\ FlagsTo(t, publicFlags[t]) /\ Owns(t, OwnInNative(t))
    BY <1>4, GotoTo, RetStays, FlagsStay, BufferStays, Zenon DEF EnterInline, flagVars
  <2>2. Lawful(t, "vm", ret[t], publicFlags[t], OwnInNative(t)) /\ Unclaimed(t, "vm", ret[t])
    BY <1>4, RestOutPlace, PlainInPlace, NotHalted, Zenon
       DEF EnterInline, RestOut, PlainIn, Lawful, StaysOut, SameAsking, Unclaimed, PlaceInv, Has,
           OnlyVMAccess
  <2> QED
    BY <2>1, <2>2, LawfulIsQuiet, Zenon
<1>5. CASE ExitOutOfLine(t)
  <2>1. /\ PcTo(t, "exit") /\ RetTo(t, ret[t])
        /\ FlagsTo(t, publicFlags[t]) /\ Owns(t, TRUE)
    BY <1>5, GotoTo, RetStays, FlagsStay, BufferFenced, Zenon DEF ExitOutOfLine, flagVars
  <2>2. Lawful(t, "exit", ret[t], publicFlags[t], TRUE) /\ Unclaimed(t, "exit", ret[t])
    BY <1>5, NativeOutPlace, Zenon
       DEF ExitOutOfLine, NativeOut, Lawful, StaysOut, SameAsking, Unclaimed, PlaceInv, Has
  <2> QED
    BY <2>1, <2>2, LawfulIsQuiet, Zenon
<1>6. CASE EnterOutOfLine(t)
  <2>1. /\ PcTo(t, "enter") /\ RetTo(t, ret[t])
        /\ FlagsTo(t, publicFlags[t]) /\ Owns(t, FALSE)
    BY <1>6, GotoTo, RetStays, FlagsStay, BufferFenced, Zenon DEF EnterOutOfLine, flagVars
  <2>2. Lawful(t, "enter", ret[t], publicFlags[t], FALSE) /\ Unclaimed(t, "enter", ret[t])
    BY <1>6, RestOutPlace, Zenon
       DEF EnterOutOfLine, RestOut, Lawful, StaysOut, SameAsking, Unclaimed, PlaceInv, Has
  <2> QED
    BY <2>1, <2>2, LawfulIsQuiet, Zenon
<1>7. CASE ExitSlow(t) /\ MustRelease(t)
  <2>1. /\ PcTo(t, "respond") /\ RetTo(t, "native")
        /\ FlagsTo(t, (publicFlags[t] \ {"VM_ACCESS"}) \cup {}) /\ Owns(t, OwnInNative(t))
    BY <1>7, GotoTo, RetSet, FlagsSet, BufferStays, Zenon
       DEF ExitSlow, ContinueHolding, Flag, ReleaseRequired, OutOfLine, HaltAny, HaltNoSuspend,
           Critical, flagVars
  <2>2. Lawful(t, "respond", "native", (publicFlags[t] \ {"VM_ACCESS"}) \cup {}, OwnInNative(t))
          /\ Unclaimed(t, "respond", "native")
    BY <1>7, NativeOutPlace, RespondPlace, Zenon
       DEF ExitSlow, NativeOut, Lawful, StaysOut, SameAsking, Unclaimed, PlaceInv, Has
  <2> QED
    BY <2>1, <2>2, LawfulIsQuiet, Zenon
<1>8. CASE ExitSlow(t) /\ ~MustRelease(t)
  <2>1. /\ PcTo(t, "native") /\ RetTo(t, "native")
        /\ FlagsTo(t, publicFlags[t]) /\ Owns(t, OwnInNative(t))
    BY <1>8, GotoTo, RetSet, FlagsStay, BufferStays, Zenon DEF ExitSlow, ContinueHolding, flagVars
  <2>2. Lawful(t, "native", "native", publicFlags[t], OwnInNative(t)) /\ Unclaimed(t, "native", "native")
    BY <1>8, NativeOutPlace, Zenon
       DEF ExitSlow, NativeOut, Lawful, StaysOut, SameAsking, Unclaimed, PlaceInv, Has
  <2> QED
    BY <2>1, <2>2, LawfulIsQuiet, Zenon
<1> QED
  BY <1>1, <1>2, <1>3, <1>4, <1>5, <1>6, <1>7, <1>8, Zenon

(* internalEnterVMFromJNI: without VM access in the end, or with no reason to release it. *)
LEMMA EnterHoldingTo ==
    ASSUME Types, NEW t \in Thread, NEW r, EnterHolding(t, r)
    PROVE  /\ RetTo(t, r)
           /\ \/ PcTo(t, "respond") /\ FlagsTo(t, (publicFlags[t] \ {"VM_ACCESS"}) \cup {})
              \/ PcTo(t, "acquire") /\ FlagsTo(t, publicFlags[t])
              \/ /\ PcTo(t, r) /\ FlagsTo(t, publicFlags[t])
                 /\ Has(t, "VM_ACCESS") /\ ~MustRelease(t)
<1>1. RetTo(t, r)
  BY RetSet, Zenon DEF EnterHolding
<1>2. CASE MustRelease(t)
  <2>1. Has(t, "VM_ACCESS")
    BY <1>2, Zenon DEF MustRelease
  <2>2. Goto(t, "respond")
    BY <1>2, <2>1, Zenon DEF EnterHolding, ContinueHolding
  <2>3. publicFlags' = WithFlags(t, {}, {"VM_ACCESS"})
    BY <1>2, Zenon DEF EnterHolding
  <2>4. FlagsTo(t, (publicFlags[t] \ {"VM_ACCESS"}) \cup {})
    BY <2>3, FlagsSet, Zenon
  <2> QED
    BY <1>1, <2>2, <2>4, GotoTo, Zenon
<1>3. CASE ~MustRelease(t) /\ ~Has(t, "VM_ACCESS")
  <2>1. Goto(t, "acquire") /\ UNCHANGED publicFlags
    BY <1>3, Zenon DEF EnterHolding, ContinueHolding
  <2> QED
    BY <1>1, <2>1, GotoTo, FlagsStay, Zenon
<1>4. CASE ~MustRelease(t) /\ Has(t, "VM_ACCESS")
  <2>1. Goto(t, r) /\ UNCHANGED publicFlags
    BY <1>4, Zenon DEF EnterHolding, ContinueHolding
  <2> QED
    BY <1>1, <1>4, <2>1, GotoTo, FlagsStay, Zenon
<1> QED
  BY <1>2, <1>3, <1>4, Zenon

(* internalEnterVMFromJNI with VM access enters the VM only if no halt flag is set. *)
LEMMA EnterHoldingQuiet ==
    ASSUME Types, NEW t \in Thread, pc[t] \in {"enter", "criticalNative"}, NEW r \in {"vm", "critical"},
           EnterHolding(t, r), Owns(t, FALSE)
    PROVE  Quiet(t)
<1>1. /\ ~In(pc[t], ret[t]) /\ ~Asking(pc[t], ret[t]) /\ ~Found(pc[t], ret[t])
      /\ pc[t] \notin Cancelling /\ ~Claiming(pc[t], ret[t])
  BY RestOutPlace, NativeOutPlace, Zenon DEF RestOut, NativeOut
<1>2. RetTo(t, r)
  BY EnterHoldingTo, Zenon
<1>3. CASE PcTo(t, "respond") /\ FlagsTo(t, (publicFlags[t] \ {"VM_ACCESS"}) \cup {})
  <2>1. Lawful(t, "respond", r, (publicFlags[t] \ {"VM_ACCESS"}) \cup {}, FALSE)
          /\ Unclaimed(t, "respond", r)
    BY <1>1, RespondPlace, Zenon DEF Lawful, StaysOut, SameAsking, Unclaimed, Has
  <2> QED
    BY <1>2, <1>3, <2>1, LawfulIsQuiet, Zenon
<1>4. CASE PcTo(t, "acquire") /\ FlagsTo(t, publicFlags[t])
  <2>1. Lawful(t, "acquire", r, publicFlags[t], FALSE) /\ Unclaimed(t, "acquire", r)
    BY <1>1, AcquiringPlace, Zenon DEF Acquiring, Lawful, StaysOut, SameAsking, Unclaimed, Has
  <2> QED
    BY <1>2, <1>4, <2>1, LawfulIsQuiet, Zenon
<1>5. CASE /\ PcTo(t, r) /\ FlagsTo(t, publicFlags[t])
           /\ Has(t, "VM_ACCESS") /\ ~MustRelease(t)
  <2>1. Lawful(t, r, r, publicFlags[t], FALSE) /\ Unclaimed(t, r, r)
    BY <1>1, <1>5, NotHalted, PlainInPlace, CriticalPlace, Zenon DEF PlainIn, Lawful, StaysOut, SameAsking,
         Unclaimed, Has
  <2> QED
    BY <1>2, <1>5, <2>1, LawfulIsQuiet, Zenon
<1> QED
  BY <1>3, <1>4, <1>5, EnterHoldingTo, Zenon

(* A return from a native method enters the VM on each of its three paths only if no halt flag
   is set. *)
LEMMA EnterQuiet ==
    ASSUME Types, NEW t \in Thread, PlaceInv(t), EnterSlow(t) \/ EnterCriticalThroughVM(t)
    PROVE  Quiet(t)
<1>1. CASE EnterSlow(t)
  <2>1. OwnInNative(t) = FALSE
    BY <1>1, RestOutPlace, OwnIsBoolean, Zenon DEF EnterSlow, PlaceInv, RestOut
  <2>2. Owns(t, FALSE)
    BY <1>1, <2>1, BufferStays, Zenon DEF EnterSlow
  <2> QED
    BY <1>1, <2>2, EnterHoldingQuiet, Zenon DEF EnterSlow
<1>2. CASE EnterCriticalThroughVM(t)
  <2>1. Owns(t, FALSE)
    BY <1>2, BufferFenced, Zenon DEF EnterCriticalThroughVM
  <2> QED
    BY <1>2, <2>1, EnterHoldingQuiet, Zenon DEF EnterCriticalThroughVM
<1> QED
  BY <1>1, <1>2, Zenon

(* The asynchronous check releases VM access and acquires it again for a thread in the VM. *)
LEMMA AsyncQuiet ==
    ASSUME Types, NEW t \in Thread, PlaceInv(t), EndAsyncCheck(t) \/ CheckAsyncMessages(t)
    PROVE  Quiet(t)
<1>1. CASE EndAsyncCheck(t)
  <2>1. /\ PcTo(t, "vm") /\ RetTo(t, ret[t])
        /\ FlagsTo(t, publicFlags[t]) /\ Owns(t, OwnInNative(t))
    BY <1>1, GotoTo, RetStays, FlagsStay, BufferDrained, Zenon
       DEF EndAsyncCheck, ContinueHolding, flagVars
  <2>2. Lawful(t, "vm", ret[t], publicFlags[t], OwnInNative(t)) /\ Unclaimed(t, "vm", ret[t])
    BY <1>1, PlainInPlace, Zenon
       DEF EndAsyncCheck, PlainIn, Lawful, StaysOut, SameAsking, Unclaimed, PlaceInv, Has
  <2> QED
    BY <2>1, <2>2, LawfulIsQuiet, Zenon
<1>2. CASE CheckAsyncMessages(t)
  <2>1. /\ PcTo(t, "respond") /\ RetTo(t, "async")
        /\ FlagsTo(t, (publicFlags[t] \ {"VM_ACCESS"}) \cup {}) /\ Owns(t, OwnInNative(t))
    BY <1>2, GotoTo, RetSet, FlagsSet, BufferDrained, Zenon
       DEF CheckAsyncMessages, ContinueHolding, Flag, ReleaseRequired, OutOfLine, HaltAny,
           HaltNoSuspend, Critical
  <2>2. Lawful(t, "respond", "async", (publicFlags[t] \ {"VM_ACCESS"}) \cup {}, OwnInNative(t))
          /\ Unclaimed(t, "respond", "async")
    <3>1. pc[t] \in PlainIn
      BY <1>2, Zenon DEF CheckAsyncMessages, PlainIn
    <3>2. ~OwnInNative(t)
      BY <3>1, PlainInPlace, Zenon DEF PlaceInv
    <3> QED
      BY <3>1, <3>2, PlainInPlace, RespondPlace, Zenon
         DEF PlainIn, Lawful, StaysOut, SameAsking, Unclaimed, Has
  <2> QED
    BY <2>1, <2>2, LawfulIsQuiet, Zenon
<1> QED
  BY <1>1, <1>2, Zenon

(* A step that leaves its thread where it is, and VM access and the halt flags alone. *)
LEMMA StandQuiet ==
    ASSUME Types, NEW t \in Thread, PlaceInv(t), NEW F, FlagsTo(t, F),
           PcTo(t, pc[t]), RetTo(t, ret[t]), Owns(t, OwnInNative(t)),
           \A f \in {"VM_ACCESS", "HALT_INSPECTION", "HALT_JAVA_SUSPEND"} : f \in F <=> Has(t, f)
    PROVE  Quiet(t)
<1>1. Lawful(t, pc[t], ret[t], F, OwnInNative(t)) /\ Unclaimed(t, pc[t], ret[t])
  BY Zenon DEF Lawful, PlaceInv, StaysOut, SameAsking, Unclaimed
<1> QED
  BY <1>1, LawfulIsQuiet, Zenon

(* Nested critical regions, and stores that leave their buffer, move nobody. *)
LEMMA NestedQuiet ==
    ASSUME Types, NEW t \in Thread, PlaceInv(t),
           \/ EnterNestedCritical(t) \/ EnterCriticalFast(t)
           \/ ExitNestedCritical(t) \/ ExitCriticalFast(t) \/ DrainOne(t)
    PROVE  Quiet(t)
<1>1. PcTo(t, pc[t]) /\ RetTo(t, ret[t])
  BY PcStays, RetStays, Zenon
     DEF EnterNestedCritical, EnterCriticalFast, ExitNestedCritical, ExitCriticalFast, DrainOne, localVars
<1>2. Owns(t, OwnInNative(t))
  BY BufferStays, BufferDrained, BufferDrainedOne, Zenon
     DEF EnterNestedCritical, EnterCriticalFast, ExitNestedCritical, ExitCriticalFast, flagVars
<1>3. CASE EnterNestedCritical(t) \/ ExitNestedCritical(t) \/ DrainOne(t)
  <2>1. FlagsTo(t, publicFlags[t])
    BY <1>3, FlagsStay, Zenon DEF EnterNestedCritical, ExitNestedCritical, DrainOne, flagVars
  <2> QED
    BY <1>1, <1>2, <2>1, StandQuiet, Zenon DEF Has
<1>4. CASE EnterCriticalFast(t)
  <2>1. FlagsTo(t, (publicFlags[t] \ {}) \cup Critical)
    BY <1>4, FlagsSet, Zenon DEF EnterCriticalFast, Flag
  <2> QED
    BY <1>1, <1>2, <2>1, StandQuiet, Zenon DEF Has, Critical
<1>5. CASE ExitCriticalFast(t)
  <2>1. FlagsTo(t, (publicFlags[t] \ Critical) \cup {})
    BY <1>5, FlagsSet, Zenon DEF ExitCriticalFast
  <2> QED
    BY <1>1, <1>2, <2>1, StandQuiet, Zenon DEF Has, Critical
<1> QED
  BY <1>3, <1>4, <1>5, Zenon

(* Entering a critical region from a native method leads into the VM only past the halt flags. *)
LEMMA EnterCriticalQuiet ==
    ASSUME Types, NEW t \in Thread, PlaceInv(t),
           EnterCriticalSlow(t) \/ EnterCriticalWithAccess(t) \/ CountCritical(t)
             \/ EnterCriticalWithoutAccess(t) \/ SetCriticalFlags(t)
    PROVE  Quiet(t)
<1>1. CASE EnterCriticalSlow(t) /\ pc[t] = "vm"
  <2>1. /\ PcTo(t, "criticalVM") /\ RetTo(t, ret[t])
        /\ FlagsTo(t, publicFlags[t]) /\ Owns(t, OwnInNative(t))
    BY <1>1, GotoTo, RetStays, FlagsStay, BufferDrained, Zenon DEF EnterCriticalSlow, flagVars
  <2>2. Lawful(t, "criticalVM", ret[t], publicFlags[t], OwnInNative(t))
          /\ Unclaimed(t, "criticalVM", ret[t])
    BY <1>1, PlainInPlace, Zenon
       DEF EnterCriticalSlow, PlainIn, Lawful, StaysOut, SameAsking, Unclaimed, PlaceInv, Has
  <2> QED
    BY <2>1, <2>2, LawfulIsQuiet, Zenon
<1>2. CASE EnterCriticalSlow(t) /\ pc[t] = "native"
  <2>1. /\ PcTo(t, "criticalNative") /\ RetTo(t, ret[t])
        /\ FlagsTo(t, publicFlags[t]) /\ Owns(t, OwnInNative(t))
    BY <1>2, GotoTo, RetStays, FlagsStay, BufferDrained, Zenon DEF EnterCriticalSlow, flagVars
  <2>2. Lawful(t, "criticalNative", ret[t], publicFlags[t], OwnInNative(t))
          /\ Unclaimed(t, "criticalNative", ret[t])
    BY <1>2, NativeOutPlace, Zenon
       DEF EnterCriticalSlow, NativeOut, Lawful, StaysOut, SameAsking, Unclaimed, PlaceInv, Has
  <2> QED
    BY <2>1, <2>2, LawfulIsQuiet, Zenon
<1>3. CASE EnterCriticalWithAccess(t) /\ Has(t, "HALT_EXCLUSIVE")
  <2>1. /\ PcTo(t, "criticalCount") /\ RetTo(t, ret[t])
        /\ FlagsTo(t, (publicFlags[t] \ {}) \cup Critical) /\ Owns(t, OwnInNative(t))
    BY <1>3, GotoTo, RetStays, FlagsSet, BufferStays, Zenon
       DEF EnterCriticalWithAccess, ContinueHolding, Flag, ReleaseRequired, OutOfLine, HaltAny,
           HaltNoSuspend, Critical, flagVars
  <2>2. Lawful(t, "criticalCount", ret[t], (publicFlags[t] \ {}) \cup Critical, OwnInNative(t))
          /\ Unclaimed(t, "criticalCount", ret[t])
    BY <1>3, PlainInPlace, Zenon
       DEF EnterCriticalWithAccess, PlainIn, Lawful, StaysOut, SameAsking, Unclaimed, PlaceInv, Has,
           Critical
  <2> QED
    BY <2>1, <2>2, LawfulIsQuiet, Zenon
<1>4. CASE EnterCriticalWithAccess(t) /\ ~Has(t, "HALT_EXCLUSIVE")
  <2>1. /\ PcTo(t, "vm") /\ RetTo(t, ret[t])
        /\ FlagsTo(t, (publicFlags[t] \ {}) \cup Critical) /\ Owns(t, OwnInNative(t))
    BY <1>4, GotoTo, RetStays, FlagsSet, BufferStays, Zenon
       DEF EnterCriticalWithAccess, ContinueHolding, Flag, ReleaseRequired, OutOfLine, HaltAny,
           HaltNoSuspend, Critical, flagVars
  <2>2. Lawful(t, "vm", ret[t], (publicFlags[t] \ {}) \cup Critical, OwnInNative(t))
          /\ Unclaimed(t, "vm", ret[t])
    BY <1>4, PlainInPlace, Zenon
       DEF EnterCriticalWithAccess, PlainIn, Lawful, StaysOut, SameAsking, Unclaimed, PlaceInv, Has,
           Critical
  <2> QED
    BY <2>1, <2>2, LawfulIsQuiet, Zenon
<1>5. CASE CountCritical(t)
  <2>1. /\ PcTo(t, "vm") /\ RetTo(t, ret[t])
        /\ FlagsTo(t, publicFlags[t]) /\ Owns(t, OwnInNative(t))
    BY <1>5, GotoTo, RetStays, FlagsStay, BufferStays, Zenon
       DEF CountCritical, ContinueHolding, flagVars
  <2>2. Lawful(t, "vm", ret[t], publicFlags[t], OwnInNative(t)) /\ Unclaimed(t, "vm", ret[t])
    BY <1>5, PlainInPlace, Zenon
       DEF CountCritical, PlainIn, Lawful, StaysOut, SameAsking, Unclaimed, PlaceInv, Has
  <2> QED
    BY <2>1, <2>2, LawfulIsQuiet, Zenon
<1>6. CASE EnterCriticalWithoutAccess(t)
  <2>1. /\ PcTo(t, "native") /\ RetTo(t, ret[t])
        /\ FlagsTo(t, (publicFlags[t] \ {}) \cup Critical) /\ Owns(t, OwnInNative(t))
    BY <1>6, GotoTo, RetStays, FlagsSet, BufferStays, Zenon
       DEF EnterCriticalWithoutAccess, Flag, ReleaseRequired, OutOfLine, HaltAny, HaltNoSuspend,
           Critical, flagVars
  <2>2. Lawful(t, "native", ret[t], (publicFlags[t] \ {}) \cup Critical, OwnInNative(t))
          /\ Unclaimed(t, "native", ret[t])
    BY <1>6, NativeOutPlace, Zenon
       DEF EnterCriticalWithoutAccess, NativeOut, Lawful, StaysOut, SameAsking, Unclaimed, PlaceInv,
           Has, Critical
  <2> QED
    BY <2>1, <2>2, LawfulIsQuiet, Zenon
<1>7. CASE SetCriticalFlags(t) /\ MustRelease(t)
  <2>1. /\ PcTo(t, "respond") /\ RetTo(t, "native")
        /\ FlagsTo(t, (publicFlags[t] \ {"VM_ACCESS"}) \cup Critical) /\ Owns(t, TRUE)
    BY <1>7, GotoTo, RetSet, FlagsSet, BufferFenced, Zenon
       DEF SetCriticalFlags, ContinueHolding, Flag, ReleaseRequired, OutOfLine, HaltAny,
           HaltNoSuspend, Critical
  <2>2. Lawful(t, "respond", "native", (publicFlags[t] \ {"VM_ACCESS"}) \cup Critical, TRUE)
          /\ Unclaimed(t, "respond", "native")
    BY <1>7, CriticalPlace, RespondPlace, Zenon
       DEF SetCriticalFlags, Lawful, StaysOut, SameAsking, Unclaimed, PlaceInv, Has, Critical
  <2> QED
    BY <2>1, <2>2, LawfulIsQuiet, Zenon
<1>8. CASE SetCriticalFlags(t) /\ ~MustRelease(t)
  <2>1. /\ PcTo(t, "native") /\ RetTo(t, "native")
        /\ FlagsTo(t, (publicFlags[t] \ {}) \cup Critical) /\ Owns(t, TRUE)
    BY <1>8, GotoTo, RetSet, FlagsSet, BufferFenced, Zenon
       DEF SetCriticalFlags, ContinueHolding, Flag, ReleaseRequired, OutOfLine, HaltAny,
           HaltNoSuspend, Critical
  <2>2. Lawful(t, "native", "native", (publicFlags[t] \ {}) \cup Critical, TRUE)
          /\ Unclaimed(t, "native", "native")
    BY <1>8, CriticalPlace, NativeOutPlace, Zenon
       DEF SetCriticalFlags, NativeOut, Lawful, StaysOut, SameAsking, Unclaimed, PlaceInv, Has,
           Critical
  <2> QED
    BY <2>1, <2>2, LawfulIsQuiet, Zenon
<1> QED
  BY <1>1, <1>2, <1>3, <1>4, <1>5, <1>6, <1>7, <1>8, Zenon DEF EnterCriticalSlow

(* Leaving a critical region leads back to where it was entered. *)
LEMMA ExitCriticalQuiet ==
    ASSUME Types, NEW t \in Thread, PlaceInv(t),
           ExitCriticalBegin(t) \/ ExitCriticalSlow(t) \/ ExitCriticalRespond(t)
    PROVE  Quiet(t)
<1>1. CASE ExitCriticalBegin(t) /\ pc[t] = "vm"
  <2>1. /\ PcTo(t, "criticalExit") /\ RetTo(t, "vm")
        /\ FlagsTo(t, publicFlags[t]) /\ Owns(t, OwnInNative(t))
    BY <1>1, GotoTo, RetSet, FlagsStay, BufferDrained, Zenon DEF ExitCriticalBegin, flagVars
  <2>2. Lawful(t, "criticalExit", "vm", publicFlags[t], OwnInNative(t))
          /\ Unclaimed(t, "criticalExit", "vm")
    BY <1>1, PlainInPlace, CriticalOutPlace, Zenon
       DEF ExitCriticalBegin, PlainIn, CriticalOut, Lawful, StaysOut, SameAsking, Unclaimed,
           PlaceInv, Has
  <2> QED
    BY <2>1, <2>2, LawfulIsQuiet, Zenon
<1>2. CASE ExitCriticalBegin(t) /\ pc[t] = "native"
  <2>1. /\ PcTo(t, "criticalExit") /\ RetTo(t, "native")
        /\ FlagsTo(t, publicFlags[t]) /\ Owns(t, OwnInNative(t))
    BY <1>2, GotoTo, RetSet, FlagsStay, BufferDrained, Zenon DEF ExitCriticalBegin, flagVars
  <2>2. Lawful(t, "criticalExit", "native", publicFlags[t], OwnInNative(t))
          /\ Unclaimed(t, "criticalExit", "native")
    BY <1>2, NativeOutPlace, CriticalOutPlace, Zenon
       DEF ExitCriticalBegin, NativeOut, CriticalOut, Lawful, StaysOut, SameAsking, Unclaimed,
           PlaceInv, Has
  <2> QED
    BY <2>1, <2>2, LawfulIsQuiet, Zenon
<1>3. CASE ExitCriticalSlow(t) /\ {"JNI_CRITICAL_ACCESS", "HALT_EXCLUSIVE"} \subseteq publicFlags[t]
  <2>1. /\ PcTo(t, "criticalExitRespond") /\ RetTo(t, ret[t])
        /\ FlagsTo(t, (publicFlags[t] \ Critical) \cup {}) /\ Owns(t, OwnInNative(t))
    BY <1>3, GotoTo, RetStays, FlagsSet, BufferStays, Zenon
       DEF ExitCriticalSlow, ContinueHolding, Flag, ReleaseRequired, OutOfLine, HaltAny,
           HaltNoSuspend, Critical, flagVars
  <2>2. Lawful(t, "criticalExitRespond", ret[t], (publicFlags[t] \ Critical) \cup {},
             OwnInNative(t)) /\ Unclaimed(t, "criticalExitRespond", ret[t])
    BY <1>3, CriticalOutPlace, Zenon
       DEF ExitCriticalSlow, CriticalOut, Lawful, StaysOut, SameAsking, Unclaimed, PlaceInv, Has,
           Critical
  <2> QED
    BY <2>1, <2>2, LawfulIsQuiet, Zenon
<1>4. CASE ExitCriticalSlow(t) /\ ~({"JNI_CRITICAL_ACCESS", "HALT_EXCLUSIVE"} \subseteq publicFlags[t])
  <2>1. /\ PcTo(t, ret[t]) /\ RetTo(t, ret[t])
        /\ FlagsTo(t, (publicFlags[t] \ Critical) \cup {}) /\ Owns(t, OwnInNative(t))
    BY <1>4, GotoTo, RetStays, FlagsSet, BufferStays, Zenon
       DEF ExitCriticalSlow, ContinueHolding, Types, Flag, ReleaseRequired, OutOfLine, HaltAny,
           HaltNoSuspend, Critical, flagVars
  <2>2. /\ pc[t] \in CriticalOut /\ ret[t] \in {"vm", "native"}
        /\ (ret[t] = "vm" => Has(t, "VM_ACCESS")) /\ (OwnInNative(t) => ret[t] = "native")
    BY <1>4, CriticalOutPlace, Zenon DEF ExitCriticalSlow, CriticalOut, PlaceInv
  <2>3. Lawful(t, ret[t], ret[t], (publicFlags[t] \ Critical) \cup {}, OwnInNative(t))
          /\ Unclaimed(t, ret[t], ret[t])
    <3>1. CASE ret[t] = "vm"
      BY <2>2, <3>1, CriticalOutPlace, PlainInPlace, Zenon
         DEF PlainIn, Lawful, StaysOut, SameAsking, Unclaimed, Has, Critical
    <3>2. CASE ret[t] = "native"
      BY <2>2, <3>2, CriticalOutPlace, NativeOutPlace, Zenon
         DEF NativeOut, Lawful, StaysOut, SameAsking, Unclaimed, Has, Critical
    <3> QED
      BY <2>2, <3>1, <3>2, Zenon
  <2> QED
    BY <2>1, <2>3, LawfulIsQuiet, Zenon
<1>5. CASE ExitCriticalRespond(t)
  <2>1. /\ PcTo(t, ret[t]) /\ RetTo(t, ret[t])
        /\ FlagsTo(t, publicFlags[t]) /\ Owns(t, OwnInNative(t))
    BY <1>5, GotoTo, RetStays, FlagsStay, BufferStays, Zenon
       DEF ExitCriticalRespond, ContinueHolding, Types, flagVars
  <2>2. /\ pc[t] \in CriticalOut /\ ret[t] \in {"vm", "native"}
        /\ (ret[t] = "vm" => Has(t, "VM_ACCESS")) /\ (OwnInNative(t) => ret[t] = "native")
    BY <1>5, CriticalOutPlace, Zenon DEF ExitCriticalRespond, CriticalOut, PlaceInv
  <2>3. Lawful(t, ret[t], ret[t], publicFlags[t], OwnInNative(t))
          /\ Unclaimed(t, ret[t], ret[t])
    <3>1. CASE ret[t] = "vm"
      BY <2>2, <3>1, CriticalOutPlace, PlainInPlace, Zenon
         DEF PlainIn, Lawful, StaysOut, SameAsking, Unclaimed, Has, Critical
    <3>2. CASE ret[t] = "native"
      BY <2>2, <3>2, CriticalOutPlace, NativeOutPlace, Zenon
         DEF NativeOut, Lawful, StaysOut, SameAsking, Unclaimed, Has, Critical
    <3> QED
      BY <2>2, <3>1, <3>2, Zenon
  <2> QED
    BY <2>1, <2>3, LawfulIsQuiet, Zenon
<1> QED
  BY <1>1, <1>2, <1>3, <1>4, <1>5, Zenon DEF ExitCriticalBegin

(* A thread's own steps around VM access are quiet. *)
LEMMA AccessQuiet ==
    ASSUME Types, NEW t \in Thread, PlaceInv(t), Access(t)
    PROVE  Quiet(t)
BY ReleaseQuiet, RespondQuiet, AcquireQuiet, GiveUpQuiet, TakeQuiet, NativeQuiet, EnterQuiet, AsyncQuiet,
   NestedQuiet, EnterCriticalQuiet, ExitCriticalQuiet, Zenon
   DEF Access, AccessStep, AccessBegin, AccessDuty, ExitCriticalRegion

-----------------------------------------------------------------------------
(* Exclusive requests halt and resume threads, by flags of their own. *)

(* What a requester may do to the flags of all threads. *)
LEMMA RequestMove ==
    ASSUME Types, NEW t \in Thread, NEW l \in PlainIn \cup ClaimIn,
           pc[t] \in PlainIn \cup ClaimIn \cup {"granted"}, PcTo(t, l), RetTo(t, ret[t]),
           Owns(t, OwnInNative(t)), PlaceInv(t), publicFlags' \in [Thread -> SUBSET Flag],
           \A u \in Thread, f \in {"VM_ACCESS", "HALT_INSPECTION", "HALT_JAVA_SUSPEND"} :
             f \in publicFlags'[u] <=> f \in publicFlags[u]
    PROVE  Calm(t)
<1>1. Types'
  BY Zenon DEF PcTo, RetTo, Owns, Types
<1>2. \A u \in Thread : Kept(u)
  BY Zenon DEF Kept, Has
<1>3. \A u \in Thread \ {t} : Same(u)
  BY Zenon DEF PcTo, RetTo, Owns, Same, Has
<1>4. pc'[t] = l /\ ret'[t] = ret[t] /\ OwnInNative(t)' = OwnInNative(t)
  BY Zenon DEF PcTo, RetTo, Owns
<1>5. /\ In(pc[t], ret[t]) /\ WithAccess(pc[t], ret[t]) /\ ~InNative(pc[t], ret[t])
      /\ ~Asking(pc[t], ret[t]) /\ pc[t] \notin Cancelling
  BY PlainInPlace, ClaimInPlace, GrantedPlace, Zenon
<1>6. /\ Returning(l, ret[t]) /\ WithAccess(l, ret[t]) /\ ~Asking(l, ret[t]) /\ ~Found(l, ret[t])
  BY PlainInPlace, ClaimInPlace, Zenon
<1>7. PlaceInv(t)'
  BY <1>4, <1>5, <1>6, Zenon DEF PlaceInv, Has
<1>8. StaysOut(t, pc'[t], ret'[t]) /\ SameAsking(t, pc'[t], ret'[t])
  BY <1>4, <1>5, <1>6, Zenon DEF StaysOut, SameAsking
<1> QED
  BY <1>1, <1>2, <1>3, <1>7, <1>8, Zenon DEF Calm

(* Only Halted and the flags of the request itself are set and cleared. *)
LEMMA ForeignFlags ==
    ASSUME Types, NEW v \in Thread, NEW s, NEW c, publicFlags' = WithFlags(v, s, c),
           s \subseteq Flag \ {"VM_ACCESS", "HALT_INSPECTION", "HALT_JAVA_SUSPEND"},
           c \cap {"VM_ACCESS", "HALT_INSPECTION", "HALT_JAVA_SUSPEND"} = {}
    PROVE  /\ publicFlags' \in [Thread -> SUBSET Flag]
           /\ \A u \in Thread, f \in {"VM_ACCESS", "HALT_INSPECTION", "HALT_JAVA_SUSPEND"} :
                f \in publicFlags'[u] <=> f \in publicFlags[u]
<1>1. publicFlags' = [publicFlags EXCEPT ![v] = (publicFlags[v] \ c) \cup s]
  BY Zenon DEF WithFlags
<1>2. publicFlags' \in [Thread -> SUBSET Flag]
  BY <1>1, Zenon DEF Types
<1> SUFFICES ASSUME NEW u \in Thread, NEW f \in {"VM_ACCESS", "HALT_INSPECTION", "HALT_JAVA_SUSPEND"}
             PROVE  f \in publicFlags'[u] <=> f \in publicFlags[u]
  BY <1>2, Zenon
<1>3. f \notin s /\ f \notin c
  BY Zenon
<1>4. publicFlags'[u] = IF u = v THEN (publicFlags[v] \ c) \cup s ELSE publicFlags[u]
  BY <1>1, Zenon DEF Types
<1> QED
  BY <1>3, <1>4, Zenon

(* A request step that leaves publicFlags alone changes no flag. *)
LEMMA FlagsAlone ==
    ASSUME Types, UNCHANGED publicFlags
    PROVE  /\ publicFlags' \in [Thread -> SUBSET Flag]
           /\ \A u \in Thread, f \in {"VM_ACCESS", "HALT_INSPECTION", "HALT_JAVA_SUSPEND"} :
                f \in publicFlags'[u] <=> f \in publicFlags[u]
BY Zenon DEF Types

(* The flags by which a request halts and releases others are neither VM access nor a halt flag
   of an inspection or a suspension. *)
LEMMA HaltedIsFlag ==
    /\ Halted \subseteq Flag \ {"VM_ACCESS", "HALT_INSPECTION", "HALT_JAVA_SUSPEND"}
    /\ {"NOT_AT_SAFE_POINT"} \subseteq Flag \ {"VM_ACCESS", "HALT_INSPECTION", "HALT_JAVA_SUSPEND"}
    /\ {"HALT_EXCLUSIVE"} \subseteq Flag \ {"VM_ACCESS", "HALT_INSPECTION", "HALT_JAVA_SUSPEND"}
BY Zenon DEF Halted, Flag, ReleaseRequired, HaltAny, HaltNoSuspend

(* The steps of a request for exclusive access that set no flag are calm. *)
LEMMA ClaimCalm ==
    ASSUME Types, NEW t \in Thread, PlaceInv(t),
           \/ AcquireExclusiveNested(t) \/ AcceptHandOff(t) \/ PostBegin(t) \/ Flush(t) \/ PostEnd(t)
           \/ EnterExclusive(t) \/ ReleaseExclusiveNested(t) \/ NotifyEnd(t)
           \/ (\E u \in Thread : Notify(t, u))
    PROVE  Calm(t)
<1>1. RetTo(t, ret[t]) /\ UNCHANGED publicFlags
  BY RetStays, Zenon
     DEF AcquireExclusiveNested, AcceptHandOff, PostBegin, Flush, PostEnd, EnterExclusive,
         ReleaseExclusiveNested, NotifyEnd, Notify, localVars, flagVars
<1>2. Owns(t, OwnInNative(t))
  <2>1. CASE Flush(t)
    BY <2>1, BufferFlushed, Zenon DEF Flush
  <2> QED
    BY <2>1, BufferStays, Zenon
       DEF AcquireExclusiveNested, AcceptHandOff, PostBegin, PostEnd, EnterExclusive,
           ReleaseExclusiveNested, NotifyEnd, Notify, flagVars
<1>3. pc[t] \in PlainIn \cup ClaimIn /\ \E l \in PlainIn \cup ClaimIn : PcTo(t, l)
  <2>1. CASE AcquireExclusiveNested(t) \/ ReleaseExclusiveNested(t) \/ (\E u \in Thread : Notify(t, u))
    BY <2>1, PcStays, Zenon DEF AcquireExclusiveNested, ReleaseExclusiveNested, Notify, localVars, PlainIn,
         ClaimIn
  <2>2. CASE AcceptHandOff(t) \/ PostBegin(t) \/ Flush(t) \/ PostEnd(t)
    BY <2>2, GotoTo, Zenon DEF AcceptHandOff, PostBegin, Flush, PostEnd, PlainIn, ClaimIn
  <2>3. CASE EnterExclusive(t) \/ NotifyEnd(t)
    BY <2>3, GotoTo, Zenon DEF EnterExclusive, NotifyEnd, PlainIn, ClaimIn
  <2> QED
    BY <2>1, <2>2, <2>3, Zenon
<1>4. PICK l \in PlainIn \cup ClaimIn : PcTo(t, l)
  BY <1>3, Zenon
<1> QED
  BY <1>1, <1>2, <1>3, <1>4, FlagsAlone, RequestMove, Zenon

(* Waiting for the responses is calm. *)
LEMMA AwaitCalm ==
    ASSUME Types, NEW t \in Thread, PlaceInv(t), Await(t)
    PROVE  Calm(t)
<1>1. RetTo(t, ret[t]) /\ UNCHANGED publicFlags /\ Owns(t, OwnInNative(t))
  BY RetStays, BufferStays, Zenon DEF Await, flagVars
<1>2. PICK l \in {"awaitVM", "awaitJNI", "exclusiveList"} : Goto(t, l)
  BY Zenon DEF Await, AwaitVM, AwaitJNI
<1>3. pc[t] \in {"await", "awaitVM", "awaitJNI"}
  BY Zenon DEF Await
<1>4. pc[t] \in PlainIn \cup ClaimIn /\ l \in PlainIn \cup ClaimIn
  BY <1>2, <1>3, Zenon DEF PlainIn, ClaimIn
<1> QED
  BY <1>1, <1>2, <1>4, GotoTo, FlagsAlone, RequestMove, Zenon

(* Posting the halt request to the others and counting them is calm: it sets and clears none of
   their inspection flags. *)
LEMMA PostCalm ==
    ASSUME Types, NEW t \in Thread, PlaceInv(t), NEW u \in Thread, PostHalt(t, u) \/ PostCount(t, u)
    PROVE  Calm(t)
<1>1. /\ PcTo(t, pc[t]) /\ RetTo(t, ret[t]) /\ Owns(t, OwnInNative(t)) /\ pc[t] \in PlainIn \cup ClaimIn
  BY PcStays, RetStays, BufferStays, Zenon DEF PostHalt, PostCount, localVars, PlainIn, ClaimIn
<1>2. CASE PostHalt(t, u)
  <2>1. publicFlags' = WithFlags(u, Halted, {})
    BY <1>2, Zenon DEF PostHalt
  <2> QED
    BY <1>1, <2>1, HaltedIsFlag, ForeignFlags, RequestMove, Zenon
<1>3. CASE PostCount(t, u)
  <2>1. \/ publicFlags' = WithFlags(u, {}, {"NOT_COUNTED_BY_EXCLUSIVE"})
        \/ UNCHANGED publicFlags
    BY <1>3, Zenon DEF PostCount
  <2>2. CASE publicFlags' = WithFlags(u, {}, {"NOT_COUNTED_BY_EXCLUSIVE"})
    BY <1>1, <2>2, ForeignFlags, RequestMove, Zenon
  <2>3. CASE UNCHANGED publicFlags
    BY <1>1, <2>3, FlagsAlone, RequestMove, Zenon
  <2> QED
    BY <2>1, <2>2, <2>3, Zenon
<1> QED
  BY <1>2, <1>3, Zenon

(* The first request for exclusive access, and accepting it once it is handed over, are calm. *)
LEMMA FirstCalm ==
    ASSUME Types, NEW t \in Thread, PlaceInv(t), AcquireExclusiveFirst(t) \/ Granted(t)
    PROVE  Calm(t)
<1>1. CASE AcquireExclusiveFirst(t)
  <2>1. /\ PcTo(t, "postList") /\ RetTo(t, ret[t]) /\ Owns(t, OwnInNative(t))
        /\ "postList" \in PlainIn \cup ClaimIn /\ pc[t] \in PlainIn \cup ClaimIn
    BY <1>1, GotoTo, RetStays, BufferDrained, Zenon DEF AcquireExclusiveFirst, PlainIn, ClaimIn
  <2>2. publicFlags' = WithFlags(t, {"NOT_AT_SAFE_POINT"}, {})
    BY <1>1, Zenon DEF AcquireExclusiveFirst
  <2> QED
    BY <2>1, <2>2, HaltedIsFlag, ForeignFlags, RequestMove, Zenon
<1>2. CASE Granted(t)
  <2>1. /\ PcTo(t, "accept") /\ RetTo(t, ret[t]) /\ Owns(t, OwnInNative(t))
        /\ "accept" \in PlainIn \cup ClaimIn /\ pc[t] = "granted"
    BY <1>2, GotoTo, RetStays, BufferStays, Zenon DEF Granted, PlainIn, ClaimIn
  <2>2. publicFlags' = WithFlags(t, {}, {"QUEUED_FOR_EXCLUSIVE"})
    BY <1>2, Zenon DEF Granted
  <2> QED
    BY <2>1, <2>2, ForeignFlags, RequestMove, Zenon
<1> QED
  BY <1>1, <1>2, Zenon

(* A requester that joins the queue releases VM access and halts itself alone. *)
LEMMA QueuedCalm ==
    ASSUME Types, NEW t \in Thread, PlaceInv(t), AcquireExclusiveQueued(t)
    PROVE  Calm(t)
<1>1. PICK C \in SUBSET {"VM_ACCESS", "JNI_CRITICAL_ACCESS"} :
        publicFlags' = WithFlags(t, {"NOT_AT_SAFE_POINT", "QUEUED_FOR_EXCLUSIVE", "HALT_EXCLUSIVE"}, C)
  BY Zenon DEF AcquireExclusiveQueued
<1> DEFINE S == {"NOT_AT_SAFE_POINT", "QUEUED_FOR_EXCLUSIVE", "HALT_EXCLUSIVE"}
           F == (publicFlags[t] \ C) \cup S
<1>2. FlagsTo(t, F)
  <2>1. S \in SUBSET Flag
    BY Zenon DEF Flag, ReleaseRequired, HaltAny, HaltNoSuspend
  <2> QED
    BY <1>1, <2>1, FlagsSet, Zenon
<1>3. PcTo(t, "acquire") /\ RetTo(t, "granted") /\ Owns(t, OwnInNative(t)) /\ pc[t] = "vm"
  BY GotoTo, RetSet, BufferDrained, Zenon DEF AcquireExclusiveQueued
<1>4. /\ "HALT_INSPECTION" \in F <=> Has(t, "HALT_INSPECTION")
      /\ "HALT_JAVA_SUSPEND" \in F <=> Has(t, "HALT_JAVA_SUSPEND")
  BY Zenon DEF Has
<1> HIDE DEF F
<1>5. Lawful(t, "acquire", "granted", F, OwnInNative(t))
  BY <1>3, <1>4, PlainInPlace, AcquiringPlace, Zenon
     DEF PlainIn, Acquiring, Lawful, StaysOut, SameAsking, PlaceInv
<1> QED
  BY <1>2, <1>3, <1>5, LawfulIsCalm, Zenon

(* Releasing exclusive access, to the next in the queue or to all, is calm. *)
LEMMA ReleaseExclusiveCalm ==
    ASSUME Types, NEW t \in Thread, PlaceInv(t), HandOff(t) \/ ReleaseExclusive(t)
    PROVE  Calm(t)
<1>1. /\ PcTo(t, "notify") /\ RetTo(t, ret[t]) /\ Owns(t, OwnInNative(t))
      /\ "notify" \in PlainIn \cup ClaimIn /\ pc[t] \in PlainIn \cup ClaimIn
  BY GotoTo, RetStays, BufferStays, Zenon DEF HandOff, ReleaseExclusive, PlainIn, ClaimIn
<1>2. CASE HandOff(t)
  <2>1. publicFlags' \in [Thread -> SUBSET Flag]
    BY <1>2, Zenon DEF HandOff, Types, Flag, ReleaseRequired, HaltAny, HaltNoSuspend
  <2>2. \A u \in Thread, f \in {"VM_ACCESS", "HALT_INSPECTION", "HALT_JAVA_SUSPEND"} :
          f \in publicFlags'[u] <=> f \in publicFlags[u]
    BY <1>2, Zenon DEF HandOff, Types, Halted
  <2> QED
    BY <1>1, <2>1, <2>2, RequestMove, Zenon
<1>3. CASE ReleaseExclusive(t)
  <2>1. publicFlags' \in [Thread -> SUBSET Flag]
    BY <1>3, Zenon DEF ReleaseExclusive, Types
  <2>2. \A u \in Thread, f \in {"VM_ACCESS", "HALT_INSPECTION", "HALT_JAVA_SUSPEND"} :
          f \in publicFlags'[u] <=> f \in publicFlags[u]
    BY <1>3, Zenon DEF ReleaseExclusive, Halted
  <2> QED
    BY <1>1, <2>1, <2>2, RequestMove, Zenon
<1> QED
  BY <1>2, <1>3, Zenon

(* No thread dies here. *)
LEMMA NoLifecycle ==
    ASSUME NobodyDies, Types, NEW t \in Thread, PlaceInv(t)
    PROVE  ~Lifecycle(t)
BY Zenon DEF NobodyDies, PlaceInv, Returning, DeathLabel, Lifecycle, AllocateVMThread, DeallocateWait,
     DeallocateVMThread

(* Every step of VM access and exclusive access is calm. *)
LEMMA ThreadCalm ==
    ASSUME NobodyDies, Types, NEW t \in Thread, PlaceInv(t), ThreadNext(t) \/ DrainOne(t)
    PROVE  Calm(t)
<1>1. CASE Access(t) \/ DrainOne(t)
  BY <1>1, AccessQuiet, NestedQuiet, Zenon DEF Quiet
<1>2. CASE RequestStep(t) \/ RequestBegin(t)
  BY <1>2, ClaimCalm, AwaitCalm, PostCalm, FirstCalm, QueuedCalm, ReleaseExclusiveCalm, Zenon
     DEF RequestStep, RequestBegin
<1> QED
  BY <1>1, <1>2, NoLifecycle, Zenon DEF ThreadNext

-----------------------------------------------------------------------------
(* The steps of an inspector that halt and resume nobody are quiet too. *)

(* An inspector that releases VM access, to wait or to be halted, leaves the VM and still asks
   what it asked. *)
LEMMA ReleaseToQuiet ==
    ASSUME Types, NEW t \in Thread, PlaceInv(t), NEW next,
           \/ pc[t] = "inspectRelease" /\ next = "inspectWait"
           \/ pc[t] = "resumeRelease" /\ next = "resumeAcquire",
           ReleaseTo(t, next)
    PROVE  Quiet(t)
<1>1. /\ In(pc[t], ret[t]) /\ WithAccess(pc[t], ret[t]) /\ ~InNative(pc[t], ret[t])
      /\ ~Claiming(pc[t], ret[t])
      /\ Asking(pc[t], ret[t]) <=> next = "inspectWait"
  BY AskInPlace, ResumeInPlace, Zenon DEF AskIn, ResumeIn
<1>2. /\ Returning(next, ret[t]) /\ ~In(next, ret[t]) /\ ~WithAccess(next, ret[t]) /\ ~Found(next, ret[t])
      /\ ~Claiming(next, ret[t])
      /\ Asking(next, ret[t]) <=> next = "inspectWait"
  BY AskOutPlace, RestOutPlace, Zenon DEF AskOut, RestOut
<1>3. ~OwnInNative(t)
  BY <1>1, Zenon DEF PlaceInv
<1>4. CASE ~HasAny(t, ReleaseRequired)
  <2>1. /\ PcTo(t, next) /\ RetTo(t, ret[t]) /\ Owns(t, OwnInNative(t))
        /\ FlagsTo(t, (publicFlags[t] \ {"VM_ACCESS"}) \cup {})
    BY <1>4, GotoTo, RetStays, BufferDrained, FlagsSet, Zenon DEF ReleaseTo
  <2>2. Lawful(t, next, ret[t], (publicFlags[t] \ {"VM_ACCESS"}) \cup {}, OwnInNative(t))
          /\ Unclaimed(t, next, ret[t])
    BY <1>1, <1>2, <1>3, Zenon DEF Lawful, StaysOut, SameAsking, Unclaimed, Has
  <2> QED
    BY <2>1, <2>2, LawfulIsQuiet, Zenon
<1>5. CASE HasAny(t, ReleaseRequired)
  <2>1. /\ PcTo(t, "release") /\ RetTo(t, next) /\ Owns(t, OwnInNative(t))
        /\ FlagsTo(t, publicFlags[t])
    BY <1>5, GotoTo, RetSet, BufferStays, FlagsStay, Zenon DEF ReleaseTo, flagVars
  <2>2. Lawful(t, "release", next, publicFlags[t], OwnInNative(t)) /\ Unclaimed(t, "release", next)
    BY <1>1, <1>3, ReleasePlace, Zenon DEF Lawful, StaysOut, SameAsking, Unclaimed, PlaceInv, Has
  <2> QED
    BY <2>1, <2>2, LawfulIsQuiet, Zenon
<1> QED
  BY <1>4, <1>5, Zenon

(* A resumed inspector is in the VM again only if no halt flag is set. *)
LEMMA ResumeAcquireQuiet ==
    ASSUME Types, NEW t \in Thread, PlaceInv(t), ResumeAcquire(t)
    PROVE  Quiet(t)
<1>1. /\ ~In(pc[t], ret[t]) /\ ~InNative(pc[t], ret[t]) /\ ~Asking(pc[t], ret[t])
      /\ pc[t] \notin Cancelling /\ ~Claiming(pc[t], ret[t])
  BY RestOutPlace, Zenon DEF ResumeAcquire, RestOut
<1>2. ~OwnInNative(t) /\ Owns(t, OwnInNative(t))
  BY <1>1, BufferStays, Zenon DEF PlaceInv, ResumeAcquire
<1>3. PICK next \in {"vm", "inspect"} : AcquireTo(t, next)
  BY Zenon DEF ResumeAcquire, Resumed
<1>4. CASE ~HasAny(t, OutOfLine)
  <2>1. PcTo(t, next) /\ RetTo(t, ret[t])
    BY <1>3, <1>4, GotoTo, RetStays, Zenon DEF AcquireTo
  <2>2. FlagsTo(t, (publicFlags[t] \ {}) \cup {"VM_ACCESS"})
    BY <1>3, <1>4, FlagsSet, Zenon DEF AcquireTo, Flag
  <2>3. Lawful(t, next, ret[t], (publicFlags[t] \ {}) \cup {"VM_ACCESS"}, OwnInNative(t))
          /\ Unclaimed(t, next, ret[t])
    BY <1>1, <1>2, <1>4, PlainInPlace, NotHalted, Zenon DEF PlainIn, Lawful, StaysOut, SameAsking, Unclaimed, Has
  <2> QED
    BY <1>2, <2>1, <2>2, <2>3, LawfulIsQuiet, Zenon
<1>5. CASE HasAny(t, OutOfLine)
  <2>1. PcTo(t, "acquire") /\ RetTo(t, next) /\ FlagsTo(t, publicFlags[t])
    BY <1>3, <1>5, GotoTo, RetSet, FlagsStay, Zenon DEF AcquireTo
  <2>2. Lawful(t, "acquire", next, publicFlags[t], OwnInNative(t)) /\ Unclaimed(t, "acquire", next)
    BY <1>1, <1>2, AcquiringPlace, Zenon DEF Acquiring, Lawful, StaysOut, SameAsking, Unclaimed, Has
  <2> QED
    BY <1>2, <2>1, <2>2, LawfulIsQuiet, Zenon
<1> QED
  BY <1>4, <1>5, Zenon

(* A thread that haltThreadForInspection and suspendImpl need not wait for is not in the VM: it
   has no VM access, or runs a native method. *)
LEMMA NotWithin ==
    ASSUME CountInv, NEW u \in Thread, ~MustWait(u) \/ ~HasAny(u, AccessOrQueued)
    PROVE  ~Within(pc[u], ret[u])
<1>1. PlaceInv(u)
  BY Zenon DEF CountInv
<1>2. CASE ~Has(u, "VM_ACCESS")
  BY <1>1, <1>2, Zenon DEF PlaceInv, WithAccess
<1>3. CASE OwnInNative(u)
  <2>1. InNative(pc[u], ret[u])
    BY <1>1, <1>3, Zenon DEF PlaceInv
  <2> QED
    BY <2>1, Zenon DEF InNative, Within, InspectInVM
<1>4. ~HasAny(u, AccessOrQueued) => ~Has(u, "VM_ACCESS")
  BY Zenon DEF HasAny, AccessOrQueued, Has
<1> QED
  BY <1>2, <1>3, <1>4, Zenon DEF MustWait

(* haltThreadForInspection stops waiting only if its target is not in the VM. *)
LEMMA HaltWaitQuiet ==
    ASSUME CountInv, NEW t \in Thread, HaltWait(t) \/ HaltWake(t)
    PROVE  Quiet(t)
<1>0. Types /\ PlaceInv(t)
  BY Zenon DEF CountInv
<1>1. target[t] \in Thread
  <2>1. Asking(pc[t], ret[t])
    BY AskOutPlace, Zenon DEF HaltWait, HaltWake, AskOut
  <2> QED
    BY <2>1, Zenon DEF CountInv, TargetInv
<1>2. PICK l \in {"inspectWaiting", "inspectAcquire"} : PcTo(t, l) /\ (l = "inspectAcquire" => Waited(t))
  <2>1. CASE HaltWait(t)
    <3>1. CASE MustWait(target[t])
      BY <1>0, <2>1, <3>1, GotoTo, Zenon DEF HaltWait
    <3>2. CASE ~MustWait(target[t])
      BY <1>0, <1>1, <2>1, <3>2, GotoTo, NotWithin, Zenon DEF HaltWait, Waited
    <3> QED
      BY <3>1, <3>2, Zenon
  <2>2. CASE HaltWake(t)
    <3>1. CASE HasAny(target[t], AccessOrQueued)
      BY <1>0, <2>2, <3>1, PcStays, Zenon DEF HaltWake
    <3>2. CASE ~HasAny(target[t], AccessOrQueued)
      BY <1>0, <1>1, <2>2, <3>2, GotoTo, NotWithin, Zenon DEF HaltWake, Waited
    <3> QED
      BY <3>1, <3>2, Zenon
  <2> QED
    BY <2>1, <2>2, Zenon
<1>3. RetTo(t, ret[t]) /\ FlagsTo(t, publicFlags[t]) /\ pc[t] \in {"inspectWait", "inspectWaiting"}
  BY <1>0, RetStays, FlagsStay, Zenon DEF HaltWait, HaltWake, flagVars
<1>4. Owns(t, OwnInNative(t))
  BY <1>0, BufferStays, BufferFlushed, Zenon DEF HaltWait, HaltWake, FlushAll, flagVars
<1>5. Lawful(t, l, ret[t], publicFlags[t], OwnInNative(t)) /\ Unclaimed(t, l, ret[t])
  BY <1>0, <1>2, <1>3, AskOutPlace, Zenon DEF AskOut, Lawful, StaysOut, SameAsking, Unclaimed, PlaceInv, Has
<1> QED
  BY <1>0, <1>2, <1>3, <1>4, <1>5, LawfulIsQuiet, Zenon

(* haltThreadForInspection acquires VM access again for its answer. *)
LEMMA HaltAcquireQuiet ==
    ASSUME Types, NEW t \in Thread, PlaceInv(t), HaltAcquire(t)
    PROVE  Quiet(t)
<1>1. PcTo(t, "acquire") /\ RetTo(t, "inspectCheck") /\ FlagsTo(t, publicFlags[t])
        /\ Owns(t, OwnInNative(t))
  BY GotoTo, RetSet, FlagsStay, BufferStays, Zenon DEF HaltAcquire, flagVars
<1>2. Lawful(t, "acquire", "inspectCheck", publicFlags[t], OwnInNative(t))
        /\ Unclaimed(t, "acquire", "inspectCheck")
  BY AskOutPlace, AcquiringPlace, Zenon
     DEF HaltAcquire, AskOut, Acquiring, Lawful, StaysOut, SameAsking, Unclaimed, PlaceInv, Has
<1> QED
  BY <1>1, <1>2, LawfulIsQuiet, Zenon

(* A halted inspector goes on to cancel its request and to release VM access. *)
LEMMA CheckQuiet ==
    ASSUME Types, NEW t \in Thread, PlaceInv(t), HaltCheck(t) \/ ResumeCheck(t)
    PROVE  Quiet(t)
<1>1. RetTo(t, ret[t]) /\ FlagsTo(t, publicFlags[t]) /\ Owns(t, OwnInNative(t))
  BY RetStays, FlagsStay, BufferStays, Zenon DEF HaltCheck, ResumeCheck, flagVars
<1>2. CASE HaltCheck(t)
  <2>1. PICK l \in {"inspectCancel", "inspected"} :
          PcTo(t, l) /\ (Has(t, "HALT_INSPECTION") => l = "inspectCancel")
    BY <1>2, GotoTo, Zenon DEF HaltCheck
  <2>2. Lawful(t, l, ret[t], publicFlags[t], OwnInNative(t)) /\ Unclaimed(t, l, ret[t])
    BY <1>2, <2>1, CancelInPlace, AskInPlace, Zenon
       DEF HaltCheck, CancelIn, AskIn, Lawful, StaysOut, SameAsking, Unclaimed, PlaceInv, Has
  <2> QED
    BY <1>1, <2>1, <2>2, LawfulIsQuiet, Zenon
<1>3. CASE ResumeCheck(t)
  <2>1. PICK l \in {"resumeRelease", "vm", "inspect"} :
          PcTo(t, l) /\ (Has(t, "HALT_INSPECTION") => l = "resumeRelease")
    BY <1>3, GotoTo, Zenon DEF ResumeCheck, Resumed
  <2>2. Lawful(t, l, ret[t], publicFlags[t], OwnInNative(t)) /\ Unclaimed(t, l, ret[t])
    BY <1>3, <2>1, ResumeInPlace, PlainInPlace, Zenon
       DEF ResumeCheck, ResumeIn, PlainIn, Lawful, StaysOut, SameAsking, Unclaimed, PlaceInv, Has
  <2> QED
    BY <1>1, <2>1, <2>2, LawfulIsQuiet, Zenon
<1> QED
  BY <1>2, <1>3, Zenon

QuietInspectStep(t) ==
    \/ HaltRelease(t) \/ HaltWait(t) \/ HaltWake(t) \/ HaltAcquire(t) \/ HaltCheck(t)
    \/ ResumeCheck(t) \/ ResumeRelease(t) \/ ResumeAcquire(t)

(* The steps of an inspection that set and clear no halt flag are quiet. *)
LEMMA InspectQuiet ==
    ASSUME CountInv, NEW t \in Thread, QuietInspectStep(t)
    PROVE  Quiet(t) /\ UNCHANGED inspectVars
<1>0. Types /\ PlaceInv(t)
  BY Zenon DEF CountInv
<1>1. UNCHANGED inspectVars
  BY Zenon DEF QuietInspectStep, HaltRelease, HaltWait, HaltWake, HaltAcquire, HaltCheck, ResumeCheck,
         ResumeRelease, ResumeAcquire
<1>2. CASE HaltRelease(t) \/ ResumeRelease(t)
  BY <1>0, <1>1, <1>2, ReleaseToQuiet, Zenon DEF HaltRelease, ResumeRelease
<1> QED
  BY <1>0, <1>1, <1>2, HaltWaitQuiet, HaltAcquireQuiet, CheckQuiet,
       ResumeAcquireQuiet, Zenon DEF QuietInspectStep

-----------------------------------------------------------------------------
(* The requests are counted. *)

(* The invariant says of every thread what InspectionsCounted says. *)
LEMMA CountedIs == (\A u \in Thread : Counted(u)) <=> InspectionsCounted
<1>1. \A t \in Thread : Asking(pc[t], ret[t]) <=> Requesting(t)
  BY Zenon DEF Asking, Requesting, Acquiring
<1>2. \A u : Askers(u) = {t \in Thread : target[t] = u /\ Requesting(t)}
  BY <1>1, Zenon DEF Askers
<1> QED
  BY <1>2, Zenon DEF Counted, InspectionsCounted

(* There are finitely many inspectors to count. *)
LEMMA AskersFinite == \A u : IsFiniteSet(Askers(u)) /\ Cardinality(Askers(u)) \in Nat
<1>1. \A u : Askers(u) \subseteq Thread
  BY Zenon DEF Askers
<1> QED
  BY <1>1, ThreadAssumption, FS_Subset, FS_CardinalityType, Zenon

(* A calm step by which nobody changes what it asks for keeps the invariant. *)
LEMMA CalmCounts ==
    ASSUME CountInv, NEW t \in Thread, Calm(t), UNCHANGED inspectVars
    PROVE  CountInv'
<1>1. Types' /\ InspectTypes'
  BY Zenon DEF Calm, CountInv, InspectTypes, inspectVars
<1>2. ASSUME NEW u \in Thread PROVE PlaceInv(u)'
  <2>1. CASE u = t
    BY <2>1, Zenon DEF Calm
  <2>2. CASE u # t
    <3>1. Same(u) /\ PlaceInv(u)
      BY <2>2, Zenon DEF Calm, CountInv
    <3> QED
      BY <3>1, Zenon DEF Same, PlaceInv
  <2> QED
    BY <2>1, <2>2, Zenon
<1>3. \A u \in Thread : Asking(pc'[u], ret'[u]) <=> Asking(pc[u], ret[u])
  BY Zenon DEF Calm, Same, SameAsking
<1>4. target' = target /\ inspectionSuspendCount' = inspectionSuspendCount
  BY Zenon DEF inspectVars
<1>5. TargetInv'
  BY <1>3, <1>4, Zenon DEF CountInv, TargetInv
<1>6. ASSUME NEW u \in Thread PROVE Counted(u)'
  <2>1. Askers(u)' = Askers(u)
    BY <1>3, <1>4, Zenon DEF Askers
  <2>2. Has(u, "HALT_INSPECTION")' <=> Has(u, "HALT_INSPECTION")
    BY Zenon DEF Calm, Kept
  <2>3. Counted(u)
    BY Zenon DEF CountInv
  <2> QED
    BY <1>4, <2>1, <2>2, <2>3, Zenon DEF Counted
<1> QED
  BY <1>1, <1>2, <1>5, <1>6, Zenon DEF CountInv

(* A step that leaves VM access alone and moves t from one place to a like one. *)
LEMMA LikeMove ==
    ASSUME CountInv, NEW t \in Thread, NEW l, PcTo(t, l), RetTo(t, ret[t]), Owns(t, OwnInNative(t)),
           publicFlags' \in [Thread -> SUBSET Flag],
           \A u \in Thread : "VM_ACCESS" \in publicFlags'[u] <=> "VM_ACCESS" \in publicFlags[u],
           Returning(l, ret[t]), WithAccess(l, ret[t]) => WithAccess(pc[t], ret[t]),
           InNative(pc[t], ret[t]) => InNative(l, ret[t])
    PROVE  Types' /\ \A u \in Thread : PlaceInv(u)'
<1>1. Types'
  BY Zenon DEF PcTo, RetTo, Owns, Types
<1>2. ASSUME NEW u \in Thread PROVE PlaceInv(u)'
  <2>1. PlaceInv(u) /\ (Has(u, "VM_ACCESS")' <=> Has(u, "VM_ACCESS"))
    BY Zenon DEF CountInv, Has
  <2>2. OwnInNative(u)' = OwnInNative(u) /\ ret'[u] = ret[u]
    BY Zenon DEF Owns, RetTo
  <2>3. CASE u = t
    BY <2>1, <2>2, <2>3, Zenon DEF PlaceInv, PcTo
  <2>4. CASE u # t
    BY <2>1, <2>2, <2>4, Zenon DEF PlaceInv, PcTo
  <2> QED
    BY <2>3, <2>4, Zenon
<1> QED
  BY <1>1, <1>2, Zenon

(* Setting and clearing a halt flag of a thread leaves VM access and the flags of others alone. *)
LEMMA HaltFlags ==
    ASSUME Types, NEW u \in Thread, NEW s, NEW c, publicFlags' = WithFlags(u, s, c),
           s \subseteq {"HALT_INSPECTION", "HALT_JAVA_SUSPEND"},
           c \subseteq {"HALT_INSPECTION", "HALT_JAVA_SUSPEND"}
    PROVE  /\ publicFlags' \in [Thread -> SUBSET Flag]
           /\ \A v \in Thread : "VM_ACCESS" \in publicFlags'[v] <=> "VM_ACCESS" \in publicFlags[v]
           /\ \A v \in Thread \ {u} : publicFlags'[v] = publicFlags[v]
           /\ publicFlags'[u] = (publicFlags[u] \ c) \cup s
<1>1. s \in SUBSET Flag /\ "VM_ACCESS" \notin s /\ "VM_ACCESS" \notin c
  BY Zenon DEF Flag, HaltAny, HaltNoSuspend, ReleaseRequired
<1>2. FlagsTo(u, (publicFlags[u] \ c) \cup s)
  BY <1>1, FlagsSet, Zenon
<1> QED
  BY <1>1, <1>2, Zenon DEF FlagsTo

(* haltThreadForInspection adds its thread to those that ask, and one to the count. *)
LEMMA HaltThreadCounts ==
    ASSUME CountInv, NEW t \in Thread, NEW u \in Thread, HaltThread(t, u)
    PROVE  CountInv'
<1>1. u # t /\ pc[t] \in {"vm", "inspect"}
  BY Zenon DEF HaltThread
<1>2. PICK l \in {"inspectRelease", "inspected"} : Goto(t, l)
  BY Zenon DEF HaltThread
<1>3. PcTo(t, l) /\ RetTo(t, ret[t]) /\ Owns(t, OwnInNative(t))
  BY <1>2, GotoTo, RetStays, BufferStays, Zenon DEF HaltThread, CountInv
<1>4. /\ publicFlags' \in [Thread -> SUBSET Flag]
      /\ \A v \in Thread : "VM_ACCESS" \in publicFlags'[v] <=> "VM_ACCESS" \in publicFlags[v]
      /\ \A v \in Thread \ {u} : publicFlags'[v] = publicFlags[v]
      /\ "HALT_INSPECTION" \in publicFlags'[u]
  BY HaltFlags DEF HaltThread, CountInv
<1>5. /\ WithAccess(pc[t], ret[t]) /\ ~InNative(pc[t], ret[t]) /\ ~Asking(pc[t], ret[t])
      /\ Returning(l, ret[t]) /\ Asking(l, ret[t])
  BY <1>1, <1>2, PlainInPlace, AskInPlace, Zenon DEF PlainIn, AskIn
<1>6. Types' /\ \A v \in Thread : PlaceInv(v)'
  BY <1>3, <1>4, <1>5, LikeMove, Zenon
<1>7. /\ inspectionSuspendCount' = [inspectionSuspendCount EXCEPT ![u] = @ + 1]
      /\ target' = [target EXCEPT ![t] = u] /\ UNCHANGED suspended
  BY Zenon DEF HaltThread
<1>8. InspectTypes'
  BY <1>7 DEF InspectTypes, CountInv
<1>9. \A v \in Thread : Asking(pc'[v], ret'[v]) <=> Asking(pc[v], ret[v]) \/ v = t
  BY <1>3, <1>5, Zenon DEF PcTo, RetTo
<1>10. target'[t] = u /\ \A v \in Thread \ {t} : target'[v] = target[v]
  BY <1>7, Zenon DEF CountInv, InspectTypes
<1>11. TargetInv'
  BY <1>1, <1>9, <1>10, Zenon DEF CountInv, TargetInv
<1>12. Askers(u)' = Askers(u) \cup {t} /\ t \notin Askers(u)
  BY <1>5, <1>9, <1>10, Zenon DEF Askers
<1>13. \A v \in Thread \ {u} : Askers(v)' = Askers(v)
  BY <1>5, <1>9, <1>10, Zenon DEF Askers
<1>14. Counted(u)'
  <2>1. Cardinality(Askers(u)') = Cardinality(Askers(u)) + 1
    BY <1>12, AskersFinite, FS_AddElement, Zenon
  <2>2. inspectionSuspendCount'[u] = inspectionSuspendCount[u] + 1 /\ inspectionSuspendCount[u] \in Nat
    BY <1>7, Zenon DEF CountInv, InspectTypes
  <2>3. inspectionSuspendCount[u] = Cardinality(Askers(u))
    BY Zenon DEF CountInv, Counted
  <2>4. Cardinality(Askers(u))' = Cardinality(Askers(u)')
    OBVIOUS
  <2>5. inspectionSuspendCount'[u] = Cardinality(Askers(u)') /\ inspectionSuspendCount'[u] > 0
    BY <2>1, <2>2, <2>3
  <2> QED
    BY <1>4, <2>5, Zenon DEF Counted, Has
<1>15. ASSUME NEW v \in Thread \ {u} PROVE Counted(v)'
  <2>1. inspectionSuspendCount'[v] = inspectionSuspendCount[v] /\ publicFlags'[v] = publicFlags[v]
    BY <1>4, <1>7, Zenon DEF CountInv, InspectTypes
  <2>2. Counted(v)
    BY Zenon DEF CountInv
  <2> QED
    BY <1>13, <2>1, <2>2, Zenon DEF Counted, Has
<1> QED
  BY <1>6, <1>8, <1>11, <1>14, <1>15, Zenon DEF CountInv

(* resumeThreadForInspection removes its thread from those that ask and one from the count, and
   clears the flag with the last. *)
LEMMA ResumeThreadCounts ==
    ASSUME CountInv, NEW t \in Thread, ResumeThread(t)
    PROVE  CountInv'
<1>1. pc[t] \in {"inspected", "inspectCancel"}
  BY Zenon DEF ResumeThread
<1>2. /\ In(pc[t], ret[t]) /\ WithAccess(pc[t], ret[t]) /\ ~InNative(pc[t], ret[t])
         /\ Asking(pc[t], ret[t])
      /\ Returning("resumeCheck", ret[t]) /\ ~Asking("resumeCheck", ret[t])
  BY <1>1, AskInPlace, CancelInPlace, ResumeInPlace, Zenon DEF AskIn, CancelIn, ResumeIn
<1>3. PICK u \in Thread \ {t} : u = target[t]
  BY <1>2, Zenon DEF CountInv, TargetInv
<1>4. PcTo(t, "resumeCheck") /\ RetTo(t, ret[t]) /\ Owns(t, OwnInNative(t))
  BY GotoTo, RetStays, BufferStays, Zenon DEF ResumeThread, CountInv
<1> DEFINE last == inspectionSuspendCount[u] = 1
           c == IF last THEN {"HALT_INSPECTION"} ELSE {}
<1>5. publicFlags' = WithFlags(u, {}, c)
  BY <1>3, Zenon DEF ResumeThread
<1>6. /\ publicFlags' \in [Thread -> SUBSET Flag]
      /\ \A v \in Thread : "VM_ACCESS" \in publicFlags'[v] <=> "VM_ACCESS" \in publicFlags[v]
      /\ \A v \in Thread \ {u} : publicFlags'[v] = publicFlags[v]
      /\ publicFlags'[u] = (publicFlags[u] \ c) \cup {}
  <2>1. c \subseteq {"HALT_INSPECTION", "HALT_JAVA_SUSPEND"}
    OBVIOUS
  <2> HIDE DEF c
  <2> QED
    BY <1>3, <1>5, <2>1, HaltFlags, Zenon DEF CountInv
<1>7. Types' /\ \A v \in Thread : PlaceInv(v)'
  BY <1>2, <1>4, <1>6, LikeMove, Zenon
<1>8. /\ inspectionSuspendCount' = [inspectionSuspendCount EXCEPT ![u] = IF @ # 0 THEN @ - 1 ELSE 0]
      /\ UNCHANGED suspended
  BY <1>3, Zenon DEF ResumeThread
<1>9. \E v \in {u, NoThread} : target' = [target EXCEPT ![t] = v]
  BY <1>3, Zenon DEF ResumeThread
<1>10. InspectTypes'
  BY <1>3, <1>8, <1>9 DEF InspectTypes, CountInv
<1>11. /\ \A v \in Thread \ {t} : /\ Asking(pc'[v], ret'[v]) <=> Asking(pc[v], ret[v])
                                 /\ target'[v] = target[v]
       /\ ~Asking(pc'[t], ret'[t])
  BY <1>2, <1>4, <1>9, Zenon DEF PcTo, RetTo, CountInv, InspectTypes
<1>12. TargetInv'
  BY <1>11, Zenon DEF CountInv, TargetInv
<1>13. t \in Askers(u) /\ Askers(u)' = Askers(u) \ {t}
  BY <1>2, <1>3, <1>11, Zenon DEF Askers
<1>14. \A v \in Thread \ {u} : Askers(v)' = Askers(v)
  BY <1>3, <1>11, Zenon DEF Askers
<1>15. Counted(u)'
  <2>1. Cardinality(Askers(u)') = Cardinality(Askers(u)) - 1
    BY <1>13, AskersFinite, FS_RemoveElement, Zenon
  <2>2. inspectionSuspendCount[u] = Cardinality(Askers(u)) /\ Has(u, "HALT_INSPECTION")
    <3>1. Cardinality(Askers(u)) # 0
      BY <1>13, AskersFinite, FS_EmptySet, Zenon
    <3> QED
      BY <1>3, <3>1, AskersFinite DEF CountInv, Counted
  <2>3. inspectionSuspendCount[u] \in Nat \ {0}
    <3>1. Cardinality(Askers(u)) # 0
      BY <1>13, AskersFinite, FS_EmptySet, Zenon
    <3> QED
      BY <2>2, <3>1, AskersFinite, Zenon
  <2>4. inspectionSuspendCount'[u] = inspectionSuspendCount[u] - 1
    BY <1>3, <1>8, <2>3, Zenon DEF CountInv, InspectTypes
  <2>5. inspectionSuspendCount'[u] = Cardinality(Askers(u)')
    BY <2>1, <2>2, <2>4, Zenon
  <2>6. inspectionSuspendCount'[u] > 0 <=> ~last
    BY <2>3, <2>4
  <2>7. "HALT_INSPECTION" \in publicFlags'[u] <=> ~last
    BY <1>6, <2>2, Zenon DEF Has
  <2> QED
    BY <2>5, <2>6, <2>7, Zenon DEF Counted, Has
<1>16. ASSUME NEW v \in Thread \ {u} PROVE Counted(v)'
  <2>1. inspectionSuspendCount'[v] = inspectionSuspendCount[v] /\ publicFlags'[v] = publicFlags[v]
    BY <1>6, <1>8, Zenon DEF CountInv, InspectTypes
  <2>2. Counted(v)
    BY Zenon DEF CountInv
  <2> QED
    BY <1>14, <2>1, <2>2, Zenon DEF Counted, Has
<1> QED
  BY <1>3, <1>7, <1>10, <1>12, <1>15, <1>16, Zenon DEF CountInv

SuspendStep(t) ==
    SuspendWake(t) \/ SuspendSelf(t) \/ \E u \in Thread : SuspendThread(t, u) \/ ResumeSuspended(t, u)

(* A suspension sets and clears its own flag, and moves t in native code at most. *)
LEMMA SuspendMoves ==
    ASSUME Types, NEW t \in Thread, SuspendStep(t)
    PROVE  /\ \E l : /\ PcTo(t, l)
                     /\ \/ l = pc[t] /\ l \in {"vm", "native", "suspendWaiting"}
                        \/ pc[t] \in NativeOut /\ l \in NativeOut
           /\ RetTo(t, ret[t]) /\ Owns(t, OwnInNative(t))
           /\ publicFlags' \in [Thread -> SUBSET Flag]
           /\ \A u \in Thread, f \in {"VM_ACCESS", "HALT_INSPECTION"} :
                f \in publicFlags'[u] <=> f \in publicFlags[u]
<1>1. RetTo(t, ret[t])
  BY RetStays, Zenon DEF SuspendStep, SuspendWake, SuspendSelf, SuspendThread, ResumeSuspended, localVars
<1>2. Owns(t, OwnInNative(t))
  BY BufferStays, BufferDrained, BufferFlushed, Zenon
     DEF SuspendStep, SuspendWake, SuspendSelf, SuspendThread, ResumeSuspended, FlushAll, flagVars
<1>3. \E l : /\ PcTo(t, l)
             /\ \/ l = pc[t] /\ l \in {"vm", "native", "suspendWaiting"}
                \/ pc[t] \in NativeOut /\ l \in NativeOut
  <2>1. CASE SuspendSelf(t) \/ \E u \in Thread : ResumeSuspended(t, u)
    BY <2>1, PcStays, Zenon DEF SuspendSelf, ResumeSuspended, localVars
  <2>2. CASE SuspendWake(t)
    BY <2>2, PcStays, GotoTo, Zenon DEF SuspendWake, NativeOut
  <2>3. CASE \E u \in Thread : SuspendThread(t, u)
    BY <2>3, PcStays, GotoTo, Zenon DEF SuspendThread, NativeOut
  <2> QED
    BY <2>1, <2>2, <2>3, Zenon DEF SuspendStep
<1>4. \/ UNCHANGED publicFlags
      \/ \E u \in Thread : \/ publicFlags' = WithFlags(u, {"HALT_JAVA_SUSPEND"}, {})
                           \/ publicFlags' = WithFlags(u, {}, {"HALT_JAVA_SUSPEND"})
  BY Zenon DEF SuspendStep, SuspendWake, SuspendSelf, SuspendThread, ResumeSuspended, flagVars
<1>5. CASE UNCHANGED publicFlags
  BY <1>1, <1>2, <1>3, <1>5, Zenon DEF Types
<1>6. ASSUME NEW u \in Thread, NEW s \in SUBSET {"HALT_JAVA_SUSPEND"},
           NEW c \in SUBSET {"HALT_JAVA_SUSPEND"},
             publicFlags' = WithFlags(u, s, c)
      PROVE  /\ publicFlags' \in [Thread -> SUBSET Flag]
             /\ \A v \in Thread, f \in {"VM_ACCESS", "HALT_INSPECTION"} :
                  f \in publicFlags'[v] <=> f \in publicFlags[v]
  <2>1. /\ publicFlags' \in [Thread -> SUBSET Flag]
        /\ \A v \in Thread \ {u} : publicFlags'[v] = publicFlags[v]
        /\ publicFlags'[u] = (publicFlags[u] \ c) \cup s
    <3>1. s \subseteq {"HALT_INSPECTION", "HALT_JAVA_SUSPEND"}
            /\ c \subseteq {"HALT_INSPECTION", "HALT_JAVA_SUSPEND"}
      OBVIOUS
    <3> QED
      BY <1>6, <3>1, HaltFlags, Zenon
  <2> QED
    BY <2>1, Zenon
<1> QED
  BY <1>1, <1>2, <1>3, <1>4, <1>5, <1>6, Zenon

(* Suspending and resuming a thread changes no request for an inspection. *)
LEMMA SuspendCounts ==
    ASSUME CountInv, NEW t \in Thread, SuspendStep(t)
    PROVE  CountInv'
<1>1. /\ RetTo(t, ret[t]) /\ Owns(t, OwnInNative(t)) /\ publicFlags' \in [Thread -> SUBSET Flag]
      /\ \A u \in Thread, f \in {"VM_ACCESS", "HALT_INSPECTION"} :
           f \in publicFlags'[u] <=> f \in publicFlags[u]
  BY SuspendMoves, Zenon DEF CountInv
<1>2. PICK l : /\ PcTo(t, l)
               /\ \/ l = pc[t] /\ l \in {"vm", "native", "suspendWaiting"}
                  \/ pc[t] \in NativeOut /\ l \in NativeOut
  BY SuspendMoves, Zenon DEF CountInv
<1>3. /\ Returning(l, ret[t]) /\ (WithAccess(l, ret[t]) => WithAccess(pc[t], ret[t]))
      /\ InNative(pc[t], ret[t]) => InNative(l, ret[t])
      /\ ~Asking(l, ret[t]) /\ ~Asking(pc[t], ret[t])
  BY <1>2, PlainInPlace, NativeOutPlace, Zenon DEF PlainIn, NativeOut
<1>4. Types' /\ \A u \in Thread : PlaceInv(u)'
  BY <1>1, <1>2, <1>3, LikeMove, Zenon
<1>5. /\ UNCHANGED inspectionSuspendCount
         /\ \E v \in Thread \cup {NoThread, target[t]} : target' = [target EXCEPT ![t] = v]
      /\ suspended' \subseteq Thread
  <2>1. target = [target EXCEPT ![t] = target[t]]
    BY Zenon DEF CountInv, InspectTypes
  <2> QED
    BY <2>1, Zenon DEF SuspendStep, SuspendWake, SuspendSelf, SuspendThread, ResumeSuspended, inspectVars,
         CountInv, InspectTypes
<1>6. InspectTypes' /\ \A v \in Thread \ {t} : target'[v] = target[v]
  BY <1>5, Zenon DEF InspectTypes, CountInv
<1>7. \A v \in Thread : /\ Asking(pc'[v], ret'[v]) <=> Asking(pc[v], ret[v])
                        /\ Asking(pc[v], ret[v]) => target'[v] = target[v]
  BY <1>1, <1>2, <1>3, <1>6, Zenon DEF PcTo, RetTo
<1>8. TargetInv'
  BY <1>7, Zenon DEF CountInv, TargetInv
<1>9. ASSUME NEW u \in Thread PROVE Counted(u)'
  <2>1. Askers(u)' = Askers(u)
    BY <1>7, Zenon DEF Askers
  <2>2. Has(u, "HALT_INSPECTION")' <=> Has(u, "HALT_INSPECTION")
    BY <1>1, Zenon DEF Has
  <2>3. Counted(u)
    BY Zenon DEF CountInv
  <2> QED
    BY <1>5, <2>1, <2>2, <2>3, Zenon DEF Counted
<1> QED
  BY <1>4, <1>6, <1>8, <1>9, Zenon DEF CountInv

(* At first nobody is asked to halt. *)
LEMMA CountInit == ASSUME NobodyDies, InspectInit PROVE CountInv
<1>1. Types /\ InspectTypes
  BY DEF InspectInit, Init, Types, ByThread, InspectTypes
<1>2. \A t \in Thread : pc[t] = "released" /\ ret[t] = "vm" /\ ~OwnInNative(t)
  BY Zenon DEF NobodyDies, InspectInit, Init, OwnInNative
<1>3. \A t \in Thread : PlaceInv(t) /\ ~Asking(pc[t], ret[t])
  BY <1>2, RestOutPlace, Zenon DEF RestOut, PlaceInv
<1>4. TargetInv
  BY <1>3, Zenon DEF TargetInv
<1>5. ASSUME NEW u \in Thread PROVE Counted(u)
  <2>1. Askers(u) = {}
    BY <1>3, Zenon DEF Askers
  <2>2. inspectionSuspendCount[u] = 0 /\ ~Has(u, "HALT_INSPECTION")
    BY Zenon DEF InspectInit, Init, Has
  <2> QED
    BY <2>1, <2>2, FS_EmptySet DEF Counted
<1> QED
  BY <1>1, <1>3, <1>4, <1>5, Zenon DEF CountInv

(* Every step keeps the requests counted. *)
LEMMA CountNext == ASSUME NobodyDies, CountInv, [InspectNext]_inspectionVars PROVE CountInv'
<1>1. CASE Next /\ UNCHANGED inspectVars
  BY <1>1, ThreadCalm, CalmCounts, Zenon DEF Next, CountInv
<1>2. CASE \E t \in Thread : QuietInspectStep(t)
  BY <1>2, InspectQuiet, CalmCounts, Zenon DEF Quiet
<1>3. CASE \E t \in Thread : SuspendStep(t)
  BY <1>3, SuspendCounts, Zenon
<1>4. CASE \E t \in Thread : ResumeThread(t) \/ \E u \in Thread : HaltThread(t, u)
  BY <1>4, ResumeThreadCounts, HaltThreadCounts, Zenon
<1>5. CASE UNCHANGED inspectionVars
  <2>1. /\ UNCHANGED <<publicFlags, inNative, storeBuffer, pc, ret>>
        /\ UNCHANGED <<inspectionSuspendCount, target, suspended>>
    BY <1>5, Zenon DEF inspectionVars, vars, inspectVars, flagVars, bufferVars, localVars
  <2>2. \A u \in Thread : Askers(u)' = Askers(u) /\ OwnInNative(u)' = OwnInNative(u)
    BY <2>1, Zenon DEF Askers, OwnInNative
  <2>3. (\A u \in Thread : PlaceInv(u)' /\ Counted(u)') /\ TargetInv'
    BY <2>1, <2>2, Zenon DEF CountInv, PlaceInv, TargetInv, Counted, Has
  <2>4. Types' /\ InspectTypes'
    BY <2>1, Zenon DEF CountInv, Types, ByThread, InspectTypes
  <2> QED
    BY <2>3, <2>4, Zenon DEF CountInv
<1> QED
  BY <1>1, <1>2, <1>3, <1>4, <1>5, Zenon DEF InspectNext, InspectStep, QuietInspectStep, SuspendStep

(* The places of the threads agree with their flags, and inspectionSuspendCount with the
   inspectors that ask: the invariant of haltThreadForInspection and resumeThreadForInspection. *)
THEOREM CountInvariant == ASSUME NobodyDies PROVE InspectSpec => []CountInv
<1>1. InspectInit => CountInv
  BY CountInit, Zenon
<1>2. CountInv /\ [InspectNext]_inspectionVars => CountInv'
  BY CountNext, Zenon
<1> QED
  BY <1>1, <1>2, PTL DEF InspectSpec

(* inspectionSuspendCount is the number of inspectors that have asked the thread to halt and
   not resumed it, and HALT_INSPECTION is set exactly while it is not zero, for any number of
   inspectors, with exclusive access and suspensions going on. *)
THEOREM InspectionsAreCounted == ASSUME NobodyDies PROVE InspectSpec => []InspectionsCounted
<1>1. CountInv => InspectionsCounted
  BY CountedIs, Zenon DEF CountInv
<1>2. InspectSpec => []CountInv
  BY CountInvariant, Zenon
<1> QED
  BY <1>1, <1>2, PTL

-----------------------------------------------------------------------------
(* Nobody is ever queued for exclusive access. *)

(* No step of VM access changes exclusiveAccessState. *)
LEMMA AccessKeepsState ==
    ASSUME NEW t \in Thread, Access(t) \/ DrainOne(t) PROVE UNCHANGED exclusiveAccessState
<1>1. CASE DrainOne(t)
  BY <1>1, Zenon DEF DrainOne, vmVars, stateVars
<1>2. CASE \/ ReleaseFast(t) \/ ReleaseSlow(t) \/ ClearVMAccess(t) \/ Respond(t)
           \/ GiveUpCritical(t) \/ RespondCritical(t) \/ WaitForAccess(t) \/ Wake(t) \/ TakeVMAccess(t)
  BY <1>2, Zenon DEF ReleaseFast, ReleaseSlow, ClearVMAccess, Respond, GiveUpCritical, RespondCritical,
              WaitForAccess, Wake, TakeVMAccess, vmVars, stateVars
<1>3. CASE \/ AcquireFast(t) \/ AcquireSlow(t) \/ TryAcquire(t) \/ ExitVMToJNI(t) \/ EnterVMFromJNI(t)
           \/ ExitInline(t) \/ ExitOutOfLine(t) \/ ExitSlow(t) \/ EnterInline(t) \/ EnterOutOfLine(t)
           \/ EnterSlow(t) \/ EndAsyncCheck(t) \/ CheckAsyncMessages(t)
  BY <1>3, Zenon DEF AcquireFast, AcquireSlow, TryAcquire, ExitVMToJNI, EnterVMFromJNI, ExitInline,
              ExitOutOfLine,
              ExitSlow, EnterInline, EnterOutOfLine, EnterSlow, EndAsyncCheck, CheckAsyncMessages,
              vmVars, stateVars
<1>4. CASE \/ EnterCriticalWithAccess(t) \/ CountCritical(t) \/ EnterCriticalWithoutAccess(t)
           \/ EnterCriticalThroughVM(t) \/ SetCriticalFlags(t) \/ ExitCriticalSlow(t)
           \/ ExitCriticalRespond(t) \/ EnterNestedCritical(t) \/ EnterCriticalFast(t)
           \/ EnterCriticalSlow(t) \/ ExitNestedCritical(t) \/ ExitCriticalFast(t) \/ ExitCriticalBegin(t)
  BY <1>4, Zenon DEF EnterCriticalWithAccess, CountCritical, EnterCriticalWithoutAccess, EnterCriticalThroughVM,
              SetCriticalFlags, ExitCriticalSlow, ExitCriticalRespond, EnterNestedCritical,
              EnterCriticalFast, EnterCriticalSlow, ExitNestedCritical, ExitCriticalFast,
              ExitCriticalBegin, vmVars, stateVars
<1> QED
  BY <1>1, <1>2, <1>3, <1>4, Zenon
     DEF Access, AccessStep, AccessBegin, AccessDuty, ExitCriticalRegion

(* A step of one thread keeps nobody queued if it leaves its thread in no queue, and
   exclusiveAccessState free unless somebody claims it. *)
LEMMA NoQueueMove ==
    ASSUME NoQueue, NEW t \in Thread, \A u \in Thread \ {t} : pc'[u] = pc[u] /\ ret'[u] = ret[u],
           UNCHANGED exclusiveVMAccessQueue,
           ~Granting(pc'[t], ret'[t]), pc'[t] # "accept", Claiming(pc'[t], ret'[t]) => t \in Requester,
           exclusiveAccessState' # "NONE"
             => \/ pc'[t] \in ClaimLabel \cup OwnerLabel
                \/ exclusiveAccessState # "NONE" /\ pc[t] \notin ClaimLabel \cup OwnerLabel
    PROVE  NoQueue'
<1>1. exclusiveVMAccessQueue' = <<>>
  BY Zenon DEF NoQueue
<1>2. ASSUME NEW u \in Thread
      PROVE  ~Granting(pc'[u], ret'[u]) /\ pc'[u] # "accept"
             /\ (Claiming(pc'[u], ret'[u]) => u \in Requester)
  <2>1. CASE u = t
    BY <2>1, Zenon
  <2>2. CASE u # t
    BY <2>2, Zenon DEF NoQueue
  <2> QED
    BY <2>1, <2>2, Zenon
<1>3. exclusiveAccessState' # "NONE" => \E u \in Thread : pc'[u] \in ClaimLabel \cup OwnerLabel
  <2>1. CASE exclusiveAccessState # "NONE" /\ pc[t] \notin ClaimLabel \cup OwnerLabel
    <3>1. PICK u \in Thread : pc[u] \in ClaimLabel \cup OwnerLabel
      BY <2>1, Zenon DEF NoQueue
    <3>2. pc'[u] = pc[u]
      BY <2>1, <3>1, Zenon
    <3> QED
      BY <3>1, <3>2, Zenon
  <2> QED
    BY <2>1, Zenon
<1> QED
  BY <1>1, <1>2, <1>3, Zenon DEF NoQueue

(* A quiet step leaves requests for exclusive access alone. *)
LEMMA QuietNoQueue ==
    ASSUME NoQueue, NEW t \in Thread, Quiet(t), UNCHANGED <<exclusiveAccessState, exclusiveVMAccessQueue>>
    PROVE  NoQueue'
<1>1. \A u \in Thread \ {t} : pc'[u] = pc[u] /\ ret'[u] = ret[u]
  BY Zenon DEF Quiet, Calm, Same
<1>2. ~Granting(pc[t], ret[t]) /\ pc[t] # "accept" /\ (Claiming(pc[t], ret[t]) => t \in Requester)
  BY Zenon DEF NoQueue
<1>3. \/ pc'[t] = pc[t] /\ ret'[t] = ret[t]
      \/ ~Claiming(pc'[t], ret'[t]) /\ ~Claiming(pc[t], ret[t])
  BY <1>2, Zenon DEF Quiet, Unclaimed
<1>4. CASE pc'[t] = pc[t] /\ ret'[t] = ret[t]
  <2>1. \/ pc'[t] \in ClaimLabel \cup OwnerLabel
        \/ pc[t] \notin ClaimLabel \cup OwnerLabel
    BY <1>4, Zenon
  <2> QED
    BY <1>1, <1>2, <1>4, <2>1, NoQueueMove, Zenon
<1>5. CASE ~Claiming(pc'[t], ret'[t]) /\ ~Claiming(pc[t], ret[t])
  <2>1. ~Granting(pc'[t], ret'[t]) /\ pc'[t] # "accept" /\ pc[t] \notin ClaimLabel \cup OwnerLabel
    BY <1>5, Zenon DEF Claiming, RequestLabel
  <2> QED
    BY <1>1, <1>5, <2>1, NoQueueMove, Zenon
<1> QED
  BY <1>3, <1>4, <1>5, Zenon

(* The steps of a request for exclusive access and of its release, but the first. *)
LEMMA ClaimNoQueue ==
    ASSUME Types, NoQueue, NEW t \in Thread, NEW l, pc[t] \in ClaimLabel \cup OwnerLabel,
           l \in ClaimLabel \cup OwnerLabel, PcTo(t, l), RetTo(t, ret[t]),
           UNCHANGED exclusiveVMAccessQueue
    PROVE  NoQueue'
<1>1. pc'[t] = l /\ ret'[t] = ret[t] /\ \A u \in Thread \ {t} : pc'[u] = pc[u] /\ ret'[u] = ret[u]
  BY Zenon DEF PcTo, RetTo
<1>2. ~Granting(l, ret[t]) /\ l # "accept"
  BY Zenon DEF ClaimLabel, OwnerLabel, Granting, Acquiring
<1>3. t \in Requester
  BY Zenon DEF NoQueue, Claiming, RequestLabel
<1> QED
  BY <1>1, <1>2, <1>3, NoQueueMove, Zenon

(* The one requester finds exclusive access free when it asks, and hands it to nobody. *)
LEMMA RequestNoQueue ==
    ASSUME OneRequester, Types, NoQueue, NEW t \in Thread, RequestStep(t) \/ RequestBegin(t)
    PROVE  NoQueue'
<1>1. ~Granting(pc[t], ret[t]) /\ pc[t] # "granted" /\ pc[t] # "accept" /\ exclusiveVMAccessQueue = <<>>
  BY Zenon DEF NoQueue, Granting
<1>2. CASE AcquireExclusiveQueued(t)
  <2>1. PICK u \in Thread : pc[u] \in ClaimLabel \cup OwnerLabel
    BY <1>2, Zenon DEF AcquireExclusiveQueued, NoQueue
  <2>2. u \in Requester /\ t \in Requester /\ pc[t] = "vm"
    BY <1>2, <2>1, Zenon DEF AcquireExclusiveQueued, NoQueue, Claiming, RequestLabel
  <2>3. u = t
    BY <2>2, Zenon DEF OneRequester
  <2> QED
    BY <2>1, <2>2, <2>3, Zenon DEF ClaimLabel, OwnerLabel
<1>3. CASE AcquireExclusiveFirst(t)
  <2>1. PcTo(t, "postList") /\ RetTo(t, ret[t]) /\ t \in Requester /\ UNCHANGED exclusiveVMAccessQueue
    BY <1>3, GotoTo, RetStays, Zenon DEF AcquireExclusiveFirst
  <2>2. /\ pc'[t] = "postList" /\ ret'[t] = ret[t]
        /\ \A u \in Thread \ {t} : pc'[u] = pc[u] /\ ret'[u] = ret[u]
    BY <2>1, Zenon DEF PcTo, RetTo
  <2>3. ~Granting("postList", ret[t]) /\ "postList" # "accept"
          /\ "postList" \in ClaimLabel \cup OwnerLabel
    BY Zenon DEF Granting, Acquiring, ClaimLabel
  <2> QED
    BY <2>1, <2>2, <2>3, NoQueueMove, Zenon
<1>4. CASE AcquireExclusiveNested(t) \/ ReleaseExclusiveNested(t)
  <2>1. PcTo(t, pc[t]) /\ RetTo(t, ret[t]) /\ pc[t] = "exclusive" /\ UNCHANGED exclusiveVMAccessQueue
    BY <1>4, PcStays, RetStays, Zenon DEF AcquireExclusiveNested, ReleaseExclusiveNested, localVars
  <2> QED
    BY <2>1, ClaimNoQueue, Zenon DEF OwnerLabel
<1>5. CASE \E u \in Thread : PostHalt(t, u) \/ PostCount(t, u)
  <2>1. PcTo(t, pc[t]) /\ RetTo(t, ret[t]) /\ pc[t] \in {"post", "count"}
          /\ UNCHANGED exclusiveVMAccessQueue
    BY <1>5, PcStays, RetStays, Zenon DEF PostHalt, PostCount, localVars
  <2> QED
    BY <2>1, ClaimNoQueue, Zenon DEF ClaimLabel
<1>6. CASE PostBegin(t) \/ Flush(t) \/ PostEnd(t) \/ Await(t) \/ EnterExclusive(t)
  <2>1. PICK l \in ClaimLabel \cup OwnerLabel : Goto(t, l)
    BY <1>6, Zenon DEF PostBegin, Flush, PostEnd, Await, AwaitVM, AwaitJNI, EnterExclusive, ClaimLabel,
         OwnerLabel
  <2>2. pc[t] \in ClaimLabel \cup OwnerLabel
    BY <1>6, Zenon DEF PostBegin, Flush, PostEnd, Await, EnterExclusive, ClaimLabel, OwnerLabel
  <2>3. RetTo(t, ret[t]) /\ UNCHANGED exclusiveVMAccessQueue
    BY <1>6, RetStays, Zenon DEF PostBegin, Flush, PostEnd, Await, EnterExclusive
  <2> QED
    BY <2>1, <2>2, <2>3, GotoTo, ClaimNoQueue, Zenon
<1>7. CASE ReleaseExclusive(t)
  <2>1. PcTo(t, "notify") /\ RetTo(t, ret[t]) /\ exclusiveAccessState' = "NONE"
          /\ UNCHANGED exclusiveVMAccessQueue
    BY <1>7, GotoTo, RetStays, Zenon DEF ReleaseExclusive
  <2>2. /\ pc'[t] = "notify" /\ ret'[t] = ret[t]
        /\ \A u \in Thread \ {t} : pc'[u] = pc[u] /\ ret'[u] = ret[u]
    BY <2>1, Zenon DEF PcTo, RetTo
  <2>3. t \in Requester /\ ~Granting("notify", ret[t]) /\ "notify" # "accept"
    BY <1>7, Zenon DEF ReleaseExclusive, NoQueue, Claiming, RequestLabel, OwnerLabel, Granting, Acquiring
  <2> QED
    BY <2>1, <2>2, <2>3, NoQueueMove, Zenon
<1>8. CASE NotifyEnd(t) \/ (\E u \in Thread : Notify(t, u))
  <2>1. PICK l \in {"vm", "notify"} : PcTo(t, l)
    BY <1>8, GotoTo, PcStays, Zenon DEF NotifyEnd, Notify, localVars
  <2>2. /\ RetTo(t, ret[t]) /\ pc[t] = "notify"
        /\ UNCHANGED <<exclusiveAccessState, exclusiveVMAccessQueue>>
    BY <1>8, RetStays, Zenon DEF NotifyEnd, Notify, localVars, vmVars, stateVars
  <2>3. /\ pc'[t] = l /\ ret'[t] = ret[t]
        /\ \A u \in Thread \ {t} : pc'[u] = pc[u] /\ ret'[u] = ret[u]
    BY <2>1, <2>2, Zenon DEF PcTo, RetTo
  <2>4. /\ t \in Requester /\ ~Granting(l, ret[t]) /\ l # "accept"
        /\ pc[t] \notin ClaimLabel \cup OwnerLabel
    BY <2>2, Zenon DEF NoQueue, Claiming, RequestLabel, ClaimLabel, OwnerLabel, Granting, Acquiring
  <2> QED
    BY <2>2, <2>3, <2>4, NoQueueMove, Zenon
<1>9. ~Granted(t) /\ ~AcceptHandOff(t) /\ ~HandOff(t)
  BY <1>1, Zenon DEF Granted, AcceptHandOff, HandOff
<1> QED
  BY <1>2, <1>3, <1>4, <1>5, <1>6, <1>7, <1>8, <1>9, Zenon DEF RequestStep, RequestBegin

-----------------------------------------------------------------------------
(* A target that is halted stays so, and so does a suspended thread. *)

(* A thread that is asked to halt is flagged. *)
LEMMA AskedIsFlagged ==
    ASSUME CountInv, NEW t \in Thread, Asking(pc[t], ret[t])
    PROVE  target[t] \in Thread \ {t} /\ Has(target[t], "HALT_INSPECTION")
<1>1. PICK u \in Thread \ {t} : u = target[t]
  BY Zenon DEF CountInv, TargetInv
<1>2. t \in Askers(u)
  BY <1>1, Zenon DEF Askers
<1>3. Cardinality(Askers(u)) \in Nat \ {0}
  BY <1>2, AskersFinite, FS_EmptySet, Zenon
<1>4. Counted(u)
  BY <1>1, Zenon DEF CountInv
<1>5. inspectionSuspendCount[u] > 0
  BY <1>3, <1>4 DEF Counted
<1> QED
  BY <1>1, <1>4, <1>5, Zenon DEF Counted

(* Who has found a target halted has asked it to halt. *)
LEMMA FoundIsAsking == \A l, r : Found(l, r) => Asking(l, r)
BY Zenon DEF Found, Asking

(* A calm step keeps halted targets halted and suspended threads out: nobody gets into the VM
   past a halt flag. *)
LEMMA CalmHalts ==
    ASSUME CountInv, NoQueue, FoundInv, SuspendInv, NEW t \in Thread, Calm(t), UNCHANGED inspectVars
    PROVE  FoundInv' /\ SuspendInv'
<1>1. target' = target /\ suspended' = suspended /\ suspended \subseteq Thread
  BY Zenon DEF inspectVars, CountInv, InspectTypes
<1>2. ASSUME NEW x \in Thread, Found(pc'[x], ret'[x]) PROVE HaltedOut(target[x])'
  <2>1. Asking(pc[x], ret[x]) /\ (x # t => Found(pc[x], ret[x]))
    <3>1. Asking(pc'[x], ret'[x])
      BY <1>2, FoundIsAsking, Zenon
    <3>2. CASE x = t
      BY <3>1, <3>2, Zenon DEF Calm, SameAsking
    <3>3. CASE x # t
      BY <1>2, <3>1, <3>3, Zenon DEF Calm, Same
    <3> QED
      BY <3>2, <3>3, Zenon
  <2>2. PICK u \in Thread \ {x} : u = target[x] /\ Has(u, "HALT_INSPECTION")
    BY <2>1, AskedIsFlagged, Zenon
  <2>3. HaltedOut(u)
    <3>1. CASE Found(pc[x], ret[x])
      BY <2>2, <3>1, Zenon DEF FoundInv
    <3>2. CASE ~Found(pc[x], ret[x])
      <4>1. x = t /\ Waited(t)
        BY <1>2, <2>1, <3>2, Zenon DEF Calm, SameAsking
      <4>2. ~Within(pc[u], ret[u]) /\ ~Granting(pc[u], ret[u])
        BY <2>2, <4>1, Zenon DEF Waited, NoQueue
      <4> QED
        BY <4>2, Zenon DEF HaltedOut, In
    <3> QED
      BY <3>1, <3>2, Zenon
  <2>4. HaltedOut(u)'
    <3>1. CASE u = t
      BY <2>2, <2>3, <3>1, Zenon DEF Calm, StaysOut, HaltedOut
    <3>2. CASE u # t
      BY <2>2, <2>3, <3>2, Zenon DEF Calm, Same, HaltedOut
    <3> QED
      BY <3>1, <3>2, Zenon
  <2>5. target'[x] = u
    BY <1>1, <2>2, Zenon
  <2> QED
    BY <2>4, <2>5, Zenon DEF HaltedOut
<1>3. ASSUME NEW u \in suspended PROVE Has(u, "HALT_JAVA_SUSPEND")' /\ ~In(pc'[u], ret'[u])
  <2>1. u \in Thread /\ Has(u, "HALT_JAVA_SUSPEND") /\ ~In(pc[u], ret[u])
    BY <1>1, Zenon DEF SuspendInv
  <2>2. CASE u = t
    BY <2>1, <2>2, Zenon DEF Calm, StaysOut, Kept
  <2>3. CASE u # t
    BY <2>1, <2>3, Zenon DEF Calm, Same, Kept
  <2> QED
    BY <2>2, <2>3, Zenon
<1>4. FoundInv'
  BY <1>2, Zenon DEF FoundInv
<1>5. SuspendInv'
  BY <1>1, <1>3, Zenon DEF SuspendInv
<1> QED
  BY <1>4, <1>5, Zenon

(* The same of a step that changes what its thread asks for: it moves no other thread. *)
LEMMA MoveHalts ==
    ASSUME CountInv, NoQueue, FoundInv, NEW t \in Thread, NEW l, PcTo(t, l), RetTo(t, ret[t]),
           ~In(pc[t], ret[t]) => ~In(l, ret[t]), HaltedOut(t) => ~In(l, ret[t]) \/ l \in Cancelling,
           ~Claiming(pc[t], ret[t]), ~Claiming(l, ret[t]),
           UNCHANGED <<exclusiveAccessState, exclusiveVMAccessQueue>>,
           \A x \in Thread \ {t} : target'[x] = target[x],
           Found(l, ret[t]) => target'[t] \in Thread \ {t} /\ HaltedOut(target'[t])
    PROVE  NoQueue' /\ FoundInv' /\ \A u \in Thread : ~In(pc[u], ret[u]) => ~In(pc'[u], ret'[u])
<1>1. /\ pc'[t] = l /\ ret'[t] = ret[t]
      /\ \A u \in Thread \ {t} : pc'[u] = pc[u] /\ ret'[u] = ret[u]
  BY Zenon DEF PcTo, RetTo
<1>2. NoQueue'
  <2>1. ~Granting(l, ret[t]) /\ l # "accept" /\ pc[t] \notin ClaimLabel \cup OwnerLabel
    BY Zenon DEF Claiming, RequestLabel
  <2> QED
    BY <1>1, <2>1, NoQueueMove, Zenon
<1>3. \A u \in Thread : (~In(pc[u], ret[u]) => ~In(pc'[u], ret'[u])) /\ (HaltedOut(u) => HaltedOut(u)')
  <2> TAKE u \in Thread
  <2>1. CASE u = t
    BY <1>1, <2>1, Zenon DEF HaltedOut
  <2>2. CASE u # t
    BY <1>1, <2>2, Zenon DEF HaltedOut
  <2> QED
    BY <2>1, <2>2, Zenon
<1>4. ASSUME NEW x \in Thread, Found(pc'[x], ret'[x]) PROVE HaltedOut(target[x])'
  <2>1. PICK u \in Thread : u = target'[x] /\ HaltedOut(u)
    <3>1. CASE x = t
      <4>1. target'[t] \in Thread /\ HaltedOut(target'[t])
        BY <1>1, <1>4, <3>1, Zenon
      <4> QED
        BY <3>1, <4>1, Zenon
    <3>2. CASE x # t
      <4>1. Found(pc[x], ret[x])
        BY <1>1, <1>4, <3>2, Zenon
      <4>2. target[x] \in Thread /\ HaltedOut(target[x]) /\ target'[x] = target[x]
        BY <3>2, <4>1, FoundIsAsking, Zenon DEF CountInv, TargetInv, FoundInv
      <4> QED
        BY <4>2, Zenon
    <3> QED
      BY <3>1, <3>2, Zenon
  <2>2. HaltedOut(u)'
    BY <1>3, <2>1, Zenon
  <2> QED
    BY <2>1, <2>2, Zenon DEF HaltedOut
<1>5. FoundInv'
  BY <1>4, Zenon DEF FoundInv
<1> QED
  BY <1>2, <1>3, <1>5, Zenon

(* haltThreadForInspection finds its target halted at once only if it has no VM access. *)
LEMMA HaltThreadHalts ==
    ASSUME CountInv, HaltInv, NEW t \in Thread, NEW u \in Thread, HaltThread(t, u)
    PROVE  HaltInv'
<1>1. /\ u # t /\ pc[t] \in {"vm", "inspect"} /\ Types
      /\ target' = [target EXCEPT ![t] = u] /\ UNCHANGED suspended
  BY Zenon DEF HaltThread, CountInv
<1>2. PICK l \in {"inspectRelease", "inspected"} :
        Goto(t, l) /\ (l = "inspected" => ~HasAny(u, AccessOrQueued))
  BY Zenon DEF HaltThread
<1>3. PcTo(t, l) /\ RetTo(t, ret[t]) /\ UNCHANGED <<exclusiveAccessState, exclusiveVMAccessQueue>>
  BY <1>1, <1>2, GotoTo, RetStays, Zenon DEF HaltThread, vmVars, stateVars, requestVars
<1>4. /\ In(pc[t], ret[t]) /\ ~HaltedOut(t) /\ ~Claiming(pc[t], ret[t]) /\ ~Claiming(l, ret[t])
      /\ Found(l, ret[t]) <=> l = "inspected"
  BY <1>1, <1>2, PlainInPlace, AskInPlace, Zenon DEF PlainIn, AskIn, HaltedOut
<1>5. target'[t] = u /\ \A x \in Thread \ {t} : target'[x] = target[x]
  BY <1>1, Zenon DEF CountInv, InspectTypes
<1>6. l = "inspected" => HaltedOut(u)
  <2>1. SUFFICES ASSUME l = "inspected" PROVE HaltedOut(u)
    OBVIOUS
  <2>2. ~Within(pc[u], ret[u])
    BY <1>2, <2>1, NotWithin, Zenon
  <2> QED
    BY <2>2, Zenon DEF HaltInv, NoQueue, HaltedOut, In
<1>7. Found(l, ret[t]) => target'[t] \in Thread \ {t} /\ HaltedOut(target'[t])
  BY <1>1, <1>4, <1>5, <1>6, Zenon
<1>8. NoQueue' /\ FoundInv' /\ \A v \in Thread : ~In(pc[v], ret[v]) => ~In(pc'[v], ret'[v])
  BY <1>3, <1>4, <1>5, <1>7, MoveHalts, Zenon DEF HaltInv
<1>9. \A v \in Thread : publicFlags[v] \subseteq publicFlags'[v]
  <2>1. /\ \A v \in Thread \ {u} : publicFlags'[v] = publicFlags[v]
        /\ publicFlags'[u] = (publicFlags[u] \ {}) \cup {"HALT_INSPECTION"}
    BY <1>1, HaltFlags DEF HaltThread
  <2> QED
    BY <2>1, Zenon
<1>10. SuspendInv'
  BY <1>1, <1>8, <1>9, Zenon DEF HaltInv, SuspendInv, Has, CountInv, InspectTypes
<1> QED
  BY <1>8, <1>10, Zenon DEF HaltInv

(* resumeThreadForInspection lets nobody else's target go. *)
LEMMA ResumeThreadHalts ==
    ASSUME CountInv, HaltInv, NEW t \in Thread, ResumeThread(t)
    PROVE  HaltInv'
<1>1. /\ pc[t] \in {"inspected", "inspectCancel"} /\ Types /\ UNCHANGED suspended
      /\ \E v : target' = [target EXCEPT ![t] = v]
  BY Zenon DEF ResumeThread, CountInv
<1>2. /\ PcTo(t, "resumeCheck") /\ RetTo(t, ret[t])
      /\ UNCHANGED <<exclusiveAccessState, exclusiveVMAccessQueue>>
  BY <1>1, GotoTo, RetStays, Zenon DEF ResumeThread, vmVars, stateVars, requestVars
<1>3. /\ In(pc[t], ret[t]) /\ Asking(pc[t], ret[t]) /\ ~Claiming(pc[t], ret[t])
      /\ ~Claiming("resumeCheck", ret[t]) /\ "resumeCheck" \in Cancelling /\ ~Found("resumeCheck", ret[t])
  BY <1>1, AskInPlace, CancelInPlace, ResumeInPlace, Zenon DEF AskIn, CancelIn, ResumeIn
<1>4. \A x \in Thread \ {t} : target'[x] = target[x]
  BY <1>1, Zenon DEF CountInv, InspectTypes
<1>5. NoQueue' /\ FoundInv' /\ \A v \in Thread : ~In(pc[v], ret[v]) => ~In(pc'[v], ret'[v])
  BY <1>2, <1>3, <1>4, MoveHalts, Zenon DEF HaltInv
<1>6. PICK u \in Thread : u = target[t]
  BY <1>3, AskedIsFlagged, Zenon
<1>7. \A v \in Thread : Has(v, "HALT_JAVA_SUSPEND") => Has(v, "HALT_JAVA_SUSPEND")'
  <2>1. PICK c \in SUBSET {"HALT_INSPECTION"} : publicFlags' = WithFlags(u, {}, c)
    BY <1>6, Zenon DEF ResumeThread
  <2>2. c \subseteq {"HALT_INSPECTION", "HALT_JAVA_SUSPEND"}
    BY <2>1, Zenon
  <2>3. /\ \A v \in Thread \ {u} : publicFlags'[v] = publicFlags[v]
        /\ publicFlags'[u] = (publicFlags[u] \ c) \cup {}
    BY <1>1, <2>1, <2>2, HaltFlags, Zenon
  <2> QED
    BY <2>1, <2>3, Zenon DEF Has
<1>8. SuspendInv'
  BY <1>1, <1>5, <1>7, Zenon DEF HaltInv, SuspendInv, CountInv, InspectTypes
<1> QED
  BY <1>5, <1>8, Zenon DEF HaltInv

(* suspendImpl returns for a thread out of the VM, with its flag set; resumeImpl clears it. *)
LEMMA SuspendHalts ==
    ASSUME CountInv, HaltInv, NEW t \in Thread, SuspendStep(t)
    PROVE  HaltInv'
<1>1. Types /\ suspended \subseteq Thread /\ NoQueue /\ FoundInv /\ SuspendInv
  BY Zenon DEF CountInv, InspectTypes, HaltInv
<1>2. PICK l : /\ PcTo(t, l) /\ RetTo(t, ret[t])
               /\ \/ l = pc[t] /\ l \in {"vm", "native", "suspendWaiting"}
                  \/ pc[t] \in NativeOut /\ l \in NativeOut
  BY <1>1, SuspendMoves, Zenon
<1>3. /\ ~In(pc[t], ret[t]) => ~In(l, ret[t])
      /\ HaltedOut(t) => ~In(l, ret[t]) \/ l \in Cancelling
      /\ ~Claiming(pc[t], ret[t]) /\ ~Claiming(l, ret[t]) /\ ~Found(l, ret[t])
  BY <1>2, PlainInPlace, NativeOutPlace, Zenon DEF PlainIn, NativeOut, HaltedOut
<1>4. UNCHANGED <<exclusiveAccessState, exclusiveVMAccessQueue>>
  BY Zenon DEF SuspendStep, SuspendWake, SuspendSelf, SuspendThread, ResumeSuspended, vmVars, stateVars,
       requestVars
<1>5. \A x \in Thread \ {t} : target'[x] = target[x]
  BY Zenon DEF SuspendStep, SuspendWake, SuspendSelf, SuspendThread, ResumeSuspended, inspectVars,
         CountInv, InspectTypes
<1>6. NoQueue' /\ FoundInv' /\ \A v \in Thread : ~In(pc[v], ret[v]) => ~In(pc'[v], ret'[v])
  BY <1>1, <1>2, <1>3, <1>4, <1>5, MoveHalts, Zenon
<1>7. ASSUME NEW u \in Thread, ~MustWait(u) PROVE ~In(pc[u], ret[u])
  BY <1>1, <1>7, NotWithin, Zenon DEF NoQueue, In
<1>8. \A v \in suspended' : v \in Thread /\ ~In(pc[v], ret[v]) /\ Has(v, "HALT_JAVA_SUSPEND")'
  <2>1. CASE SuspendSelf(t)
    <3>1. /\ \A v \in Thread \ {t} : publicFlags'[v] = publicFlags[v]
          /\ publicFlags'[t] = (publicFlags[t] \ {}) \cup {"HALT_JAVA_SUSPEND"}
      BY <1>1, <2>1, HaltFlags DEF SuspendSelf
    <3>2. suspended' = suspended
      BY <2>1, Zenon DEF SuspendSelf, inspectVars
    <3> QED
      BY <1>1, <3>1, <3>2, Zenon DEF SuspendInv, Has
  <2>2. CASE SuspendWake(t)
    <3>1. UNCHANGED publicFlags
      BY <2>2, Zenon DEF SuspendWake, flagVars
    <3>2. \A v \in suspended' \ suspended :
            v \in Thread /\ Has(v, "HALT_JAVA_SUSPEND") /\ ~Has(v, "VM_ACCESS")
      BY <2>2, Zenon DEF SuspendWake, Has
    <3>3. \A v \in suspended' \ suspended : ~In(pc[v], ret[v])
      BY <1>7, <3>2, Zenon DEF MustWait
    <3> QED
      BY <1>1, <3>1, <3>2, <3>3, Zenon DEF SuspendInv, Has
  <2>3. ASSUME NEW u \in Thread, SuspendThread(t, u)
        PROVE  \A v \in suspended' : v \in Thread /\ ~In(pc[v], ret[v]) /\ Has(v, "HALT_JAVA_SUSPEND")'
    <3>1. /\ \A v \in Thread \ {u} : publicFlags'[v] = publicFlags[v]
          /\ publicFlags'[u] = (publicFlags[u] \ {}) \cup {"HALT_JAVA_SUSPEND"}
      BY <1>1, <2>3, HaltFlags DEF SuspendThread
    <3>2. \A v \in suspended' \ suspended : v = u /\ ~MustWait(u)
      BY <2>3, Zenon DEF SuspendThread
    <3>3. \A v \in suspended' \ suspended : ~In(pc[v], ret[v]) /\ v \in Thread
      BY <1>7, <3>2, Zenon
    <3> QED
      BY <1>1, <3>1, <3>2, <3>3 DEF SuspendInv, Has
  <2>4. ASSUME NEW u \in Thread, ResumeSuspended(t, u)
        PROVE  \A v \in suspended' : v \in Thread /\ ~In(pc[v], ret[v]) /\ Has(v, "HALT_JAVA_SUSPEND")'
    <3>1. \A v \in Thread \ {u} : publicFlags'[v] = publicFlags[v]
      BY <1>1, <2>4, HaltFlags DEF ResumeSuspended
    <3>2. suspended' = suspended \ {u}
      BY <2>4, Zenon DEF ResumeSuspended
    <3> QED
      BY <1>1, <3>1, <3>2, Zenon DEF SuspendInv, Has
  <2> QED
    BY <2>1, <2>2, <2>3, <2>4, Zenon DEF SuspendStep
<1>9. SuspendInv'
  BY <1>6, <1>8, Zenon DEF SuspendInv
<1> QED
  BY <1>6, <1>9, Zenon DEF HaltInv

(* At first nobody is inspected, suspended or queued. *)
LEMMA HaltInit == InspectInit => HaltInv
<1> SUFFICES ASSUME InspectInit PROVE HaltInv
  OBVIOUS
<1>1. /\ \A t \in Thread : pc[t] \in {"released", "dead"}
      /\ exclusiveVMAccessQueue = <<>> /\ exclusiveAccessState = "NONE" /\ suspended = {}
  BY Zenon DEF InspectInit, Init
<1>2. \A t \in Thread : ~Claiming(pc[t], ret[t]) /\ ~Found(pc[t], ret[t]) /\ pc[t] # "accept"
  BY <1>1, Zenon DEF Claiming, Granting, Acquiring, RequestLabel, ClaimLabel, OwnerLabel, Found
<1> QED
  BY <1>1, <1>2, Zenon DEF HaltInv, NoQueue, FoundInv, SuspendInv, Claiming

(* Every step keeps halted targets halted and suspended threads out of the VM. *)
LEMMA HaltNext ==
    ASSUME NobodyDies, OneRequester, CountInv, HaltInv, [InspectNext]_inspectionVars
    PROVE  HaltInv'
<1>1. Types /\ (\A t \in Thread : PlaceInv(t)) /\ NoQueue /\ FoundInv /\ SuspendInv
  BY Zenon DEF CountInv, HaltInv
<1>2. ASSUME NEW t \in Thread, Access(t) \/ DrainOne(t), UNCHANGED requestVars, UNCHANGED inspectVars
      PROVE  HaltInv'
  <2>1. Quiet(t)
    BY <1>1, <1>2, AccessQuiet, NestedQuiet, Zenon
  <2>2. UNCHANGED <<exclusiveAccessState, exclusiveVMAccessQueue>>
    BY <1>2, AccessKeepsState, Zenon DEF requestVars
  <2>3. NoQueue'
    BY <1>1, <2>1, <2>2, QuietNoQueue, Zenon
  <2> QED
    BY <1>1, <1>2, <2>1, <2>3, CalmHalts, Zenon DEF Quiet, HaltInv
<1>3. ASSUME NEW t \in Thread, RequestStep(t) \/ RequestBegin(t), UNCHANGED inspectVars
      PROVE  HaltInv'
  <2>1. Calm(t)
    BY <1>1, <1>3, ThreadCalm, Zenon DEF ThreadNext
  <2>2. NoQueue'
    BY <1>1, <1>3, RequestNoQueue, Zenon
  <2> QED
    BY <1>1, <1>3, <2>1, <2>2, CalmHalts, Zenon DEF HaltInv
<1>4. CASE Next /\ UNCHANGED inspectVars
  BY <1>1, <1>2, <1>3, <1>4, NoLifecycle, Zenon DEF Next, ThreadNext
<1>5. ASSUME NEW t \in Thread, QuietInspectStep(t) PROVE HaltInv'
  <2>1. Quiet(t) /\ UNCHANGED inspectVars
    BY <1>5, InspectQuiet, Zenon
  <2>2. UNCHANGED <<exclusiveAccessState, exclusiveVMAccessQueue>>
    BY <1>5, Zenon DEF QuietInspectStep, HaltRelease, HaltWait, HaltWake, HaltAcquire, HaltCheck, ResumeCheck,
                ResumeRelease, ResumeAcquire, vmVars, stateVars, requestVars
  <2>3. NoQueue'
    BY <1>1, <2>1, <2>2, QuietNoQueue, Zenon
  <2> QED
    BY <1>1, <2>1, <2>3, CalmHalts, Zenon DEF Quiet, HaltInv
<1>6. CASE \E t \in Thread : SuspendStep(t)
  BY <1>6, SuspendHalts, Zenon
<1>7. CASE \E t \in Thread : ResumeThread(t) \/ \E u \in Thread : HaltThread(t, u)
  BY <1>7, ResumeThreadHalts, HaltThreadHalts, Zenon
<1>8. CASE UNCHANGED inspectionVars
  <2>1. UNCHANGED <<exclusiveVMAccessQueue, exclusiveAccessState, publicFlags, pc, ret, target,
             suspended>>
    BY <1>8, Zenon DEF inspectionVars, vars, inspectVars, flagVars, localVars, vmVars, stateVars, requestVars
  <2> QED
    BY <1>1, <2>1, Zenon DEF HaltInv, NoQueue, FoundInv, SuspendInv, HaltedOut, Has
<1> QED
  BY <1>4, <1>5, <1>6, <1>7, <1>8, Zenon DEF InspectNext, InspectStep, QuietInspectStep, SuspendStep

(* With at most one requester of exclusive access, a target that an inspector has found halted
   stays halted, and a suspended thread out of the VM, until it is resumed. *)
THEOREM HaltInvariant == ASSUME NobodyDies, OneRequester PROVE InspectSpec => []HaltInv
<1>1. InspectInit => HaltInv
  BY HaltInit, Zenon
<1>2. CountInv /\ HaltInv /\ [InspectNext]_inspectionVars => HaltInv'
  BY HaltNext, Zenon
<1>3. InspectSpec => []CountInv
  BY CountInvariant, Zenon
<1> QED
  BY <1>1, <1>2, <1>3, PTL DEF InspectSpec

(* A thread runs in the VM where its place says so. *)
LEMMA RunsIsWithin == \A t \in Thread : Runs(t) <=> Within(pc[t], ret[t])
BY Zenon DEF Runs, RunsInVM, Within, ClaimLabel, OwnerLabel

(* Between the return of haltThreadForInspection and resumeThreadForInspection the target does
   not run in the VM, except to cancel an inspection of its own.  With a second requester of
   exclusive access this fails. *)
THEOREM InspectedStaysHalted == ASSUME NobodyDies, OneRequester PROVE InspectSpec => []InspectedIsHalted
<1>1. CountInv /\ HaltInv => InspectedIsHalted
  <2> SUFFICES ASSUME CountInv, HaltInv, NEW t \in Thread, pc[t] = "inspected"
               PROVE  ~Runs(target[t]) \/ pc[target[t]] \in Cancelling
    BY Zenon DEF InspectedIsHalted
  <2>1. Found(pc[t], ret[t])
    BY Zenon DEF Found
  <2>2. target[t] \in Thread /\ HaltedOut(target[t])
    BY <2>1, FoundIsAsking, Zenon DEF CountInv, TargetInv, HaltInv, FoundInv
  <2> QED
    BY <2>2, RunsIsWithin, Zenon DEF HaltedOut, In
<1> QED
  BY <1>1, CountInvariant, HaltInvariant, PTL

(* A thread that suspendImpl has returned for does not run in the VM until resumeImpl. *)
THEOREM SuspendedStaysOut == ASSUME NobodyDies, OneRequester PROVE InspectSpec => []SuspendedIsHalted
<1>1. CountInv /\ HaltInv => SuspendedIsHalted
  BY RunsIsWithin, Zenon DEF SuspendedIsHalted, CountInv, InspectTypes, HaltInv, SuspendInv, In
<1> QED
  BY <1>1, CountInvariant, HaltInvariant, PTL
=============================================================================
