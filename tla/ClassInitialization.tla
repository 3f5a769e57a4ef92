------------------------- MODULE ClassInitialization -------------------------
(***************************************************************************)
(* The state machine that verifies, prepares and initializes classes.      *)
(*                                                                         *)
(* Models runtime/vm/ClassInitialization.cpp.  classInitStateMachine calls *)
(* itself for superclasses and interfaces, and <clinit> calls it for the   *)
(* classes it uses: each thread has a stack of its activations.            *)
(*                                                                         *)
(* Grain.  The status is first read without the lock: that is a step.      *)
(* From enterInitializationLock to exitObjectMonitor is one step, the lock *)
(* being a monitor as JavaMonitor says, which can always be allocated.     *)
(* That the lock of an initialized class is NULL is left to its status.    *)
(***************************************************************************)
EXTENDS Naturals, Sequences

CONSTANTS
    Thread, NoThread,
    Class, NoClass,
    Super,       \* the superclass of each class, or NoClass
    Interfaces,  \* the sequence of the interfaces a class adds to its superclass's
    Interface,   \* the classes that are interfaces
    HasDefaults, \* those with non-static, non-abstract methods
    Uses,        \* the classes that a class's <clinit> uses
    Asks,        \* the classes that the code of a thread uses
    Poppable     \* the threads a debugger may tell to pop a frame

ASSUME ClassAssumption ==
    /\ NoThread \notin Thread /\ NoClass \notin Class /\ Poppable \subseteq Thread
    /\ Super \in [Class -> (Class \ Interface) \cup {NoClass}]
    /\ \A c \in Class : Interfaces[c] \in Seq(Interface) /\ Uses[c] \subseteq Class
    /\ \A t \in Thread : Asks[t] \subseteq Class
    /\ Interface \subseteq Class /\ HasDefaults \subseteq Interface

(* No class is its own ancestor: createramclass.cpp throws ClassCircularityError. *)
IsAncestry(r) ==
    /\ \A c \in Class : Super[c] # NoClass => <<c, Super[c]>> \in r
    /\ \A c \in Class : <<c, c>> \notin r
    /\ \A c, d, e \in Class : <<c, d>> \in r /\ <<d, e>> \in r => <<c, e>> \in r

ASSUME SuperAcyclic == \E r \in SUBSET (Class \X Class) : IsAncestry(r)

VARIABLES
    status,  \* initializeStatus: the state and the thread that makes progress
    stack,   \* the activations of classInitStateMachine, the innermost first
    waiting, \* the threads that wait on the initialization lock of their class
    exc,     \* the threads with an exception pending
    pop,     \* those with POP_FRAMES_INTERRUPT set: immediateAsyncPending
    clinits, \* how often <clinit> of a class has been run
    abandoned \* the classes that a thread gave up on when told to pop a frame

vars == <<status, stack, waiting, exc, pop, clinits, abandoned>>

Level == [VERIFIED |-> 0, PREPARED |-> 1, INITIALIZED |-> 2]

-----------------------------------------------------------------------------
Frame(c, desired) == [class |-> c, desired |-> desired, at |-> "check", todo |-> <<>>]

Top(t)     == stack[t][1]
At(t, l)   == stack[t] # <<>> /\ Top(t).at = l
Wants(t,d) == Level[Top(t).desired] >= Level[d]

Goto(t, l)       == stack' = [stack EXCEPT ![t][1].at = l]
GotoWith(t, l, parents) == stack' = [stack EXCEPT ![t][1].at = l, ![t][1].todo = parents]
Call(t, c, d, l) == stack' = [stack EXCEPT ![t] = <<Frame(c, d)>> \o [@ EXCEPT ![1].at = l]]
CallNext(t, d) ==
    stack' = [stack EXCEPT ![t] =
                 <<Frame(Head(Top(t).todo), d)>> \o [@ EXCEPT ![1].todo = Tail(Top(t).todo)]]

(* Java code, at the bottom or in <clinit>, handles the request to pop a frame. *)
Return(t) ==
    /\ stack' = [stack EXCEPT ![t] = Tail(@)]
    /\ pop' = IF Len(stack[t]) = 1 \/ stack[t][2].at = "clinit" THEN pop \ {t} ELSE pop
    /\ UNCHANGED exc

Throw(t) ==
    /\ stack' = [stack EXCEPT ![t] = Tail(@)]
    /\ pop' = IF Len(stack[t]) = 1 \/ stack[t][2].at = "clinit" THEN pop \ {t} ELSE pop
    /\ exc' = exc \cup {t}

(* The supertypes to prepare before a class, and those to look at before it is
   initialized: an interface is left alone if it has no defaults. *)
ToPrepare(c) == (IF Super[c] = NoClass THEN <<>> ELSE <<Super[c]>>) \o Interfaces[c]

ToInitialize(c) ==
    (IF Super[c] = NoClass THEN <<>> ELSE <<Super[c]>>)
    \o (IF c \in Interface THEN <<>> ELSE Interfaces[c])

LeftAlone(p) == p \in Interface \ HasDefaults

State(s)   == [state |-> s, by |-> NoThread]
Mark(c, t) == status' = [status EXCEPT ![c].by = t]

(* Fault: nobody is notified. *)
setInitStatusSilently(c, s) ==
    /\ status' = [status EXCEPT ![c] = State(s)]
    /\ UNCHANGED waiting

setInitStatus(c, s) ==
    /\ status' = [status EXCEPT ![c] = State(s)]
    /\ waiting' = {t \in waiting : Top(t).class # c}

(* enterInitializationLock gives up when a frame is to be popped. *)
GiveUp(t) ==
    /\ t \in pop /\ Return(t)
    /\ abandoned' = abandoned \cup {Top(t).class}
    /\ UNCHANGED <<status, waiting, clinits>>

-----------------------------------------------------------------------------
(* Java code, having handled what was thrown before, calls initializeClass or
   prepareClass. *)
Begin(t) ==
    /\ stack[t] = <<>>
    /\ \E c \in Asks[t], d \in {"PREPARED", "INITIALIZED"} :
          stack' = [stack EXCEPT ![t] = <<Frame(c, d)>>]
    /\ exc' = exc \ {t}
    /\ UNCHANGED <<status, waiting, pop, clinits, abandoned>>

(* switch(unlockedStatus) *)
Check(t) ==
    /\ At(t, "check")
    /\ LET c == Top(t).class
           s == status[c].state
       IN \/ /\ status[c].by # NoThread
             /\ Goto(t, "inProgress") /\ UNCHANGED <<exc, pop>>
          \/ /\ status[c].by = NoThread
             /\ \/ s = "Succeeded" /\ Return(t)
                \/ s = "Unverified" /\ Goto(t, "markVerify") /\ UNCHANGED <<exc, pop>>
                \/ /\ s = "Unprepared" /\ Wants(t, "PREPARED")
                   /\ GotoWith(t, "prepare", ToPrepare(c)) /\ UNCHANGED <<exc, pop>>
                \/ s = "Unprepared" /\ ~Wants(t, "PREPARED") /\ Return(t)
                \/ s = "Failed" /\ Wants(t, "INITIALIZED") /\ Throw(t)
                \/ s = "NotInitialized" /\ Wants(t, "INITIALIZED")
                   /\ Goto(t, "markInit") /\ UNCHANGED <<exc, pop>>
                \/ s \in {"Failed", "NotInitialized"} /\ ~Wants(t, "INITIALIZED") /\ Return(t)
    /\ UNCHANGED <<status, waiting, clinits, abandoned>>

-----------------------------------------------------------------------------
(* J9ClassInitUnverified *)

MarkVerifying(t) ==
    /\ At(t, "markVerify")
    /\ \/ GiveUp(t)
       \/ /\ t \notin pop
          /\ IF status[Top(t).class] # State("Unverified")
             THEN Goto(t, "check") /\ UNCHANGED status
             ELSE Goto(t, "verifySuper") /\ Mark(Top(t).class, t)
          /\ UNCHANGED <<waiting, exc, pop, clinits, abandoned>>

VerifySuperclass(t) ==
    /\ At(t, "verifySuper")
    /\ IF Super[Top(t).class] = NoClass THEN Goto(t, "verify")
       ELSE Call(t, Super[Top(t).class], "VERIFIED", "verify")
    /\ UNCHANGED <<status, waiting, exc, pop, clinits, abandoned>>

(* Fault: the class stays marked when its superclass could not be verified. *)
VerifyFailedMarked(t) ==
    /\ At(t, "verify")
    /\ UNCHANGED <<status, waiting>>
    /\ Throw(t)
    /\ UNCHANGED <<clinits, abandoned>>

(* The superclass or the class itself could not be verified. *)
VerifyFailed(t) ==
    /\ At(t, "verify")
    /\ setInitStatus(Top(t).class, "Unverified")
    /\ Throw(t)
    /\ UNCHANGED <<clinits, abandoned>>

performVerification(t) ==
    /\ At(t, "verify") /\ t \notin exc
    /\ Goto(t, "verified")
    /\ UNCHANGED <<status, waiting, exc, pop, clinits, abandoned>>

Verified(t) ==
    /\ At(t, "verified")
    /\ \/ GiveUp(t)
       \/ /\ t \notin pop
          /\ IF status[Top(t).class] = [state |-> "Unverified", by |-> t]
             THEN setInitStatus(Top(t).class, "Unprepared") ELSE UNCHANGED <<status, waiting>>
          /\ Goto(t, "check")
          /\ UNCHANGED <<exc, pop, clinits, abandoned>>

-----------------------------------------------------------------------------
(* J9ClassInitUnprepared: supertypes first. *)

PrepareParent(t) ==
    /\ At(t, "prepare") /\ t \notin exc /\ Top(t).todo # <<>>
    /\ CallNext(t, "PREPARED")
    /\ UNCHANGED <<status, waiting, exc, pop, clinits, abandoned>>

PrepareFailed(t) ==
    /\ At(t, "prepare") /\ t \in exc
    /\ Throw(t)
    /\ UNCHANGED <<status, waiting, clinits, abandoned>>

Prepared(t) ==
    /\ At(t, "prepare") /\ t \notin exc /\ Top(t).todo = <<>>
    /\ \/ GiveUp(t)
       \/ /\ t \notin pop
          /\ IF status[Top(t).class] = State("Unprepared")
             THEN setInitStatus(Top(t).class, "NotInitialized") ELSE UNCHANGED <<status, waiting>>
          /\ Goto(t, "check")
          /\ UNCHANGED <<exc, pop, clinits, abandoned>>

-----------------------------------------------------------------------------
(* J9ClassInitNotInitialized *)

(* Fault: only the state is looked at again, not who makes progress. *)
MarkInitializingAgain(t) ==
    /\ At(t, "markInit")
    /\ \/ GiveUp(t)
       \/ /\ t \notin pop
          /\ IF status[Top(t).class].state # "NotInitialized"
             THEN Goto(t, "check") /\ UNCHANGED status
             ELSE /\ GotoWith(t, "initialize", ToInitialize(Top(t).class))
                  /\ Mark(Top(t).class, t)
          /\ UNCHANGED <<waiting, exc, pop, clinits, abandoned>>

MarkInitializing(t) ==
    /\ At(t, "markInit")
    /\ \/ GiveUp(t)
       \/ /\ t \notin pop
          /\ IF status[Top(t).class] # State("NotInitialized")
             THEN Goto(t, "check") /\ UNCHANGED status
             ELSE /\ GotoWith(t, "initialize", ToInitialize(Top(t).class))
                  /\ Mark(Top(t).class, t)
          /\ UNCHANGED <<waiting, exc, pop, clinits, abandoned>>

InitializeParent(t) ==
    /\ At(t, "initialize") /\ t \notin exc /\ Top(t).todo # <<>>
    /\ IF LeftAlone(Head(Top(t).todo)) THEN GotoWith(t, "initialize", Tail(Top(t).todo))
       ELSE CallNext(t, "INITIALIZED")
    /\ UNCHANGED <<status, waiting, exc, pop, clinits, abandoned>>

(* Fault: the supertypes are not initialized first. *)
initializeImplEarly(t) ==
    /\ At(t, "initialize") /\ t \notin exc
    /\ Goto(t, "clinit")
    /\ clinits' = [clinits EXCEPT ![Top(t).class] = @ + 1]
    /\ pop' = pop \ {t}
    /\ UNCHANGED <<status, waiting, exc, abandoned>>

(* initializeImpl runs <clinit>, Java code, which handles a pending pop. *)
initializeImpl(t) ==
    /\ At(t, "initialize") /\ t \notin exc /\ Top(t).todo = <<>>
    /\ Goto(t, "clinit")
    /\ clinits' = [clinits EXCEPT ![Top(t).class] = @ + 1]
    /\ pop' = pop \ {t}
    /\ UNCHANGED <<status, waiting, exc, abandoned>>

(* <clinit> uses a class. *)
Use(t) ==
    /\ At(t, "clinit") /\ t \notin exc
    /\ \E c \in Uses[Top(t).class] :
          /\ ~\E i \in DOMAIN stack[t] : stack[t][i].class = c /\ stack[t][i].at = "clinit"
          /\ status[c].state # "Succeeded"
          /\ Call(t, c, "INITIALIZED", "clinit")
    /\ UNCHANGED <<status, waiting, exc, pop, clinits, abandoned>>

(* <clinit>, or the initialization of a supertype, threw an exception. *)
InitFailed(t) ==
    /\ At(t, "clinit") \/ (At(t, "initialize") /\ t \in exc)
    /\ setInitStatus(Top(t).class, "Failed")
    /\ Throw(t)
    /\ UNCHANGED <<clinits, abandoned>>

(* It returned, having caught what the classes it uses threw. *)
Initialized(t) ==
    /\ At(t, "clinit")
    /\ setInitStatus(Top(t).class, "Succeeded")
    /\ stack' = [stack EXCEPT ![t] = Tail(@)]
    /\ exc' = exc \ {t}
    /\ UNCHANGED <<pop, clinits, abandoned>>

-----------------------------------------------------------------------------
(* IN PROGRESS *)

(* Fault: nobody waits. *)
InProgressNoWait(t) ==
    /\ At(t, "inProgress")
    /\ \/ GiveUp(t)
       \/ /\ t \notin pop
          /\ LET s == status[Top(t).class]
             IN \/ s.by = NoThread /\ Goto(t, "check") /\ UNCHANGED <<exc, pop>>
                \/ s = [state |-> "Unverified", by |-> t] /\ Goto(t, "verifySuper") /\ UNCHANGED <<exc, pop>>
                \/ s.by # NoThread /\ s # [state |-> "Unverified", by |-> t] /\ Return(t)
          /\ UNCHANGED <<status, waiting, clinits, abandoned>>

InProgress(t) ==
    /\ At(t, "inProgress")
    /\ \/ GiveUp(t)
       \/ /\ t \notin pop
          /\ LET s    == status[Top(t).class]
                 done == s.state # "Unverified" /\ (~Wants(t, "INITIALIZED") \/ s.by = t)
             IN \/ s.by = NoThread /\ Goto(t, "check") /\ UNCHANGED <<waiting, exc, pop>>
                \/ /\ s.state = "Unverified" /\ s.by = t
                   /\ Goto(t, "verifySuper") /\ UNCHANGED <<waiting, exc, pop>>
                \/ s.by # NoThread /\ done /\ Return(t) /\ UNCHANGED waiting
                \/ /\ s.by \notin {t, NoThread} /\ ~done
                   /\ waiting' = waiting \cup {t}
                   /\ Goto(t, "wait") /\ UNCHANGED <<exc, pop>>
          /\ UNCHANGED <<status, clinits, abandoned>>

(* monitorWaitImpl returns once notified: the wait is not interruptible. *)
WaitEnds(t) ==
    /\ At(t, "wait") /\ t \notin waiting
    /\ \/ GiveUp(t)
       \/ t \notin pop /\ Goto(t, "check") /\ UNCHANGED <<status, waiting, exc, pop, clinits, abandoned>>

-----------------------------------------------------------------------------
(* A debugger tells a thread that is suspended while it waits for a lock, or loads
   classes for the verifier, to pop a frame (jvmtiPopFrame, ForceEarlyReturn). *)
PopFrame(t) ==
    /\ t \in Poppable \ pop
    /\ \E l \in {"markVerify", "verify", "verified", "prepare", "markInit", "inProgress", "wait"} : At(t, l)
    /\ pop' = pop \cup {t}
    /\ UNCHANGED <<status, stack, waiting, exc, clinits, abandoned>>

Init ==
    /\ status = [c \in Class |-> State("Unverified")]
    /\ stack = [t \in Thread |-> <<>>]
    /\ waiting = {} /\ exc = {} /\ pop = {}
    /\ clinits = [c \in Class |-> 0] /\ abandoned = {}

Work(t) ==
    \/ Check(t)
    \/ MarkVerifying(t) \/ VerifySuperclass(t) \/ VerifyFailed(t) \/ performVerification(t) \/ Verified(t)
    \/ PrepareParent(t) \/ PrepareFailed(t) \/ Prepared(t)
    \/ MarkInitializing(t) \/ InitializeParent(t) \/ initializeImpl(t) \/ InitFailed(t) \/ Initialized(t)
    \/ InProgress(t) \/ WaitEnds(t)

Next == \E t \in Thread : Begin(t) \/ Work(t) \/ Use(t) \/ PopFrame(t)

Spec == Init /\ [][Next]_vars

(* Every thread is scheduled, every <clinit> ends, and a verification that is tried for
   ever, because it ran out of memory, succeeds in the end. *)
FairSpec ==
    Spec /\ \A t \in Thread : /\ WF_vars(Work(t)) /\ SF_vars(performVerification(t))
                             /\ SF_vars(InitFailed(t) \/ Initialized(t))

-----------------------------------------------------------------------------
(* <clinit> of a class is run at most once, whatever threads race to initialize it. *)
ClinitRunsOnce == \A c \in Class : clinits[c] <= 1

(* A class is initialized only when the initialization of its superclass, and of the
   interfaces with defaults, has been done or is going on (in the thread that got here
   from their <clinit>, which may still fail), unless a thread gave up on that supertype
   in order to pop a frame. *)
SupertypesInitializedFirst ==
    \A c \in Class : status[c].state = "Succeeded" =>
        \A i \in DOMAIN ToInitialize(c) :
            LET p == status[ToInitialize(c)[i]]
            IN \/ LeftAlone(ToInitialize(c)[i])
               \/ p.state \in {"Succeeded", "Failed"}
               \/ p.state = "NotInitialized" /\ p.by # NoThread
               \/ ToInitialize(c)[i] \in abandoned

(* A status that names a thread is one that thread is working on: whoever waits for it
   waits for somebody, unless the thread gave up on the class. *)
InProgressHasThread ==
    \A c \in Class \ abandoned : LET t == status[c].by IN t # NoThread =>
        \E i \in DOMAIN stack[t] :
            /\ stack[t][i].class = c
            /\ stack[t][i].at \in {"verifySuper", "verify", "verified", "initialize", "clinit"}

(* initializeClass returns, unless it throws or a frame is to be popped, when the class is
   initialized, or is being initialized by this very thread. *)
ReturnsWhenInitialized(t) ==
    /\ stack[t] # <<>> /\ stack'[t] = Tail(stack[t])
    /\ Top(t).desired = "INITIALIZED" /\ t \notin exc' \cup pop
    => status'[Top(t).class].state = "Succeeded" \/ status'[Top(t).class].by = t

ReturnsInitialized == [][\A t \in Thread : ReturnsWhenInitialized(t)]_vars

(* Threads that wait for each other, as those do whose <clinit>s depend on each other,
   or for a class that its thread has given up on. *)
Stuck(t) ==
    \E S \in SUBSET Thread :
        /\ t \in S
        /\ \A u \in S : u \in waiting /\ (status[Top(u).class].by \in S \/ Top(u).class \in abandoned)

(* Whoever asks for a class to be initialized gets an answer, unless it is stuck or
   threads are told again and again to pop frames: no notification of the
   initialization lock is lost. *)
InitializationEnds ==
    <>[](pop = {}) => \A t \in Thread : stack[t] # <<>> ~> (stack[t] = <<>> \/ Stuck(t))
=============================================================================
