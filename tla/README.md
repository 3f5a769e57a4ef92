# Concurrency protocols of the OpenJ9 VM: models, checks and proofs

The OpenJ9 virtual machine stops the world by a protocol between threads that
share flag words, counters and monitors (`runtime/vm/VMAccess.cpp`,
`runtime/oti/VMAccess.hpp`).  Everything that needs a quiet heap or a quiet
stack (the collectors, class redefinition, JVMTI, `Thread.suspend`) relies on
it.  A thread must have *VM access* to touch objects; *exclusive VM access* is
held by one thread while no other has VM access and none is in a JNI critical
region with direct pointers into the heap.  These modules model that protocol
with everything that rests on it directly (safe points, requests of external
threads, inspection and suspension, async events), and three protocols beside
it: object monitors, class initialisation and the shared classes cache.  TLC
checks them on small instances; TLAPS proves the safety of exclusive access,
object monitors, class initialisation, async events and the shared cache for any
number of threads, classes, handlers, JVMs and items.

The build modelled is `buildspecs/linux_x86-64.spec`: JNI transitions without
atomics (`J9VM_INTERP_ATOMIC_FREE_JNI`, `..._USES_FLUSH`) and two-pass exclusive
requests (`J9VM_INTERP_TWO_PASS_EXCLUSIVE`), lock reservation, lock nursery and
smart deflation for object monitors.

## The system and its parts

| Part | Source (`src/runtime/`) | State | Operations | Module |
|---|---|---|---|---|
| VM access | `vm/VMAccess.cpp`, `oti/VMAccess.hpp` | `publicFlags`, `inNative`, `publicFlagsMutex` of each thread | acquire, release, JNI enter and exit | `VMAccess` |
| Exclusive VM access | `vm/VMAccess.cpp` | `exclusiveAccessState`, two response counters, queue, `exclusiveCount` | acquire, release, hand-off | `ExclusiveAccess` |
| JNI critical regions | `gc_glue_java/JNICriticalRegion.hpp` | two flags, a nesting count | enter, exit | `VMAccess` |
| Async check | `vm/AsyncMessageHandler.cpp` | halt flags | `javaCheckAsyncMessages` | `VMAccess` |
| Flush of store buffers | `vm/FlushProcessWriteBuffers.cpp` | store buffers | flush | `VMAccess`, `ExclusiveAccess` |
| Thread creation and death | `vm/vmthread.c`, `vm/jvmfree.c` | the list of threads | allocate, deallocate | `ExclusiveAccess` |
| Inspection, suspension | `vm/VMAccess.cpp`, `jcl/common/thread.cpp` | `inspectionSuspendCount`, halt flags | halt, resume, suspend | `ThreadInspection` |
| Safe points | `vm/VMAccess.cpp` | `safePointState`, its counter, `safePointCount`, `vmThreadListMutex` | acquire, release | `SafePoint` |
| External requests | `vm/VMAccess.cpp` | `exclusiveAccessState` and its counters | acquire, release, hand-off | `ExternalExclusive` |
| Object monitors | `vm/ObjectMonitor.cpp`, `oti/ObjectMonitor.hpp`, `vm/monhelpers.c`, `vm/threadhelp.cpp` | lock word, omrthread monitor, pin count | enter, exit, wait, notify, cancel a reservation | `ObjectMonitor` |
| Class initialisation | `vm/ClassInitialization.cpp` | `initializeStatus`, the initialisation lock | prepare, initialise | `ClassInitialization` |
| Async events | `vm/hookableAsync.c`, `vm/AsyncMessageHandler.cpp` | handler records, event flags, stack overflow mark | register, unregister, signal, cancel, dispatch | `AsyncEvents` |
| Shared classes cache | `shared_common/CompositeCache.cpp`, `shared_common/CacheMap.cpp` | the header in the file, hash tables of each JVM | read, store, lock, mark stale, refresh, reset | `SharedCache` |

`PROJECT.json` lists every other part of the VM with the reason it is left out
(see *Not modelled*).

What is hard here: flags of a thread are changed by others under that thread's
`publicFlagsMutex` or by atomic operations outside it; `inNative` is a plain
store that may sit in a store buffer; a request takes two passes over the thread
list during which threads go on; three kinds of monitor nest; exclusive access
is handed from thread to thread without restarting the world; threads are
created and die meanwhile.

## Modules

* `VMAccess` is the thread side: every thread has a place `pc` in the code and a
  place `ret` to return to from a shared routine.  One action is one stretch of
  code between two points where another thread can observe or disturb it.
  `publicFlags[t]` is the set of flag names; `pfm[t]` owns `t`'s
  `publicFlagsMutex` and `pfmWaiting[t]` is its wait set.  `storeBuffer[t]` holds
  stores to `inNative` not yet in memory (total store order): a fence or atomic
  instruction drains it, `DrainOne` drains it spontaneously, `OwnInNative` is the
  value its own thread reads.
* `ExclusiveAccess` is the requester's side, composed with `VMAccess` by
  extension: `AcquireExclusiveFirst`, `...Queued`, `...Nested`; the two passes
  `PostHalt` and `PostCount` with `Flush` between; `Await`, `AwaitVM`, `AwaitJNI`;
  `HandOff`, `ReleaseExclusive`, `Notify`; and thread creation and death.
  Sections under `exclusiveAccessMutex` are one step each.  The properties of the
  core are stated at its end.
* `StopTheWorld` is the abstract promise: a set of running threads, an owner and
  a queue.
* `ThreadInspection` adds `haltThreadForInspection`, `resumeThreadForInspection`,
  `suspendImpl` and `resumeImpl` to `ExclusiveAccess`.
* `SafePoint` adds `acquireSafePointVMAccess` and its release to
  `ExclusiveAccess`: the pass that asks (`RequestSafePoint`), the flush, the pass
  that counts (`CountForSafePoint`), the wait, and the return with VM access and
  `vmThreadListMutex`, a recursive monitor whose entries are counted.
* `ExternalExclusive` adds requesters without a `J9VMThread` to `ExclusiveAccess`:
  a claim that sets the state `EXCLUSIVE` at once, their own two passes, and a
  release that hands over through `HANDING_OFF_FROM_EXTERNAL_THREAD`.
* `ObjectMonitor` is the monitor of one object: lock word and omrthread monitor,
  every load and every store of the lock word a step of its own.  VM access is
  reduced to what matters here: who has it, who is being stopped (`Stop`) or
  inspected to cancel a reservation.  `JavaMonitor` is the abstract monitor it
  implements: owner, nesting, wait set.
* `ClassInitialization` is `classInitStateMachine`: a stack of calls per thread,
  the status of each class, the initialisation lock's wait set.  The hierarchy
  (`Super`, `Interfaces`, `HasDefaults`), what each `<clinit>` uses (`Uses`) and
  what each thread's code uses (`Asks`) are constants, and no class is its own
  ancestor (`SuperAcyclic`: loading one throws `ClassCircularityError`);
  verification, `<clinit>` and their failures are choices;
  `PopFrame` is a debugger's request, which makes `enterInitializationLock` give up;
  `abandoned` is history: the classes a thread has given up on that way.
* `AsyncEvents` has the handler records, event flags and marks, and dispatch as a
  loop over the flags fetched, in the middle of which a handler in `Blocking` may
  release VM access.  Unregistering needs all other threads out of the VM, what
  exclusive access means.  `meant` and `released` are history: the handler an event
  was signalled for, and the threads whose present dispatch has released VM access.
  The handlers in `Quiet` are also signalled by `J9SignalAsyncEventWithoutInterrupt`,
  which sets the flag and not the mark; such an event waits for whatever marks the
  thread next, so `EventsAreSeen` promises nothing of it.  Nothing in the repository
  calls it but through the table of VM functions.
* `SharedCache` has several JVMs with threads over one header.  An item is its
  index, its content the ROM class block it refers to.  Every store to the header
  in a commit is a step, `Crash` ends a JVM at any place of `CrashLabel`.  A thread
  that waits for the readers before it locks the cache sets their count to zero
  after enough polls: with `SlowReaders` FALSE, as in every run, the wait is long
  enough for the readers that live, and only those of dead JVMs are forgotten.  A JVM
  in `Cramped` may have no room in its hash table for the class it stores:
  `commitROMClass` commits the update all the same, so the others find the class and
  this JVM does not (`lost`).
* `ExclusiveInvariant`, `MonitorInvariant` and `AsyncInvariant` define the inductive
  invariants `IInv`, `MonitorInv` and `AsyncInv`.
* The `MC...` modules instantiate the specifications for TLC.
* `AccessEffects`, `AccessProofs`, `InvariantProofs` and `ExclusiveProofs` hold the
  proofs about exclusive access, `InspectionProofs`, `MonitorProofs`, `AsyncProofs`,
  `ClassInitProofs` and `SharedCacheProofs` those about inspection and suspension,
  object monitors, async events, class initialisation and the shared cache.

Simplifications: a monitor wait returns only after a notify; counters are
integers rather than `UDATA` (the invariants show they never go below zero while
they are awaited); hooks, timing, statistics and trace points are left out.
Operations a thread may start at any time (`NativeUser`, `CriticalUser`,
`Requester`, `Mortal`, `Inspector`, `Suspender`) are limited to the threads named
by these constants;
`MaxCriticalNesting`, `MaxExclusiveDepth`, `MaxSafePointDepth` and
`StoreBufferSize` bound nesting and the store buffer, `MaxRecursion` and
`MaxDepth` the recursion bits and the nesting of a monitor, `MaxHandlers` the
event keys, `MaxItems` and `MaxCrash` the room in the cache and the JVMs that die.

## Runs

| Run | Instance | Checks |
|---|---|---|
| `exclusive` | 2 threads, both request and use critical regions, one is mortal, nesting 2 | `AssertionsHold`, `ExclusiveMeansAlone`, `ResponsesAccounted`, `ImplementsStopTheWorld` |
| `live` | 2 threads, both request exclusive access and safe points, one uses critical regions and is mortal, nothing nests | `RequestsAreGranted`, `DyingThreadsLeave`, `SafePointsAreGranted`, `SafePointThreadsResume` |
| `inspection` | a requester that calls native code and 2 inspectors (symmetric) that do not | `InspectedIsHalted`, `ExclusiveExcludesInspectors`, `InspectionsCounted` |
| `suspend` | 2 threads that inspect each other, one requests and uses critical regions, the other suspends | `SuspendedIsHalted`, `InspectionsHappen` |
| `safe_point` | 3 threads, 2 at nested safe points, 2 requesters, one of them mortal, the other calling native code | `SafePointMeansAlone`, `SafePointResponsesAccounted`, `SafePointLeavesNothing` |
| `external` | an external and an attached requester, a bystander that calls native code | `ExternalMeansStopped`, `ExternalRequestsHappen`, `QueuedBehindExternal` |
| `object_monitor` | 2 threads, reservable lock, `MaxRecursion` 1, nesting 3, both wait | `NestingIsKept`, `WaitSetIsOfOneKind`, `IsJavaMonitor`, `FreeMonitorIsEntered`, `StopIsGranted` |
| `class_init` | 2 threads, a class, its superclass, whose `<clinit>` uses the class, and two interfaces, one without defaults; one thread may be told to pop a frame | `ClinitRunsOnce`, `SupertypesInitializedFirst`, `InProgressHasThread`, `ReturnsInitialized`, `InitializationEnds` |
| `async_events` | 2 threads, 2 keys, 2 handlers, one cancellable and releasing VM access, the other also signalled without interrupt | `UnregisteredRunsNowhere`, `CalledWithOwnData`, `CalledWhenSignalled`, `EventsAreSeen` |
| `shared_cache` | 3 JVMs, one of which may find no room in its hash tables, 3 items, 2 crashes, 1 marker | `VisibleItemsAreWhole`, `ReadersAreCounted`, `MarkerIsAlone`, `WriterKnowsEveryItem` |
| `cache_live` | 2 JVMs, one of 2 threads, 1 item, 1 marker, a crash anywhere | `ReadersGetIn`, `LocksAreGranted` |

One run, `inspect_queued`, expects a violation; see *Disagreements*.

Two threads already meet the interleavings of requester and responder, and with
both requesting they meet the queue, hand-off and nested requests; what the
response counters, the queue and the owner are for more threads is proved (see
*Proofs*).  The third thread of `inspection` lets two inspectors halt each other
and a third, that of `external` is a bystander of a hand-off.  In `safe_point` one
thread can ask for a safe point while another has exclusive access or waits for it and
the third is in the queue, with `NOT_AT_SAFE_POINT` and without VM access: a safe point
must count such a thread although it is not running.  Nesting is for that run
only, because a nested safe point keeps a mutex for ever (see *Disagreements*).
A store buffer of one entry is enough: a thread's consecutive stores to
`inNative` alternate, and the entry distinguishes memory from what the thread
reads.  With recursion bits for one re-entry and nesting 3 a lock overflows into
its inflated form from both the flat and the reserved one.  Two threads and a
superclass that uses its subclass meet every order in which initialisations
start, fail, wait and recur; an interface, which unlike a superclass is not
verified before its class, makes preparing the class fail, and the one without
defaults is passed over when the class is initialised.  Two keys let
one handler run between the fetch of another's flag and its call.  Three items
and two crashes let a reset follow a crash that followed a reset.

Symmetry is used in `inspection` only.  Deadlock is checked except where the
system may really stop: in `suspend`, where a thread suspended stays so if nobody
resumes it; in `safe_point`, where a nested safe point keeps `vmThreadListMutex`
(see *Disagreements*); and in `class_init`, since Java lets threads that
initialise mutually dependent classes in opposite orders wait for each other.

## Disagreements

While the models were written, nine comments turned out to state what the code, as
modelled, does not keep.  `inspect_queued` (`InspectedIsHalted`) keeps one as a run:
`haltThreadForInspection` does not wait for a target that is queued for exclusive
access, though the comment at `VMAccess.cpp:1238` singles that case out; the target
is later granted exclusive access, releases it and runs while it is inspected.  The
run `inspection` has one requester, so no queue forms there, and the property
holds.  `suspendImpl` uses the same test; `suspend` has one requester as well.

The others show as a condition in a property or as a bound of an instance:

* Every acquire of a safe point enters `vmThreadListMutex` (`VMAccess.cpp:1183`), only
  the outermost release exits it; after a nested pair the thread owns it for ever.
  `live`, the run of the liveness properties, has no nested safe points.
* An external requester does not wait for JNI critical regions in this build
  (`VMAccess.cpp:702`), though it counts them, and may hand exclusive access to a
  queued thread next to an open critical region.  `ExternalMeansStopped` leaves
  critical regions out.
* A thread told to pop a frame gives up on the superclass without an exception, and
  the caller (`ClassInitialization.cpp:508`), which looks for an exception only,
  initialises the class.  `SupertypesInitializedFirst` excepts `abandoned` classes.
* A thread that gives up after verification (`ClassInitialization.cpp:392`) leaves
  the class marked as in progress.  `InProgressHasThread` excepts `abandoned` classes,
  and `InitializationEnds` threads that wait for one (`Stuck`).
* `hookableAsync.c:85` argues that handler and user data may be stored in either
  order.  When a handler releases VM access in the middle of a dispatch
  (`setThreadNameAsyncHandler` enters a monitor), a key whose event was fetched can be
  freed and registered again, and the new handler called before its user data is
  stored.  The properties of `AsyncEvents` except threads in `released`.  The JIT's
  sampler signals without VM access, but its handler is never unregistered.
* The reset after a crash unlocks the cache (`CompositeCache.cpp:539`) also under the
  thread that has just locked it to mark items stale.  `MarkerIsAlone` requires the
  cache to be locked.
* A crash between publishing an item and counting it (`CompositeCache.cpp:3147`) hides
  the item from tables rebuilt by count.  `shared_cache` excludes this one place.
* A reset under the write mutex and a refresh under the refresh mutex of the same JVM
  (`CacheMap.cpp:1133`) do not exclude each other, though `CacheMap.cpp:990` calls
  either protection enough.  `shared_cache` has one thread per JVM.

## Fairness

`PointFairness` in `SafePoint`, which extends `ExclusiveAccess`, assumes what scheduling and the code give: an
operation begun goes on (weak fairness); a thread in the VM reaches its next
async check and a thread in a critical region leaves it (strong fairness: these
need a monitor others take and free again; compiled code and the interpreter
poll at loops and calls, and JNI demands that critical regions are short and do
not block); stores drain; a requester proceeds and an owner releases.  Nothing is
assumed of threads in native code or at rest.  `SafePointThreadsResume` and
`DyingThreadsLeave` are stated for behaviours in which requests eventually cease,
since continual requests may halt a thread again before it runs.  `InspectionsHappen`
excepts an inspector that is suspended itself, or that cancels its request because
it is inspected itself.

A requester's steps are strongly fair: they wait for mutexes and for a state that
others leave again and again.  `ExternalExclusive` makes the same assumptions.  An external thread is promised exclusive access only once it has
claimed it: attached threads may hand exclusive access to each other past it.
`ObjectMonitor`: threads are scheduled, timed waits end, a stopped world is
restarted, and a thread that keeps locking reaches async checks (strong, for it
may lock and unlock between two of them); nobody need enter or exit.
`ClassInitialization`: threads are scheduled, every `<clinit>` ends, and a
verification repeated for ever succeeds at some time; `InitializationEnds` is stated
for behaviours in which pop-frame requests cease.  `AsyncEvents` has no liveness
property: that an event is not lost is the invariant `EventsAreSeen`.
`SharedCache`: threads keep running unless their JVM dies, a writer ends its work
(it stores finitely many items), and nobody is passed over for ever at the file
lock or the refresh mutex.

## Proofs

### Exclusive access

For any set of threads (finite, as the constants' assumptions say), any subsets
of requesters, users of native code and critical regions and mortal threads, and
any bounds:

* `TypeCorrect`: `Spec => []TypeOK`
* `InvariantHolds`: `Spec => []IInv`
* `ExclusiveSafe`: `Spec => []ExclusiveMeansAlone`
* `CountersExact`: `Spec => []ResponsesAccounted`
* `AssertionsNeverFail`: `Spec => []AssertionsHold`
* `StopsTheWorld`: `Spec => ImplementsStopTheWorld`

`ExclusiveMeansAlone` is not inductive.  That a thread in the VM stops a requester
rests on the requester having counted it, on the counter being exact, and on the
thread having seen its flag or the requester having seen its `inNative`.  `IInv`
says, per thread, what its place in the code implies for its monitors (`PcInv`),
its `inNative` (`NativeInv`), its access and critical flags (`AccessInv`,
`CriticalInv`, `HaltInv`), its place in the queue (`QueueInv`), the global state
(`StateInv`) and its locals (`ExpectInv`, `TodoInv`); per pair, how far one
thread's request has got with the other (`AskedInv`, `PostInv`, `CountInv`; the
second has the fact that after the flush a thread running in the VM has an empty
store buffer); and that the counters are exact (`ResponsesAccounted`).  An owner
has both counters at zero (`ExpectInv`), so nobody is awaited; everyone linked is
asked and counted (`AskedInv`), so nobody runs.

A thread-side step touches only its own thread and the counters.
`AccessEffects` states that effect once (`AccessEffect`); `AccessProofs` shows
that every action of `VMAccess` has it, and `AccessKeepsIInv` in
`InvariantProofs` that a step with it keeps `IInv`.  The actions of
`ExclusiveAccess` have a lemma each, there too: those of a request under
way, by `EngagedStep`, those that have nothing to do with it, by `QuietStep`, and
those that begin, hand over and end one.  `ExclusiveProofs` puts them
together.  `TypeOK` is inductive by itself (first part of `AccessProofs`).

The assertions of the code need one fact that `IInv` does not have: a thread with
`NOT_AT_SAFE_POINT` has asked for exclusive access and not yet released it
(`SafePointInv`), so the flag is clear where a thread runs Java code or checks for
async messages.  That no response has come when the second pass begins
(`NoEarlyResponse`) follows from the exact counters: nobody is counted yet.

`StopsTheWorld` uses `IInv` of both ends of a step.  `WorldView` reads off it that
at most one thread owns exclusive access or claims it, so that the mapped `owner`
and `waiters` name one thread each, and `OwnerRunsAlone` that an owner is the only
runner.  Most steps change at most whether their own thread runs: `UnseenStep` shows
that such a step is a `Start`, a `Stop` or a stutter, because the owner is alone
before and after it.  Only four actions are seen: a request with and without a
queue (`FirstRequests`, `QueuedRequests`), the grant (`AwaitGrants`) and the
release (`ReleaseReleases`).

### Inspection and suspension

For any finite set of threads, any of which may call native code, use critical regions,
inspect or suspend each other, and any bounds:

* `InspectionsAreCounted`: `NobodyDies => (InspectSpec => []InspectionsCounted)`
* `InspectedStaysHalted`: `NobodyDies /\ OneRequester => (InspectSpec => []InspectedIsHalted)`
* `SuspendedStaysOut`: `NobodyDies /\ OneRequester => (InspectSpec => []SuspendedIsHalted)`

`NobodyDies` (`Mortal = {}`) is what `ThreadInspection` models: a target is kept from
dying by its `inspectorCount`, and threads do not detach there.  `OneRequester`, at most
one thread asks for exclusive access, is the case in which the properties are true:
the run `inspect_queued` refutes `InspectedIsHalted` with two (see *Disagreements*).

`CountInv` says what the place of a thread, with the place its acquire or release
returns to, implies for its VM access and its `inNative` (`PlaceInv`), and that
`inspectionSuspendCount` is the number of inspectors that ask (`Counted`).  `HaltInv`
adds that a target is out of the VM from the moment its inspector has seen it so
(`FoundInv`; the inspector has then still to acquire VM access itself), that a
suspended thread is out as well (`SuspendInv`), and that nobody is queued
(`NoQueue`).  The thread a release hands exclusive access to is counted as inside
(`Granting`), because it enters past its halt flags; without a queue there is none.

All but the steps that halt, resume, suspend and begin or end a request are *quiet*
(`Quiet`): they move one thread, leave the halt flags and the requests alone, and do not
take a halted thread into the VM, which is a lemma for each group of actions; those of
exclusive access are *calm* (`Calm`), which is the same but for requests.  `CalmCounts`
and `CalmHalts` show that such steps keep the two invariants, so only the steps that
halt, resume and suspend are left, where an inspector is added to or taken from those
counted.

### Object monitors

For any finite set of threads, any of which may wait, any nesting, any width of the
recursion bits, and a lock that starts reservable or not:

* `MonitorInvHolds`: `Spec => []MonitorInv`
* `NestingHolds`: `Spec => []NestingIsKept`
* `WaitSetHolds`: `Spec => []WaitSetIsOfOneKind`
* `MonitorImplemented`: `Spec => IsJavaMonitor`

The lock word is loaded in one step and stored in another, and in between others set
its FLC bit, inflate it or cancel its reservation.  `MonitorInv` says, per place of
the code, which of four relations the thread has to the lock (`Away`, `FlatHeld`,
`RawHeld`, `RawOnly`) and what the word it has loaded still means: an owner's copy
differs from the lock word at most in the FLC bit (`SameWord`), because only a thread
that has halted the owner may change the rest (`HaltInv`).  `FormInv` says at which
places the lock is known to be inflated or not, and that a thread that has begun to
block never sees the lock become reserved again.  `PinsCounted` makes the pin count
exact: a lock is deflated only when nobody is between pinning the monitor and
unpinning it, so the wait set holds one kind of thread.  The count is stated by
`Counts`, an enumeration without repetition, which is what the three facts needed of
it (none, one more, one less) are proved from.

`MonitorImplemented` uses `MonitorInv` of the state before a step: the steps that
acquire, release or wait are those of `JavaMonitor` because the lock word excludes
every other holder, all others leave nesting and wait set alone.

### Async events

For any set of threads, any number of keys, any handlers, any of which may release VM
access, have its events cancelled or be signalled without interrupt:

* `AsyncInvHolds`: `Spec => []AsyncInv`
* `UnregisteredHolds`: `Spec => []UnregisteredRunsNowhere`
* `OwnDataHolds`: `Spec => []CalledWithOwnData`
* `SignalledHolds`: `Spec => []CalledWhenSignalled`
* `EventsSeenHolds`: `Spec => []EventsAreSeen`

`AsyncInv` ties four copies of one fact together: the record of a key, the handler
that has the key, the flag of an event and the handler it was signalled for.  A flag,
set or fetched, is for a handler that is still registered under that key
(`FlagInv`), since unregistering clears the flag in every thread and needs all
others out of the VM (`AccessInv`); a handler loaded for a call is the one the event
was meant for (`CallInv`); a thread in the middle of signalling works for a handler
that is registered (`SignalInv`).  A record belongs to a registered handler or to the
one that `asyncEventMutex` protects (`RecordInv`), so a handler whose user data is not
yet stored has no events.

### Class initialisation

For any threads and classes, any superclasses without a cycle, any interfaces, and
whatever each thread and each `<clinit>` uses, fails or is told to pop:

* `ClinitOnce`: `Spec => []ClinitRunsOnce`
* `SupertypesFirst`: `Spec => []SupertypesInitializedFirst`
* `MarkedHasThread`: `Spec => []InProgressHasThread`
* `ReturnIsInitialized`: `Spec => ReturnsInitialized`

Each of them is about a status that a thread reads in one activation and relies on in
another, deeper or much later one, so the inductive invariant `IInv` speaks of every
activation on every stack, not only of the innermost.  An activation that has marked
its class finds the mark where it left it (`MarkOK`), because only the thread of the
mark resets it and because no two activations of one thread are at work on one class.
For initialisation that is `OnceOK`: a second activation finds its own thread's mark
and returns.  For verification it is not: a second activation that finds the mark of
its own thread goes on verifying, and what rules it out is that activations stacked
above a verification verify ancestors of its class, of which no two are equal
(`VerifyOK`; this is where `SuperAcyclic` is used).  `ParentOK` says of each supertype
of a class in initialisation that it is settled, still to be looked at, or being
initialised by the activation just above, unless that one threw; at `<clinit>` only
the first is left.  `StatusOK` ties the count of `<clinit>` runs to the status, `ShapeOK`
says what an activation was asked for at which place.

An activation is counted from the innermost, so a call or return shifts all the others:
`Origins` and `Survives` say once where each activation of a stack came from and where
it went, and the invariant's steps are stated in these terms.  The actions are sorted
into nine kinds of steps (`Kinds`: start, go on, mark, advance, call, run `<clinit>`,
pass over, leave, finish), one lemma per action; each conjunct of the invariant has one
lemma over the kinds.

### Shared classes cache

For the shared cache, with any finite set of threads, any JVMs, any number of
items and crashes, and crashes at any place:

* `CacheIsWhole`: `Spec => []VisibleItemsAreWhole`
* `LiveReadersAreCounted`: `~SlowReaders => (Spec => []ReadersAreCounted)`
* `MarkersAreAlone`: `~SlowReaders => (Spec => []MarkerIsAlone)`
* `WritersKnowEveryItem`: `OneThreadEach /\ CountsWhatItPublishes =>
  (Spec => []WriterKnowsEveryItem)`

That visible items are whole is kept only because one thread at a time stores, and
because an item being stored refers to the next free block until the block is
committed and to the last one after: `CacheInv` adds who holds the write mutex at
which place and `ItemInv`, what the half-stored item looks like after each store.
The proof has a lemma per group of actions (readers, refresh, lock, check, store,
crash).  `ReadersAreCounted` is a statement about cardinalities: each step adds or
removes at most the stepping thread, a crash only removes some, and setting the
count to zero happens, by the hypothesis, when nobody alive is counted.

`MarkersAreAlone` follows the lock from its grant: it is granted when the count is
zero, so when no live reader is inside, and from there on, as long as the cache stays
locked, a reader gets in only with the write mutex, which the marker has (`AloneInv`).
A reset by the marker itself drops the lock, which is why the property speaks of a
locked cache.

`WritersKnowEveryItem` has as hypotheses the two cases of *Disagreements* in which the
property is false: `OneThreadEach`, no JVM has two threads, and
`CountsWhatItPublishes`, nobody dies between publishing an item and counting it.  A
JVM knows what it has read by two counters, the items scanned and the update count
it has seen, while the header has a third and the end of the items: `KnowledgeInv`
says at each place how far they may be apart.  A reader may be behind (`SettledView`,
`ScanView`), a refresh that succeeds under the write mutex makes it level
(`UpToDate`), and a writer stays level store by store, its own item included once it
is counted (`StoreView`, `CommitView`).  Steps of other JVMs change a count only when
nobody else writes.  What a writer knows is `Seen`: the items in its tables and those of
its own that the tables had no room for.

### Only model-checked

* Liveness: fairness and `ENABLED` are out of the prover's reach.
* That a thread with exclusive access and an inspector at work exclude each other
  (`ExclusiveExcludesInspectors`): it needs the invariant of exclusive access for the
  places and flags that `ThreadInspection` adds.
* Everything about `SafePoint` and `ExternalExclusive`.

## Not modelled

* The JIT's and interpreter's data side, the class file reader, the bytecode
  verifier: sequential transformations of data, nearly all of the million lines of
  the repository; there is no state shared between actors for TLC to explore.
* OMR (the core of the collectors, the port library, omrthread): outside the
  repository.  Its monitors, compare-and-swap loops and file locks appear here as the external
  definitions of each module.
* Metronome's entry points: only in builds with `J9VM_GC_REALTIME`, driven by OMR's
  scheduler.
* `releaseAccess` and `reacquireAccess` of JNI critical regions: their callers are
  OMR's collectors.
* Park and unpark, sleep, interrupt: wrappers of omrthread, where the permit is.
* Lock reservation by compiled code; so the branch of the blocking enter for a lock
  that is reserved again inside the loop is left out.
* How long `Object.wait` waits and what it throws (that a wait may end by itself is
  in the model), the monitor table, monitor destruction.
* Class redefinition during class initialisation.
* Stale bits, write hash, page protection, full flags, cachelets and corruption
  checks of the shared cache; a refresh that fails because a hash table has no room
  for an item of another JVM (the operation that wanted it is refused) or because
  access is denied.  The error exit of `markStale` (`CacheMap.cpp:4295`) lies behind
  such a refresh: its caller has just refreshed under the same write mutex, so there is
  nothing left to read and only corruption leads there.  `rollbackUpdate`: nothing in
  the repository calls it.
* A safe point asked for inside a JNI critical region, where JNI forbids the calls
  that lead to one.
* The compilation queue: its policy is inseparable from sampling and recompilation
  heuristics of the compiler.
