---------------------------- MODULE SharedCache ----------------------------
(***************************************************************************)
(* The shared classes cache: one memory-mapped file that several JVMs read *)
(* and append to (shared_common/CompositeCache.cpp), and the hash tables   *)
(* with which each JVM indexes it (shared_common/CacheMap.cpp).            *)
(*                                                                         *)
(*   - Readers are counted in the header; they take the write mutex, a     *)
(*     file lock shared by the JVMs, only when the cache is locked.        *)
(*   - A writer holds the write mutex.  It locks the cache, waiting for    *)
(*     the readers to leave, only to mark items stale.                     *)
(*   - An update is written beyond the visible part of the cache, then     *)
(*     published by a series of stores to the header inside a critical     *)
(*     section that raises crashCntr and lowers it again: a JVM that dies  *)
(*     inside leaves the counter raised, which the next writer of every    *)
(*     other JVM takes as the order to rebuild its hash tables.            *)
(*   - Before it uses the cache a thread refreshes the hash tables of its  *)
(*     JVM: it reads as many items as updateCount has advanced.            *)
(*                                                                         *)
(* An item of the metadata area is its index; what it says is the ROM      *)
(* class block it refers to (0 until it is completely written).            *)
(***************************************************************************)
EXTENDS Integers, FiniteSets

CONSTANTS
  Thread, NoThread,
  VM,           \* the JVMs attached to the cache
  VMOf,         \* VMOf[t]: the JVM the thread belongs to
  MaxItems,     \* bound: room in the cache
  MaxCrash,     \* bound: number of JVMs that die
  CrashLabel,   \* where the threads of a JVM that dies may be
  Marker,       \* the threads that mark items stale
  SlowReaders,  \* whether a live reader may outlast the patience of a lock
  Cramped       \* the JVMs whose hash tables may have no room for an item

ASSUME CacheAssumption ==
  /\ IsFiniteSet(Thread) /\ NoThread \notin Thread
  /\ VMOf \in [Thread -> VM]
  /\ MaxItems \in Nat /\ MaxCrash \in Nat
  /\ Marker \subseteq Thread /\ SlowReaders \in BOOLEAN /\ Cramped \subseteq VM

VARIABLES
  theca,       \* the header: J9SharedCacheHeader
  item,        \* the metadata area: item[i] is the block of item i, 0 when not written
  writeMutex,  \* the thread that holds the write lock of the cache file
  cc,          \* per JVM: SH_CompositeCacheImpl and the SH_CacheMap over it
  pc,          \* per thread
  job,         \* per thread: the operation it performs
  op,          \* per thread: the local variables of that operation
  crashes      \* number of JVMs that died

vars == <<theca, item, writeMutex, cc, pc, job, op, crashes>>

Item == 1..MaxItems

ReadLabel == {"readEntered", "readBackOff", "readBlocked", "readHolding", "readReleasing"}
RefreshLabel == {"refresh", "reading", "readDone"}
LockLabel == {"locking", "lockWait", "toMark", "unlocking"}
StoreLabel == {"storing", "allocated", "filled"}
CriticalLabel == {"critical", "segmented", "published", "counted", "committed", "marking"}
Label == {"new", "idle", "finding", "checkCrash", "resetting", "exitWrite", "startRead", "dead"}
           \cup ReadLabel \cup RefreshLabel \cup LockLabel \cup StoreLabel \cup CriticalLabel

NoOp == [expected |-> 0, read |-> 0, again |-> FALSE]

NewCC == [started |-> FALSE, scan |-> 0, oldUpdateCount |-> 0,
          localCrashCntr |-> 0, known |-> {}, lost |-> {}, refreshMutex |-> NoThread]

Init ==
  /\ theca = [locked |-> FALSE, readerCount |-> 0, crashCntr |-> 0, updateCount |-> 0,
              segmentSRP |-> 0, updateSRP |-> 0]
  /\ item = [i \in Item |-> 0]
  /\ writeMutex = NoThread
  /\ cc = [v \in VM |-> NewCC]
  /\ pc = [t \in Thread |-> "new"]
  /\ job = [t \in Thread |-> "none"]
  /\ op = [t \in Thread |-> NoOp]
  /\ crashes = 0

At(t, l) == pc[t] = l
Goto(t, l) == pc' = [pc EXCEPT ![t] = l]

\* incReaderCount and decReaderCount: compare-and-swap loops; the second leaves a zero alone.
incReaderCount == theca' = [theca EXCEPT !.readerCount = @ + 1]
decReaderCount == theca' = [theca EXCEPT !.readerCount = IF @ = 0 THEN 0 ELSE @ - 1]

-----------------------------------------------------------------------------
(* Startup: under the write mutex the JVM takes the crash counter and      *)
(* unlocks a cache that a dead JVM left locked; then it takes the mutex    *)
(* again and reads all there is.                                           *)

StartCache(t) ==
  /\ At(t, "new") /\ writeMutex = NoThread
  /\ \A u \in Thread : VMOf[u] = VMOf[t] => At(u, "new")
  /\ cc' = [cc EXCEPT ![VMOf[t]].localCrashCntr = theca.crashCntr]
  /\ theca' = [theca EXCEPT !.locked = FALSE]
  /\ Goto(t, "startRead")
  /\ UNCHANGED <<item, writeMutex, job, op, crashes>>

StartRead(t) ==
  /\ At(t, "startRead") /\ writeMutex = NoThread
  /\ writeMutex' = t
  /\ job' = [job EXCEPT ![t] = "start"]
  /\ op' = [op EXCEPT ![t].expected = -1]
  /\ Goto(t, "reading")
  /\ UNCHANGED <<theca, item, cc, crashes>>

\* A thread of a JVM whose startup another thread completed.
Attach(t) ==
  /\ At(t, "new") /\ cc[VMOf[t]].started
  /\ Goto(t, "idle")
  /\ UNCHANGED <<theca, item, writeMutex, cc, job, op, crashes>>

-----------------------------------------------------------------------------
(* enterReadMutex: count, test the lock; when locked, uncount, wait for the *)
(* write mutex, count again and give the mutex back.                        *)

EnterRead(t) ==
  /\ At(t, "idle")
  /\ incReaderCount
  /\ job' = [job EXCEPT ![t] = "read"]
  /\ Goto(t, "readEntered")
  /\ UNCHANGED <<item, writeMutex, cc, op, crashes>>

ReadTest(t) ==
  /\ At(t, "readEntered")
  /\ Goto(t, IF theca.locked THEN "readBackOff" ELSE "refresh")
  /\ UNCHANGED <<theca, item, writeMutex, cc, job, op, crashes>>

ReadBackOff(t) ==
  /\ At(t, "readBackOff")
  /\ decReaderCount
  /\ Goto(t, "readBlocked")
  /\ UNCHANGED <<item, writeMutex, cc, job, op, crashes>>

ReadAcquire(t) ==
  /\ At(t, "readBlocked") /\ writeMutex = NoThread
  /\ writeMutex' = t
  /\ Goto(t, "readHolding")
  /\ UNCHANGED <<theca, item, cc, job, op, crashes>>

\* Fault: the thread blocked by a lock is not counted again.
ReadUncounted(t) ==
  /\ At(t, "readHolding")
  /\ Goto(t, "readReleasing")
  /\ UNCHANGED <<theca, item, writeMutex, cc, job, op, crashes>>

ReadCount(t) ==
  /\ At(t, "readHolding")
  /\ incReaderCount
  /\ Goto(t, "readReleasing")
  /\ UNCHANGED <<item, writeMutex, cc, job, op, crashes>>

\* Fault: the reader that waited for the lock tests it again.
ReadRetest(t) ==
  /\ At(t, "readReleasing")
  /\ writeMutex' = NoThread
  /\ Goto(t, "readEntered")
  /\ UNCHANGED <<theca, item, cc, job, op, crashes>>

ReadRelease(t) ==
  /\ At(t, "readReleasing")
  /\ writeMutex' = NoThread
  /\ Goto(t, "refresh")
  /\ UNCHANGED <<theca, item, cc, job, op, crashes>>

\* exitReadMutex, once the thread has found what it looked for.
ExitRead(t) ==
  /\ At(t, "finding")
  /\ decReaderCount
  /\ job' = [job EXCEPT ![t] = "none"]
  /\ Goto(t, "idle")
  /\ UNCHANGED <<item, writeMutex, cc, op, crashes>>

-----------------------------------------------------------------------------
(* refreshHashtables, under the refresh mutex of the JVM.                  *)

\* checkUpdates: a snapshot of how far updateCount is ahead.
Refresh(t) ==
  LET v == VMOf[t]
      updates == theca.updateCount - cc[v].oldUpdateCount IN
  /\ At(t, "refresh") /\ cc[v].refreshMutex = NoThread
  /\ cc' = [cc EXCEPT ![v].refreshMutex = t]
  /\ op' = [op EXCEPT ![t].expected = IF updates < 0 THEN 0 ELSE updates, ![t].read = 0]
  /\ Goto(t, IF updates > 0 THEN "reading" ELSE "readDone")
  /\ UNCHANGED <<theca, item, writeMutex, job, crashes>>

\* One turn of readCache: the next item of the scan, if there is one, enters the hash tables.
ReadItem(t) ==
  LET v == VMOf[t]
      next == cc[v].scan + 1
      found == next <= theca.updateSRP IN
  /\ At(t, "reading")
  /\ IF found
       THEN /\ cc' = [cc EXCEPT ![v].scan = next, ![v].known = @ \cup {next}]
            /\ op' = [op EXCEPT ![t].read = @ + 1,
                                ![t].expected = IF @ = -1 THEN -1 ELSE @ - 1]
       ELSE UNCHANGED <<cc, job, op>>
  /\ Goto(t, IF found /\ op'[t].expected # 0 THEN "reading" ELSE "readDone")
  /\ UNCHANGED <<theca, item, writeMutex, job, crashes>>

\* Where a thread goes on once the hash tables are up to date.
Refreshed(t) ==
  IF op[t].again THEN "refresh"
  ELSE IF job[t] = "read" THEN "finding"
  ELSE IF job[t] = "store" THEN "storing"
  ELSE IF job[t] \in {"mark", "markHolding"} THEN "toMark" ELSE "exitWrite"

\* doneReadUpdates: the items read are added to the count of updates seen.
Done(v, read) ==
  IF read > 0 /\ cc[v].oldUpdateCount < theca.updateCount
  THEN [cc EXCEPT ![v].oldUpdateCount = @ + read, ![v].refreshMutex = NoThread]
  ELSE [cc EXCEPT ![v].refreshMutex = NoThread]

ReadDone(t) ==
  /\ At(t, "readDone")
  /\ cc' = Done(VMOf[t], op[t].read)
  /\ op' = [op EXCEPT ![t].again = FALSE, ![t].expected = 0, ![t].read = 0]
  /\ Goto(t, Refreshed(t))
  /\ UNCHANGED <<theca, item, writeMutex, job, crashes>>

-----------------------------------------------------------------------------
(* enterWriteMutex, with the lock when the thread will mark items stale;   *)
(* then runEntryPointChecks: checkForCrash and a refresh.                  *)

EnterWrite(t) ==
  /\ At(t, "idle") /\ writeMutex = NoThread
  /\ writeMutex' = t
  /\ \/ /\ job' = [job EXCEPT ![t] = "store"]
        /\ Goto(t, "checkCrash")
     \/ /\ t \in Marker
        /\ job' = [job EXCEPT ![t] = "mark"]
        /\ Goto(t, "locking")
  /\ UNCHANGED <<theca, item, cc, op, crashes>>

doLockCache(t) ==
  /\ At(t, "locking")
  /\ theca' = [theca EXCEPT !.locked = TRUE]
  /\ Goto(t, "lockWait")
  /\ UNCHANGED <<item, writeMutex, cc, job, op, crashes>>

\* The threads that the readerCount of the header counts.
Counted(t) == \/ pc[t] \in {"readEntered", "readBackOff", "readReleasing", "finding"}
              \/ pc[t] \in RefreshLabel /\ job[t] = "read"

\* Fault: the lock does not wait for the readers to leave.
LockHasty(t) ==
  /\ At(t, "lockWait")
  /\ Goto(t, "checkCrash")
  /\ UNCHANGED <<theca, item, writeMutex, cc, job, op, crashes>>

LockGranted(t) ==
  /\ At(t, "lockWait") /\ theca.readerCount = 0
  /\ Goto(t, "checkCrash")
  /\ UNCHANGED <<theca, item, writeMutex, cc, job, op, crashes>>

\* Fault: a lock waits for ever for a reader that died.
LockPatient(t) ==
  /\ At(t, "lockWait") /\ theca.readerCount > 0
  /\ UNCHANGED vars

\* Out of patience: the reader "has almost certainly died".
LockWhack(t) ==
  /\ At(t, "lockWait") /\ theca.readerCount > 0
  /\ SlowReaders \/ \A u \in Thread : ~Counted(u)
  /\ theca' = [theca EXCEPT !.readerCount = 0]
  /\ Goto(t, "checkCrash")
  /\ UNCHANGED <<item, writeMutex, cc, job, op, crashes>>

\* crashDetected; resetAllManagers empties the hash tables.
checkForCrash(t) ==
  LET v == VMOf[t] IN
  /\ At(t, "checkCrash")
  /\ IF cc[v].localCrashCntr # theca.crashCntr
       THEN /\ cc' = [cc EXCEPT ![v].localCrashCntr = theca.crashCntr,
                                ![v].known = {}, ![v].lost = {}]
            /\ Goto(t, "resetting")
       ELSE UNCHANGED cc /\ Goto(t, "refresh")
  /\ UNCHANGED <<theca, item, writeMutex, job, op, crashes>>

\* Fault: a reset forgets the scan pointer.
ResetCount(t) ==
  /\ At(t, "resetting")
  /\ cc' = [cc EXCEPT ![VMOf[t]].oldUpdateCount = 0]
  /\ theca' = [theca EXCEPT !.locked = FALSE]
  /\ op' = [op EXCEPT ![t].again = TRUE]
  /\ Goto(t, "refresh")
  /\ UNCHANGED <<item, writeMutex, job, crashes>>

\* SH_CompositeCacheImpl::reset: findStart, and "if cache is locked, unlock it".
Reset(t) ==
  /\ At(t, "resetting")
  /\ cc' = [cc EXCEPT ![VMOf[t]].scan = 0, ![VMOf[t]].oldUpdateCount = 0]
  /\ theca' = [theca EXCEPT !.locked = FALSE]
  /\ op' = [op EXCEPT ![t].again = TRUE]
  /\ Goto(t, "refresh")
  /\ UNCHANGED <<item, writeMutex, job, crashes>>

\* exitWriteMutex; a thread may leave without storing when it finds the item is there.
ExitWrite(t) ==
  /\ \/ At(t, "storing")
     \/ At(t, "exitWrite")
  /\ theca' = [theca EXCEPT !.locked = FALSE]
  /\ writeMutex' = NoThread
  /\ cc' = [cc EXCEPT ![VMOf[t]].started = TRUE]
  /\ job' = [job EXCEPT ![t] = "none"]
  /\ Goto(t, "idle")
  /\ UNCHANGED <<item, op, crashes>>

-----------------------------------------------------------------------------
(* Storing an item with its ROM class block: allocate beyond the visible   *)
(* part, write, commit.  A writer may store several items.                 *)

\* allocate and allocateMetadataEntry: the scan pointer moves past the new item.
Allocate(t) ==
  LET i == theca.updateSRP + 1 IN
  /\ At(t, "storing") /\ i \in Item
  /\ item' = [item EXCEPT ![i] = 0]
  /\ cc' = [cc EXCEPT ![VMOf[t]].scan = i]
  /\ Goto(t, "allocated")
  /\ UNCHANGED <<theca, writeMutex, job, op, crashes>>

\* commitROMClass: the item is written with its block and stored in the JVM's own hash table.
\* "If storeNew() fails, we still need to ... commit the update": the JVM has lost the item.
Fill(t) ==
  LET v == VMOf[t]
      i == theca.updateSRP + 1 IN
  /\ At(t, "allocated")
  /\ item' = [item EXCEPT ![i] = theca.segmentSRP + 1]
  /\ \/ cc' = [cc EXCEPT ![v].known = @ \cup {i}]
     \/ v \in Cramped /\ cc' = [cc EXCEPT ![v].lost = @ \cup {i}]
  /\ Goto(t, "filled")
  /\ UNCHANGED <<theca, writeMutex, job, op, crashes>>

\* commitUpdateHelper, store by store.
startCriticalUpdate(t) ==
  /\ At(t, "filled")
  /\ theca' = [theca EXCEPT !.crashCntr = @ + 1]
  /\ Goto(t, "critical")
  /\ UNCHANGED <<item, writeMutex, cc, job, op, crashes>>

\* Fault: the item is published before the block it refers to is.
PublishFirst(t) ==
  /\ At(t, "critical")
  /\ theca' = [theca EXCEPT !.updateSRP = @ + 1]
  /\ Goto(t, "segmented")
  /\ UNCHANGED <<item, writeMutex, cc, job, op, crashes>>

CommitSegment(t) ==
  /\ At(t, "critical")
  /\ theca' = [theca EXCEPT !.segmentSRP = @ + 1]
  /\ Goto(t, "segmented")
  /\ UNCHANGED <<item, writeMutex, cc, job, op, crashes>>

CommitMetadata(t) ==
  /\ At(t, "segmented")
  /\ theca' = [theca EXCEPT !.updateSRP = @ + 1]
  /\ Goto(t, "published")
  /\ UNCHANGED <<item, writeMutex, cc, job, op, crashes>>

CommitCount(t) ==
  /\ At(t, "published")
  /\ theca' = [theca EXCEPT !.updateCount = @ + 1]
  /\ Goto(t, "counted")
  /\ UNCHANGED <<item, writeMutex, cc, job, op, crashes>>

CommitSeen(t) ==
  /\ At(t, "counted")
  /\ cc' = [cc EXCEPT ![VMOf[t]].oldUpdateCount = theca.updateCount]
  /\ Goto(t, "committed")
  /\ UNCHANGED <<theca, item, writeMutex, job, op, crashes>>

endCriticalUpdate(t) ==
  /\ At(t, "committed")
  /\ theca' = [theca EXCEPT !.crashCntr = @ - 1]
  /\ Goto(t, "storing")
  /\ UNCHANGED <<item, writeMutex, cc, job, op, crashes>>

-----------------------------------------------------------------------------
(* markStale: a walk over all items, with the cache locked.                *)

\* Called by a thread that already holds the write mutex.
MarkHolding(t) ==
  /\ At(t, "storing") /\ t \in Marker
  /\ job' = [job EXCEPT ![t] = "markHolding"]
  /\ Goto(t, "locking")
  /\ UNCHANGED <<theca, item, writeMutex, cc, op, crashes>>

StartMark(t) ==
  /\ At(t, "toMark")
  /\ theca' = [theca EXCEPT !.crashCntr = @ + 1]
  /\ cc' = [cc EXCEPT ![VMOf[t]].scan = 0]
  /\ Goto(t, "marking")
  /\ UNCHANGED <<item, writeMutex, job, op, crashes>>

MarkItem(t) ==
  /\ At(t, "marking") /\ cc[VMOf[t]].scan < theca.updateSRP
  /\ cc' = [cc EXCEPT ![VMOf[t]].scan = @ + 1]
  /\ UNCHANGED <<theca, item, writeMutex, pc, job, op, crashes>>

\* The end of the walk.
EndMark(t) ==
  /\ At(t, "marking") /\ cc[VMOf[t]].scan >= theca.updateSRP
  /\ theca' = [theca EXCEPT !.crashCntr = @ - 1]
  /\ Goto(t, IF job[t] = "mark" THEN "exitWrite" ELSE "unlocking")
  /\ UNCHANGED <<item, writeMutex, cc, job, op, crashes>>

\* doUnlockCache, when the caller held the mutex before.
doUnlockCache(t) ==
  /\ At(t, "unlocking")
  /\ theca' = [theca EXCEPT !.locked = FALSE]
  /\ job' = [job EXCEPT ![t] = "store"]
  /\ Goto(t, "storing")
  /\ UNCHANGED <<item, writeMutex, cc, op, crashes>>

-----------------------------------------------------------------------------
(* A JVM dies.  The operating system releases its file lock; the header    *)
(* stays as it is.                                                         *)

Crash(v) ==
  /\ crashes < MaxCrash /\ crashes' = crashes + 1
  /\ \A t \in Thread : VMOf[t] = v => pc[t] \in CrashLabel
  /\ pc' = [t \in Thread |-> IF VMOf[t] = v THEN "dead" ELSE pc[t]]
  /\ job' = [t \in Thread |-> IF VMOf[t] = v THEN "none" ELSE job[t]]
  /\ op' = [t \in Thread |-> IF VMOf[t] = v THEN NoOp ELSE op[t]]
  /\ cc' = [cc EXCEPT ![v] = NewCC]
  /\ writeMutex' = IF writeMutex \in {t \in Thread : VMOf[t] = v} THEN NoThread ELSE writeMutex
  /\ UNCHANGED <<theca, item>>

Reader(t) == EnterRead(t) \/ ReadTest(t) \/ ReadBackOff(t) \/ ReadAcquire(t) \/ ReadCount(t)
               \/ ReadRelease(t) \/ ExitRead(t)
Refresher(t) == Refresh(t) \/ ReadItem(t) \/ ReadDone(t)
Locker(t) == doLockCache(t) \/ LockGranted(t) \/ LockWhack(t)
Checker(t) == checkForCrash(t) \/ Reset(t)
Storer(t) == Allocate(t) \/ Fill(t) \/ startCriticalUpdate(t) \/ CommitSegment(t)
               \/ CommitMetadata(t) \/ CommitCount(t) \/ CommitSeen(t) \/ endCriticalUpdate(t)
Stale(t) == MarkHolding(t) \/ StartMark(t) \/ MarkItem(t) \/ EndMark(t) \/ doUnlockCache(t)
Starter(t) == StartCache(t) \/ StartRead(t) \/ Attach(t)

Step(t) == Starter(t) \/ Reader(t) \/ Refresher(t) \/ EnterWrite(t) \/ Locker(t) \/ Checker(t)
             \/ Storer(t) \/ Stale(t) \/ ExitWrite(t)

Next == \/ \E t \in Thread : Step(t)
        \/ \E v \in VM : Crash(v)

Spec == Init /\ [][Next]_vars

\* Running threads keep running, a writer ends its work, and no thread is passed over for ever
\* at the file lock or at a refresh mutex.
FairSpec ==
  /\ Spec
  /\ \A t \in Thread :
       /\ WF_vars(pc[t] \notin {"new", "idle"} /\ Step(t) /\ ~Allocate(t) /\ ~MarkHolding(t))
       /\ SF_vars(ReadAcquire(t) \/ StartRead(t) \/ Refresh(t))
       /\ SF_vars(ExitWrite(t))

-----------------------------------------------------------------------------
(* Properties.                                                             *)

\* Whatever JVM dies, and wherever, every visible item is completely written and has a ROM
\* class block of its own inside the committed part of the segment.
VisibleItemsAreWhole ==
  \A i \in 1..theca.updateSRP :
    /\ item[i] \in 1..theca.segmentSRP
    /\ \A j \in 1..theca.updateSRP : i # j => item[i] # item[j]

\* The threads that hold the write mutex: writers, starting JVMs, and readers that waited for
\* the end of a lock.
Writing(t) ==
  \/ pc[t] \in {"readHolding", "readReleasing", "checkCrash", "resetting", "exitWrite"}
  \/ pc[t] \in LockLabel \cup StoreLabel \cup CriticalLabel
  \/ pc[t] \in RefreshLabel /\ job[t] # "read"

\* The item that a thread is storing, store by store.
ItemInv(t) ==
  LET i == theca.updateSRP + 1 IN
  /\ pc[t] \in {"allocated", "filled", "critical", "segmented"} => i \in Item
  /\ pc[t] \in {"filled", "critical"} => item[i] = theca.segmentSRP + 1
  /\ At(t, "segmented") => /\ item[i] = theca.segmentSRP
                           /\ theca.segmentSRP > 0
                           /\ \A j \in 1..theca.updateSRP : item[j] < theca.segmentSRP

\* The inductive invariant: at most the holder of the write mutex writes, the operation of a
\* thread fits its place, and the item being stored refers to the next free block until the
\* block is committed, and to the last one from then on.
CacheInv ==
  /\ theca.updateSRP <= MaxItems
  /\ \A t \in Thread :
       /\ Writing(t) => writeMutex = t
       /\ pc[t] \in ReadLabel \cup {"finding"} => job[t] = "read"
       /\ pc[t] \in {"locking", "lockWait", "checkCrash", "resetting"} => job[t] # "read"
       /\ ItemInv(t)
  /\ VisibleItemsAreWhole

\* The readers that are alive are counted by readerCount: a lock never overlooks one.
ReadersAreCounted ==
  Cardinality({t \in Thread : Counted(t)}) <= theca.readerCount

\* While a thread marks items stale in the locked cache nobody is reading: enterWriteMutex with
\* lockCache "blocks until all readers have finished", and the readers that come later wait.
\* (A marker that detects a crash resets the cache, which unlocks it, and marks all the same.)
MarkerIsAlone ==
  \A t, u \in Thread : At(t, "marking") /\ theca.locked =>
    ~(job[u] = "read" /\ pc[u] \in {"finding"} \cup RefreshLabel)

\* The items that have been offered to the hash tables of a JVM since it last emptied them.
Seen(v) == cc[v].known \cup cc[v].lost

\* A thread about to store has every visible item in the hash tables of its JVM, but for those
\* of its own that they had no room for, and the scan at their end: it never stores what another
\* JVM has stored, and misses no later item.
WriterKnowsEveryItem ==
  \A t \in Thread : At(t, "storing") =>
    /\ 1..theca.updateSRP \subseteq Seen(VMOf[t])
    /\ cc[VMOf[t]].scan = theca.updateSRP

\* A thread that wants to read gets to read, also when the JVM that locked the cache dies.
ReadersGetIn == \A t \in Thread : At(t, "readEntered") ~> pc[t] \in {"finding", "dead"}

\* A thread that locks the cache gets the lock, also when a reader dies while it is counted.
LocksAreGranted == \A t \in Thread : At(t, "lockWait") ~> pc[t] \in {"checkCrash", "dead"}

=============================================================================
