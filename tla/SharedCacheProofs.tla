------------------------- MODULE SharedCacheProofs -------------------------
(***************************************************************************)
(* The shared classes cache, for any number of JVMs and threads and any    *)
(* size of the cache, whatever JVMs die: what it shows is whole; its live  *)
(* readers are counted, and kept out of a locked cache while its items are *)
(* marked stale.  And a writer knows every item before it stores another,  *)
(* provided each JVM has one thread and none dies between the store that   *)
(* publishes an item and the one that counts it.                           *)
(***************************************************************************)
EXTENDS SharedCache, FiniteSetTheorems, TLAPS

Header == [locked : BOOLEAN, readerCount : Int, crashCntr : Int, updateCount : Int,
           segmentSRP : Nat, updateSRP : Nat]

Job == {"none", "start", "read", "store", "mark", "markHolding"}

\* The types the proofs need, without their bounds.
Types ==
  /\ theca \in Header
  /\ item \in [Item -> Nat]
  /\ pc \in [Thread -> Label]
  /\ job \in [Thread -> Job]

\* Types hold in the initial state.
LEMMA InitTypes == Init => Types
  BY DEF Init, Types, Header, Job, Label

\* A step of enterReadMutex or exitReadMutex keeps the types.
LEMMA ReaderTypes == ASSUME NEW t \in Thread, Types, Reader(t) PROVE Types'
<1> USE DEF Types, Goto, Job, Label, ReadLabel, RefreshLabel, LockLabel, StoreLabel, CriticalLabel
<1>1. CASE EnterRead(t)
  BY <1>1 DEF EnterRead, incReaderCount, Header
<1>2. CASE ReadTest(t)
  BY <1>2 DEF ReadTest
<1>3. CASE ReadBackOff(t)
  BY <1>3 DEF ReadBackOff, decReaderCount, Header
<1>4. CASE ReadAcquire(t)
  BY <1>4 DEF ReadAcquire
<1>5. CASE ReadCount(t)
  BY <1>5 DEF ReadCount, incReaderCount, Header
<1>6. CASE ReadRelease(t)
  BY <1>6 DEF ReadRelease
<1>7. CASE ExitRead(t)
  BY <1>7 DEF ExitRead, decReaderCount, Header
<1> QED BY <1>1, <1>2, <1>3, <1>4, <1>5, <1>6, <1>7 DEF Reader

\* A step of refreshHashtables keeps the types.
LEMMA RefresherTypes == ASSUME NEW t \in Thread, Types, Refresher(t) PROVE Types'
<1> USE DEF Types, Goto, Job, Label, ReadLabel, RefreshLabel, LockLabel, StoreLabel, CriticalLabel
<1>1. CASE Refresh(t)
  BY <1>1 DEF Refresh
<1>2. CASE ReadItem(t)
  BY <1>2 DEF ReadItem
<1>3. CASE ReadDone(t)
  BY <1>3 DEF ReadDone, Refreshed
<1> QED BY <1>1, <1>2, <1>3 DEF Refresher

\* A step of startup keeps the types.
LEMMA StarterTypes == ASSUME NEW t \in Thread, Types, Starter(t) PROVE Types'
<1> USE DEF Types, Goto, Job, Label, ReadLabel, RefreshLabel, LockLabel, StoreLabel, CriticalLabel
<1>1. CASE StartCache(t)
  BY <1>1, Zenon DEF StartCache, Header
<1>2. CASE StartRead(t)
  BY <1>2 DEF StartRead
<1>3. CASE Attach(t)
  BY <1>3 DEF Attach
<1> QED BY <1>1, <1>2, <1>3 DEF Starter

\* A step of doLockCache keeps the types.
LEMMA LockerTypes == ASSUME NEW t \in Thread, Types, Locker(t) PROVE Types'
<1> USE DEF Types, Goto, Job, Label, ReadLabel, RefreshLabel, LockLabel, StoreLabel, CriticalLabel
<1>1. CASE doLockCache(t)
  BY <1>1, Zenon DEF doLockCache, Header
<1>2. CASE LockGranted(t)
  BY <1>2 DEF LockGranted
<1>3. CASE LockWhack(t)
  BY <1>3 DEF LockWhack, Header
<1> QED BY <1>1, <1>2, <1>3 DEF Locker

\* A step of checkForCrash keeps the types.
LEMMA CheckerTypes == ASSUME NEW t \in Thread, Types, Checker(t) PROVE Types'
<1> USE DEF Types, Goto, Job, Label, ReadLabel, RefreshLabel, LockLabel, StoreLabel, CriticalLabel
<1>1. CASE checkForCrash(t)
  BY <1>1 DEF checkForCrash
<1>2. CASE Reset(t)
  BY <1>2, Zenon DEF Reset, Header
<1> QED BY <1>1, <1>2 DEF Checker

\* A step of storing an item keeps the types.
LEMMA StorerTypes == ASSUME NEW t \in Thread, Types, Storer(t) PROVE Types'
<1> USE DEF Types, Goto, Job, Label, ReadLabel, RefreshLabel, LockLabel, StoreLabel, CriticalLabel
<1>1. CASE Allocate(t)
  BY <1>1 DEF Allocate
<1>3. CASE Fill(t)
  <2>1. theca.segmentSRP + 1 \in Nat
    BY DEF Header
  <2> QED BY <1>3, <2>1, Zenon DEF Fill
<1>4. CASE startCriticalUpdate(t)
  BY <1>4 DEF startCriticalUpdate, Header
<1>5. CASE CommitSegment(t)
  BY <1>5 DEF CommitSegment, Header
<1>6. CASE CommitMetadata(t)
  BY <1>6 DEF CommitMetadata, Header
<1>7. CASE CommitCount(t)
  BY <1>7 DEF CommitCount, Header
<1>8. CASE CommitSeen(t)
  BY <1>8 DEF CommitSeen
<1>9. CASE endCriticalUpdate(t)
  BY <1>9 DEF endCriticalUpdate, Header
<1> QED BY <1>1, <1>3, <1>4, <1>5, <1>6, <1>7, <1>8, <1>9 DEF Storer

\* A step of markStale keeps the types.
LEMMA StaleTypes == ASSUME NEW t \in Thread, Types, Stale(t) PROVE Types'
<1> USE DEF Types, Goto, Job, Label, ReadLabel, RefreshLabel, LockLabel, StoreLabel, CriticalLabel
<1>1. CASE MarkHolding(t)
  BY <1>1 DEF MarkHolding
<1>2. CASE StartMark(t)
  BY <1>2 DEF StartMark, Header
<1>3. CASE MarkItem(t)
  BY <1>3 DEF MarkItem
<1>4. CASE EndMark(t)
  BY <1>4 DEF EndMark, Header
<1>5. CASE doUnlockCache(t)
  BY <1>5, Zenon DEF doUnlockCache, Header
<1> QED BY <1>1, <1>2, <1>3, <1>4, <1>5 DEF Stale

\* enterWriteMutex and exitWriteMutex keep the types.
LEMMA MutexTypes == ASSUME NEW t \in Thread, Types, EnterWrite(t) \/ ExitWrite(t) PROVE Types'
<1> USE DEF Types, Goto, Job, Label, ReadLabel, RefreshLabel, LockLabel, StoreLabel, CriticalLabel
<1>1. CASE EnterWrite(t)
  BY <1>1 DEF EnterWrite
<1>2. CASE ExitWrite(t)
  BY <1>2, Zenon DEF ExitWrite, Header
<1> QED BY <1>1, <1>2

\* The death of a JVM keeps the types.
LEMMA CrashTypes == ASSUME NEW v \in VM, Types, Crash(v) PROVE Types'
  BY DEF Types, Crash, Job, Label

\* Every step keeps the types.
LEMMA NextTypes == Types /\ [Next]_vars => Types'
<1> SUFFICES ASSUME Types, [Next]_vars PROVE Types'
  OBVIOUS
<1>1. CASE UNCHANGED vars
  BY <1>1 DEF vars, Types
<1>2. ASSUME NEW t \in Thread, Step(t) PROVE Types'
  BY <1>2, ReaderTypes, RefresherTypes, StarterTypes, LockerTypes, CheckerTypes, StorerTypes,
     StaleTypes, MutexTypes DEF Step
<1> QED BY <1>1, <1>2, CrashTypes DEF Next

-----------------------------------------------------------------------------
(* CacheInv is inductive.                                                  *)

\* What CacheInv says of one thread, apart from the item it stores.
Local(t) ==
  /\ Writing(t) => writeMutex = t
  /\ pc[t] \in ReadLabel \cup {"finding"} => job[t] = "read"
  /\ pc[t] \in {"locking", "lockWait", "checkCrash", "resetting"} => job[t] # "read"

\* The part of the header and of the metadata that CacheInv is about.
SameData ==
  theca'.updateSRP = theca.updateSRP /\ theca'.segmentSRP = theca.segmentSRP /\ item' = item

\* A step of t that leaves the other threads alone and takes the write mutex from nobody.
Frame(t) ==
  /\ \A u \in Thread \ {t} : pc'[u] = pc[u] /\ job'[u] = job[u]
  /\ writeMutex' = writeMutex \/ writeMutex \in {NoThread, t}

\* Such a step leaves what CacheInv says of the other threads true.
LEMMA FrameLocal ==
  ASSUME NEW t \in Thread, CacheInv, Frame(t)
  PROVE  \A u \in Thread \ {t} : Local(u)'
<1> SUFFICES ASSUME NEW u \in Thread \ {t} PROVE Local(u)'
  OBVIOUS
<1>1. Local(u)
  BY DEF CacheInv, Local
<1>2. pc'[u] = pc[u] /\ job'[u] = job[u]
  BY DEF Frame
<1>3. Writing(u)' <=> Writing(u)
  BY <1>2 DEF Writing
<1>4. Writing(u) => writeMutex' = u
  BY <1>1, CacheAssumption DEF Frame, Local
<1> QED BY <1>1, <1>2, <1>3, <1>4 DEF Local

\* A step that does not touch the data keeps the visible items whole, and the items of the
\* threads that stay where they are.
LEMMA SameItems ==
  ASSUME CacheInv, SameData
  PROVE  /\ VisibleItemsAreWhole' /\ theca'.updateSRP <= MaxItems
         /\ \A u \in Thread : pc'[u] = pc[u] => ItemInv(u)'
  BY DEF CacheInv, SameData, VisibleItemsAreWhole, ItemInv, At

\* A step that neither touches the data nor moves to a label of an item being stored.
Quiet(t) ==
  /\ Frame(t) /\ SameData
  /\ Local(t)'
  /\ pc'[t] \notin {"allocated", "filled", "critical", "segmented"}

\* Such a step keeps CacheInv.
LEMMA QuietStep == ASSUME NEW t \in Thread, CacheInv, Quiet(t) PROVE CacheInv'
<1>1. \A u \in Thread \ {t} : Local(u)' /\ ItemInv(u)'
  BY FrameLocal, SameItems DEF Quiet, Frame
<1>2. Local(t)' /\ ItemInv(t)'
  BY DEF Quiet, ItemInv, At
<1>3. VisibleItemsAreWhole' /\ theca'.updateSRP <= MaxItems
  BY SameItems DEF Quiet
<1> QED BY <1>1, <1>2, <1>3 DEF CacheInv, Local

\* A step of enterReadMutex or exitReadMutex is quiet.
LEMMA ReaderQuiet == ASSUME NEW t \in Thread, Types, CacheInv, Reader(t) PROVE Quiet(t)
<1> USE CacheAssumption DEF Quiet, Frame, SameData, Local, Writing, CacheInv, Types, Goto, At,
      Job, Label, ReadLabel, RefreshLabel, LockLabel, StoreLabel, CriticalLabel
<1>1. CASE EnterRead(t)
  BY <1>1 DEF EnterRead, incReaderCount, Header
<1>2. CASE ReadTest(t)
  BY <1>2 DEF ReadTest
<1>3. CASE ReadBackOff(t)
  BY <1>3 DEF ReadBackOff, decReaderCount, Header
<1>4. CASE ReadAcquire(t)
  BY <1>4 DEF ReadAcquire
<1>5. CASE ReadCount(t)
  BY <1>5 DEF ReadCount, incReaderCount, Header
<1>6. CASE ReadRelease(t)
  BY <1>6 DEF ReadRelease
<1>7. CASE ExitRead(t)
  BY <1>7 DEF ExitRead, decReaderCount, Header
<1> QED BY <1>1, <1>2, <1>3, <1>4, <1>5, <1>6, <1>7 DEF Reader

\* A step of refreshHashtables is quiet.
LEMMA RefresherQuiet == ASSUME NEW t \in Thread, Types, CacheInv, Refresher(t) PROVE Quiet(t)
<1> USE CacheAssumption DEF Quiet, Frame, SameData, Local, Writing, CacheInv, Types, Goto, At,
      Job, Label, ReadLabel, RefreshLabel, LockLabel, StoreLabel, CriticalLabel
<1>1. CASE Refresh(t)
  BY <1>1 DEF Refresh
<1>2. CASE ReadItem(t)
  BY <1>2 DEF ReadItem
<1>3. CASE ReadDone(t)
  BY <1>3 DEF ReadDone, Refreshed
<1> QED BY <1>1, <1>2, <1>3 DEF Refresher

\* A step of startup is quiet.
LEMMA StarterQuiet == ASSUME NEW t \in Thread, Types, CacheInv, Starter(t) PROVE Quiet(t)
<1> USE CacheAssumption DEF Quiet, Frame, SameData, Local, Writing, CacheInv, Types, Goto, At,
      Job, Label, ReadLabel, RefreshLabel, LockLabel, StoreLabel, CriticalLabel
<1>1. CASE StartCache(t)
  BY <1>1 DEF StartCache, Header
<1>2. CASE StartRead(t)
  BY <1>2 DEF StartRead
<1>3. CASE Attach(t)
  BY <1>3 DEF Attach
<1> QED BY <1>1, <1>2, <1>3 DEF Starter

\* A step of doLockCache is quiet.
LEMMA LockerQuiet == ASSUME NEW t \in Thread, Types, CacheInv, Locker(t) PROVE Quiet(t)
<1> USE CacheAssumption DEF Quiet, Frame, SameData, Local, Writing, CacheInv, Types, Goto, At,
      Job, Label, ReadLabel, RefreshLabel, LockLabel, StoreLabel, CriticalLabel
<1>1. CASE doLockCache(t)
  BY <1>1 DEF doLockCache, Header
<1>2. CASE LockGranted(t)
  BY <1>2 DEF LockGranted
<1>3. CASE LockWhack(t)
  BY <1>3 DEF LockWhack, Header
<1> QED BY <1>1, <1>2, <1>3 DEF Locker

\* A step of checkForCrash is quiet.
LEMMA CheckerQuiet == ASSUME NEW t \in Thread, Types, CacheInv, Checker(t) PROVE Quiet(t)
<1> USE CacheAssumption DEF Quiet, Frame, SameData, Local, Writing, CacheInv, Types, Goto, At,
      Job, Label, ReadLabel, RefreshLabel, LockLabel, StoreLabel, CriticalLabel
<1>1. CASE checkForCrash(t)
  BY <1>1 DEF checkForCrash
<1>2. CASE Reset(t)
  BY <1>2 DEF Reset, Header
<1> QED BY <1>1, <1>2 DEF Checker

\* A step of markStale is quiet.
LEMMA StaleQuiet == ASSUME NEW t \in Thread, Types, CacheInv, Stale(t) PROVE Quiet(t)
<1> USE CacheAssumption DEF Quiet, Frame, SameData, Local, Writing, CacheInv, Types, Goto, At,
      Job, Label, ReadLabel, RefreshLabel, LockLabel, StoreLabel, CriticalLabel
<1>1. CASE MarkHolding(t)
  BY <1>1 DEF MarkHolding
<1>2. CASE StartMark(t)
  BY <1>2 DEF StartMark, Header
<1>3. CASE MarkItem(t)
  BY <1>3 DEF MarkItem
<1>4. CASE EndMark(t)
  BY <1>4 DEF EndMark, Header
<1>5. CASE doUnlockCache(t)
  BY <1>5 DEF doUnlockCache, Header
<1> QED BY <1>1, <1>2, <1>3, <1>4, <1>5 DEF Stale

\* enterWriteMutex, exitWriteMutex and the steps of a store that do not touch the data are quiet.
LEMMA WriterQuiet ==
  ASSUME NEW t \in Thread, Types, CacheInv,
         EnterWrite(t) \/ ExitWrite(t) \/ CommitCount(t) \/ CommitSeen(t)
           \/ endCriticalUpdate(t)
  PROVE  Quiet(t)
<1> USE CacheAssumption DEF Quiet, Frame, SameData, Local, Writing, CacheInv, Types, Goto, At,
      Job, Label, ReadLabel, RefreshLabel, LockLabel, StoreLabel, CriticalLabel
<1>1. CASE EnterWrite(t)
  BY <1>1 DEF EnterWrite
<1>2. CASE ExitWrite(t)
  BY <1>2 DEF ExitWrite, Header
<1>4. CASE CommitCount(t)
  BY <1>4 DEF CommitCount, Header
<1>5. CASE CommitSeen(t)
  BY <1>5 DEF CommitSeen
<1>6. CASE endCriticalUpdate(t)
  BY <1>6 DEF endCriticalUpdate, Header
<1> QED BY <1>1, <1>2, <1>4, <1>5, <1>6

\* No other thread is storing an item while t holds the write mutex.
LEMMA OnlyItem ==
  ASSUME NEW t \in Thread, CacheInv, Writing(t), Frame(t)
  PROVE  \A u \in Thread \ {t} : ItemInv(u)'
<1> SUFFICES ASSUME NEW u \in Thread \ {t} PROVE ItemInv(u)'
  OBVIOUS
<1>1. ~Writing(u)
  BY DEF CacheInv
<1>2. pc'[u] \notin {"allocated", "filled", "critical", "segmented"}
  BY <1>1 DEF Writing, Frame, StoreLabel, CriticalLabel
<1> QED BY <1>2 DEF ItemInv, At

\* Allocating and writing an item touches only the metadata beyond the visible part.
LEMMA WriteStep ==
  ASSUME NEW t \in Thread, Types, CacheInv, Allocate(t) \/ Fill(t)
  PROVE  CacheInv'
<1> DEFINE i == theca.updateSRP + 1
<1>1. /\ Frame(t) /\ Writing(t) /\ i \in Item /\ theca' = theca /\ theca \in Header
      /\ \A j \in Item \ {i} : item'[j] = item[j]
      /\ Local(t)'
      /\ pc'[t] = "allocated" \/ (pc'[t] = "filled" /\ item'[i] = theca.segmentSRP + 1)
  <2>1. CASE Allocate(t)
    <3>1. i \in Item /\ item' = [item EXCEPT ![i] = 0] /\ theca' = theca
      BY <2>1 DEF Allocate
    <3>2. Frame(t) /\ Writing(t) /\ Local(t)' /\ pc'[t] = "allocated"
      BY <2>1 DEF Quiet, Frame, SameData, Local, Writing, CacheInv, Types, Goto, At,
      Job, Label, ReadLabel, RefreshLabel, LockLabel, StoreLabel, CriticalLabel, Allocate
    <3>3. theca \in Header /\ item \in [Item -> Nat]
      BY DEF Types
    <3>4. \A j \in Item \ {i} : item'[j] = item[j]
      BY <3>1, <3>3
    <3> QED BY <3>1, <3>2, <3>3, <3>4, Zenon
  <2>2. CASE Fill(t)
    <3>1. i \in Item
      BY <2>2 DEF Fill, CacheInv, ItemInv, At
    <3>2. item' = [item EXCEPT ![i] = theca.segmentSRP + 1] /\ theca' = theca
      BY <2>2 DEF Fill
    <3>3. Frame(t) /\ Writing(t) /\ Local(t)' /\ pc'[t] = "filled"
      BY <2>2 DEF Quiet, Frame, SameData, Local, Writing, CacheInv, Types, Goto, At,
      Job, Label, ReadLabel, RefreshLabel, LockLabel, StoreLabel, CriticalLabel, Fill
    <3>4. theca \in Header /\ item \in [Item -> Nat]
      BY DEF Types
    <3>5. item'[i] = theca.segmentSRP + 1 /\ \A j \in Item \ {i} : item'[j] = item[j]
      BY <3>1, <3>2, <3>4
    <3> QED BY <3>1, <3>2, <3>3, <3>4, <3>5, Zenon
  <2> QED BY <2>1, <2>2
<1>2. \A u \in Thread \ {t} : Local(u)' /\ ItemInv(u)'
  BY <1>1, FrameLocal, OnlyItem
<1>3. ItemInv(t)'
  BY <1>1 DEF ItemInv, At
<1>4. \A j \in 1..theca.updateSRP : item'[j] = item[j]
  <2>1. theca.updateSRP \in Nat
    BY <1>1 DEF Header
  <2>2. \A j \in 1..theca.updateSRP : j \in Item \ {i}
    BY <1>1, <2>1, CacheAssumption DEF Item
  <2> QED BY <1>1, <2>2
<1>5. VisibleItemsAreWhole
  BY DEF CacheInv
<1>6. VisibleItemsAreWhole'
  BY <1>1, <1>4, <1>5 DEF VisibleItemsAreWhole
<1>7. theca'.updateSRP <= MaxItems
  BY <1>1 DEF CacheInv
<1> QED BY <1>1, <1>2, <1>3, <1>6, <1>7 DEF CacheInv, Local

\* Entering the critical section touches no data; the item stays the one written.
LEMMA CriticalStep ==
  ASSUME NEW t \in Thread, Types, CacheInv, startCriticalUpdate(t)
  PROVE  CacheInv'
<1>1. /\ Frame(t) /\ Writing(t) /\ SameData /\ Local(t)'
      /\ pc[t] = "filled" /\ pc'[t] = "critical"
  BY DEF Quiet, Frame, SameData, Local, Writing, CacheInv, Types, Goto, At,
      Job, Label, ReadLabel, RefreshLabel, LockLabel, StoreLabel, CriticalLabel,
      startCriticalUpdate, Header
<1>2. \A u \in Thread \ {t} : Local(u)' /\ ItemInv(u)'
  BY <1>1, FrameLocal, OnlyItem
<1>3. ItemInv(t)'
  BY <1>1 DEF CacheInv, ItemInv, At, SameData
<1> QED BY <1>1, <1>2, <1>3, SameItems DEF CacheInv, Local

\* Committing the block of the item leaves the visible items, which refer to earlier blocks.
LEMMA SegmentStep ==
  ASSUME NEW t \in Thread, Types, CacheInv, CommitSegment(t)
  PROVE  CacheInv'
<1>1. /\ Frame(t) /\ Writing(t) /\ Local(t)' /\ item' = item /\ theca \in Header
      /\ theca'.updateSRP = theca.updateSRP /\ theca'.segmentSRP = theca.segmentSRP + 1
      /\ pc[t] = "critical" /\ pc'[t] = "segmented"
  BY DEF Quiet, Frame, SameData, Local, Writing, CacheInv, Types, Goto, At,
      Job, Label, ReadLabel, RefreshLabel, LockLabel, StoreLabel, CriticalLabel, CommitSegment,
      Header
<1>2. \A u \in Thread \ {t} : Local(u)' /\ ItemInv(u)'
  BY <1>1, FrameLocal, OnlyItem
<1>3. theca.updateSRP \in Nat /\ theca.segmentSRP \in Nat
  BY <1>1 DEF Header
<1>4. \A j \in 1..theca.updateSRP : item[j] \in 1..theca.segmentSRP
  BY DEF CacheInv, VisibleItemsAreWhole
<1>5. theca.updateSRP + 1 \in Item /\ item[theca.updateSRP + 1] = theca.segmentSRP + 1
  BY <1>1 DEF CacheInv, ItemInv
<1>6. ItemInv(t)'
  BY <1>1, <1>3, <1>4, <1>5 DEF ItemInv, At
<1>7. VisibleItemsAreWhole' /\ theca'.updateSRP <= MaxItems
  BY <1>1, <1>3, <1>4 DEF VisibleItemsAreWhole, CacheInv
<1> QED BY <1>1, <1>2, <1>6, <1>7 DEF CacheInv, Local

\* Publishing the item adds one that refers to the last block, which no other refers to.
LEMMA MetadataStep ==
  ASSUME NEW t \in Thread, Types, CacheInv, CommitMetadata(t)
  PROVE  CacheInv'
<1>1. /\ Frame(t) /\ Writing(t) /\ Local(t)' /\ item' = item /\ theca \in Header
      /\ theca'.updateSRP = theca.updateSRP + 1 /\ theca'.segmentSRP = theca.segmentSRP
      /\ pc[t] = "segmented" /\ pc'[t] = "published"
  BY DEF Quiet, Frame, SameData, Local, Writing, CacheInv, Types, Goto, At,
      Job, Label, ReadLabel, RefreshLabel, LockLabel, StoreLabel, CriticalLabel, CommitMetadata,
      Header
<1>2. \A u \in Thread \ {t} : Local(u)' /\ ItemInv(u)'
  BY <1>1, FrameLocal, OnlyItem
<1>3. theca.updateSRP \in Nat /\ theca.segmentSRP \in Nat
  BY <1>1 DEF Header
<1>4. /\ theca.updateSRP + 1 \in Item
      /\ item[theca.updateSRP + 1] = theca.segmentSRP /\ theca.segmentSRP > 0
      /\ \A j \in 1..theca.updateSRP : item[j] < theca.segmentSRP
  BY <1>1 DEF CacheInv, ItemInv, At
<1>5. ItemInv(t)'
  BY <1>1 DEF ItemInv, At
<1>6. \A j \in 1..theca.updateSRP : item[j] \in 1..theca.segmentSRP
  BY DEF CacheInv, VisibleItemsAreWhole
<1>7. \A j \in 1..theca.updateSRP + 1 : j \in 1..theca.updateSRP \/ j = theca.updateSRP + 1
  BY <1>3
<1>8. \A j, k \in 1..theca.updateSRP : j # k => item[j] # item[k]
  BY DEF CacheInv, VisibleItemsAreWhole
<1>9. VisibleItemsAreWhole'
  BY <1>1, <1>3, <1>4, <1>6, <1>7, <1>8 DEF VisibleItemsAreWhole
<1>10. theca'.updateSRP <= MaxItems
  BY <1>1, <1>4, CacheAssumption DEF Item
<1> QED BY <1>1, <1>2, <1>5, <1>9, <1>10 DEF CacheInv, Local

\* A JVM that dies takes only its own threads along, and its hold on the file lock.
LEMMA CrashStep == ASSUME NEW v \in VM, Types, CacheInv, Crash(v) PROVE CacheInv'
<1>1. SameData
  BY DEF Crash, SameData
<1>2. VisibleItemsAreWhole' /\ theca'.updateSRP <= MaxItems
  BY <1>1, SameItems
<1>3. ASSUME NEW t \in Thread, VMOf[t] = v PROVE Local(t)' /\ ItemInv(t)'
  <2>1. pc'[t] = "dead"
    BY <1>3 DEF Crash
  <2> QED BY <2>1 DEF Local, ItemInv, Writing, At,
      Label, ReadLabel, RefreshLabel, LockLabel, StoreLabel, CriticalLabel
<1>4. ASSUME NEW t \in Thread, VMOf[t] # v PROVE Local(t)' /\ ItemInv(t)'
  <2>1. pc'[t] = pc[t] /\ job'[t] = job[t]
    BY <1>4 DEF Crash
  <2>2. writeMutex = t => writeMutex' = t
    BY <1>4 DEF Crash
  <2>3. Writing(t)' <=> Writing(t)
    BY <2>1 DEF Writing
  <2>4. Local(t)
    BY DEF CacheInv, Local
  <2>5. Local(t)'
    BY <2>1, <2>2, <2>3, <2>4 DEF Local
  <2> QED BY <1>1, <2>1, <2>5, SameItems
<1> QED BY <1>2, <1>3, <1>4 DEF CacheInv, Local

\* CacheInv holds when the cache is new and empty.
LEMMA InitInv == Init => CacheInv
<1> SUFFICES ASSUME Init PROVE CacheInv
  OBVIOUS
<1>1. theca.updateSRP = 0 /\ MaxItems \in Nat
  BY CacheAssumption DEF Init
<1>2. VisibleItemsAreWhole
  BY <1>1 DEF VisibleItemsAreWhole
<1>3. \A t \in Thread : pc[t] = "new"
  BY DEF Init
<1> QED BY <1>1, <1>2, <1>3 DEF CacheInv, ItemInv, Writing, At,
      Label, ReadLabel, RefreshLabel, LockLabel, StoreLabel, CriticalLabel

\* CacheInv is preserved by every step.
LEMMA NextInv == Types /\ CacheInv /\ [Next]_vars => CacheInv'
<1> SUFFICES ASSUME Types, CacheInv, [Next]_vars PROVE CacheInv'
  OBVIOUS
<1>1. CASE UNCHANGED vars
  BY <1>1 DEF vars, CacheInv, ItemInv, Writing, At, VisibleItemsAreWhole
<1>2. ASSUME NEW t \in Thread, Step(t) PROVE CacheInv'
  <2>1. CASE Storer(t)
    BY <2>1, WriteStep, CriticalStep, SegmentStep, MetadataStep, WriterQuiet, QuietStep DEF Storer
  <2>2. CASE ~Storer(t)
    BY <1>2, <2>2, ReaderQuiet, RefresherQuiet, StarterQuiet, LockerQuiet, CheckerQuiet,
       StaleQuiet, WriterQuiet, QuietStep DEF Step
  <2> QED BY <2>1, <2>2
<1> QED BY <1>1, <1>2, CrashStep DEF Next

\* In every behaviour, whatever JVMs die and wherever, every visible item of the cache is
\* completely written and has a committed ROM class block of its own.
THEOREM CacheIsWhole == Spec => []VisibleItemsAreWhole
<1>1. Init => Types /\ CacheInv
  BY InitTypes, InitInv
<1>2. Types /\ CacheInv /\ [Next]_vars => (Types /\ CacheInv)'
  BY NextTypes, NextInv
<1>3. CacheInv => VisibleItemsAreWhole
  BY DEF CacheInv
<1> QED BY <1>1, <1>2, <1>3, PTL DEF Spec

-----------------------------------------------------------------------------
(* The readers that are alive are counted, provided no live reader outlasts *)
(* the patience of a lock.                                                  *)

Readers == {t \in Thread : Counted(t)}

\* A step of t that counts and uncounts nobody.
Steady(t) ==
  /\ \A u \in Thread \ {t} : pc'[u] = pc[u] /\ job'[u] = job[u]
  /\ Counted(t)' <=> Counted(t)
  /\ theca'.readerCount = theca.readerCount

\* A step of enterReadMutex that does not move the count is steady.
LEMMA ReaderSteady ==
  ASSUME NEW t \in Thread, Types, CacheInv, (ReadTest(t) \/ ReadAcquire(t) \/ ReadRelease(t))
  PROVE  Steady(t)
<1> USE CacheAssumption DEF Steady, Counted, Frame, CacheInv, Types, Goto, At,
      Job, Label, ReadLabel, RefreshLabel, LockLabel, StoreLabel, CriticalLabel
<1>1. CASE ReadTest(t)
  BY <1>1 DEF ReadTest
<1>2. CASE ReadAcquire(t)
  BY <1>2 DEF ReadAcquire
<1>3. CASE ReadRelease(t)
  BY <1>3 DEF ReadRelease
<1> QED BY <1>1, <1>2, <1>3, Zenon

\* A step of refreshHashtables is steady.
LEMMA RefresherSteady ==
  ASSUME NEW t \in Thread, Types, CacheInv, Refresher(t)
  PROVE  Steady(t)
<1> USE CacheAssumption DEF Steady, Counted, Frame, CacheInv, Types, Goto, At,
      Job, Label, ReadLabel, RefreshLabel, LockLabel, StoreLabel, CriticalLabel
<1>1. CASE Refresh(t)
  BY <1>1 DEF Refresh
<1>2. CASE ReadItem(t)
  BY <1>2 DEF ReadItem
<1>3. CASE ReadDone(t)
  BY <1>3 DEF ReadDone, Refreshed
<1> QED BY <1>1, <1>2, <1>3, Zenon DEF Refresher

\* A step of startup is steady.
LEMMA StarterSteady ==
  ASSUME NEW t \in Thread, Types, CacheInv, Starter(t)
  PROVE  Steady(t)
<1> USE CacheAssumption DEF Steady, Counted, Frame, CacheInv, Types, Goto, At,
      Job, Label, ReadLabel, RefreshLabel, LockLabel, StoreLabel, CriticalLabel
<1>1. CASE StartCache(t)
  BY <1>1 DEF StartCache, Header
<1>2. CASE StartRead(t)
  BY <1>2 DEF StartRead
<1>3. CASE Attach(t)
  BY <1>3 DEF Attach
<1> QED BY <1>1, <1>2, <1>3, Zenon DEF Starter

\* A step of doLockCache that does not reset the count is steady.
LEMMA LockerSteady ==
  ASSUME NEW t \in Thread, Types, CacheInv, (doLockCache(t) \/ LockGranted(t))
  PROVE  Steady(t)
<1> USE CacheAssumption DEF Steady, Counted, Frame, CacheInv, Types, Goto, At,
      Job, Label, ReadLabel, RefreshLabel, LockLabel, StoreLabel, CriticalLabel
<1>1. CASE doLockCache(t)
  BY <1>1 DEF doLockCache, Header
<1>2. CASE LockGranted(t)
  BY <1>2 DEF LockGranted
<1> QED BY <1>1, <1>2, Zenon

\* A step of checkForCrash is steady.
LEMMA CheckerSteady ==
  ASSUME NEW t \in Thread, Types, CacheInv, Checker(t)
  PROVE  Steady(t)
<1> USE CacheAssumption DEF Steady, Counted, Frame, CacheInv, Types, Goto, At,
      Job, Label, ReadLabel, RefreshLabel, LockLabel, StoreLabel, CriticalLabel
<1>1. CASE checkForCrash(t)
  BY <1>1 DEF checkForCrash
<1>2. CASE Reset(t)
  BY <1>2 DEF Reset, Header
<1> QED BY <1>1, <1>2, Zenon DEF Checker

\* A step of storing an item is steady.
LEMMA StorerSteady ==
  ASSUME NEW t \in Thread, Types, CacheInv, Storer(t)
  PROVE  Steady(t)
<1> USE CacheAssumption DEF Steady, Counted, Frame, CacheInv, Types, Goto, At,
      Job, Label, ReadLabel, RefreshLabel, LockLabel, StoreLabel, CriticalLabel
<1>1. CASE Allocate(t)
  BY <1>1 DEF Allocate
<1>3. CASE Fill(t)
  BY <1>3, Zenon DEF Fill, Header
<1>4. CASE startCriticalUpdate(t)
  BY <1>4, Zenon DEF startCriticalUpdate, Header
<1>5. CASE CommitSegment(t)
  BY <1>5, Zenon DEF CommitSegment, Header
<1>6. CASE CommitMetadata(t)
  BY <1>6, Zenon DEF CommitMetadata, Header
<1>7. CASE CommitCount(t)
  BY <1>7, Zenon DEF CommitCount, Header
<1>8. CASE CommitSeen(t)
  BY <1>8, Zenon DEF CommitSeen
<1>9. CASE endCriticalUpdate(t)
  BY <1>9, Zenon DEF endCriticalUpdate, Header
<1> QED BY <1>1, <1>3, <1>4, <1>5, <1>6, <1>7, <1>8, <1>9, Zenon DEF Storer

\* A step of markStale is steady.
LEMMA StaleSteady ==
  ASSUME NEW t \in Thread, Types, CacheInv, Stale(t)
  PROVE  Steady(t)
<1> USE CacheAssumption DEF Steady, Counted, Frame, CacheInv, Types, Goto, At,
      Job, Label, ReadLabel, RefreshLabel, LockLabel, StoreLabel, CriticalLabel
<1>1. CASE MarkHolding(t)
  BY <1>1, Zenon DEF MarkHolding
<1>2. CASE StartMark(t)
  BY <1>2, Zenon DEF StartMark, Header
<1>3. CASE MarkItem(t)
  BY <1>3, Zenon DEF MarkItem
<1>4. CASE EndMark(t)
  BY <1>4, Zenon DEF EndMark, Header
<1>5. CASE doUnlockCache(t)
  BY <1>5, Zenon DEF doUnlockCache, Header
<1> QED BY <1>1, <1>2, <1>3, <1>4, <1>5, Zenon DEF Stale

\* enterWriteMutex and exitWriteMutex are steady.
LEMMA MutexSteady ==
  ASSUME NEW t \in Thread, Types, CacheInv, EnterWrite(t) \/ ExitWrite(t)
  PROVE  Steady(t)
<1> USE CacheAssumption DEF Steady, Counted, Frame, CacheInv, Types, Goto, At,
      Job, Label, ReadLabel, RefreshLabel, LockLabel, StoreLabel, CriticalLabel
<1>1. CASE EnterWrite(t)
  BY <1>1, Zenon DEF EnterWrite
<1>2. CASE ExitWrite(t)
  BY <1>2, Zenon DEF ExitWrite, Header
<1> QED BY <1>1, <1>2, Zenon

\* The readers are finitely many, and so are those of the next state.
LEMMA ReadersFinite ==
  /\ IsFiniteSet(Readers) /\ Cardinality(Readers) \in Nat
  /\ IsFiniteSet(Readers') /\ Cardinality(Readers') \in Nat
<1>1. Readers \subseteq Thread /\ Readers' \subseteq Thread /\ IsFiniteSet(Thread)
  BY CacheAssumption, Zenon DEF Readers
<1> QED BY <1>1, FS_Subset, FS_CardinalityType, Zenon

\* A steady step keeps the readers counted.
LEMMA SteadyStep ==
  ASSUME NEW t \in Thread, ReadersAreCounted, Steady(t)
  PROVE  ReadersAreCounted'
<1>1. \A u \in Thread : Counted(u)' <=> Counted(u)
  BY Zenon DEF Steady, Counted
<1>2. Readers' = Readers
  BY <1>1, Zenon DEF Readers
<1> QED BY <1>2, Zenon DEF ReadersAreCounted, Readers, Steady

\* A reader that enters, or comes back from a lock, is counted.
LEMMA CountStep ==
  ASSUME NEW t \in Thread, Types, CacheInv, ReadersAreCounted, EnterRead(t) \/ ReadCount(t)
  PROVE  ReadersAreCounted'
<1>1. /\ theca'.readerCount = theca.readerCount + 1 /\ theca.readerCount \in Int
      /\ \A u \in Thread \ {t} : pc'[u] = pc[u] /\ job'[u] = job[u]
      /\ ~Counted(t) /\ Counted(t)'
  BY Zenon DEF EnterRead, ReadCount, incReaderCount, Counted, Types, Header, Goto, At,
      Label, ReadLabel, RefreshLabel, LockLabel, StoreLabel, CriticalLabel
<1>2. Readers' = Readers \cup {t} /\ t \notin Readers
  BY <1>1, Zenon DEF Readers, Counted
<1>3. Cardinality(Readers') = Cardinality(Readers) + 1
  BY <1>2, ReadersFinite, FS_AddElement, Zenon
<1>4. Cardinality(Readers) <= theca.readerCount
  BY Zenon DEF ReadersAreCounted, Readers
<1>5. Cardinality(Readers') <= theca'.readerCount
  BY <1>1, <1>3, <1>4, ReadersFinite
<1> QED BY <1>5, Zenon DEF ReadersAreCounted, Readers

\* A reader that leaves, or backs off from a lock, is uncounted: the count it leaves is not zero.
LEMMA UncountStep ==
  ASSUME NEW t \in Thread, Types, CacheInv, ReadersAreCounted, ReadBackOff(t) \/ ExitRead(t)
  PROVE  ReadersAreCounted'
<1>1. /\ theca'.readerCount = (IF theca.readerCount = 0 THEN 0 ELSE theca.readerCount - 1)
      /\ theca.readerCount \in Int
      /\ \A u \in Thread \ {t} : pc'[u] = pc[u] /\ job'[u] = job[u]
      /\ Counted(t) /\ ~Counted(t)'
  BY Zenon DEF ReadBackOff, ExitRead, decReaderCount, Counted, Types, Header, Goto, At,
      Label, ReadLabel, RefreshLabel, LockLabel, StoreLabel, CriticalLabel
<1>2. Readers' = Readers \ {t} /\ t \in Readers
  BY <1>1, Zenon DEF Readers, Counted
<1>3. Cardinality(Readers') = Cardinality(Readers) - 1
  BY <1>2, ReadersFinite, FS_RemoveElement, Zenon
<1>4. Cardinality(Readers) <= theca.readerCount
  BY Zenon DEF ReadersAreCounted, Readers
<1>5. Cardinality(Readers') <= theca'.readerCount
  BY <1>1, <1>3, <1>4, ReadersFinite
<1> QED BY <1>5, Zenon DEF ReadersAreCounted, Readers

\* A lock that runs out of patience resets the count when no reader is alive.
LEMMA WhackStep ==
  ASSUME NEW t \in Thread, Types, ~SlowReaders, LockWhack(t)
  PROVE  ReadersAreCounted'
<1>1. /\ theca'.readerCount = 0
      /\ \A u \in Thread : ~Counted(u)'
  BY Zenon DEF LockWhack, Counted, Types, Header, Goto, At,
      Label, ReadLabel, RefreshLabel, LockLabel, StoreLabel, CriticalLabel
<1>2. Readers' = {}
  BY <1>1, Zenon DEF Readers
<1>3. Cardinality(Readers') = 0
  BY <1>2, FS_EmptySet, Zenon
<1> QED BY <1>1, <1>3 DEF ReadersAreCounted, Readers

\* A JVM that dies leaves fewer readers, and the count as it is.
LEMMA CrashCount ==
  ASSUME NEW v \in VM, Types, ReadersAreCounted, Crash(v)
  PROVE  ReadersAreCounted'
<1>1. \A u \in Thread : Counted(u)' => Counted(u)
  BY Zenon DEF Crash, Counted, Label, ReadLabel, RefreshLabel, LockLabel, StoreLabel, CriticalLabel
<1>2. Readers' \subseteq Readers
  BY <1>1, Zenon DEF Readers
<1>3. Cardinality(Readers') <= Cardinality(Readers)
  BY <1>2, ReadersFinite, FS_Subset, Zenon
<1>4. theca' = theca /\ theca.readerCount \in Int
  BY Zenon DEF Crash, Types, Header
<1>5. Cardinality(Readers) <= theca.readerCount
  BY Zenon DEF ReadersAreCounted, Readers
<1>6. Cardinality(Readers') <= theca'.readerCount
  BY <1>3, <1>4, <1>5, ReadersFinite
<1> QED BY <1>6, Zenon DEF ReadersAreCounted, Readers

\* Every step keeps the live readers counted.
LEMMA NextCount ==
  ASSUME ~SlowReaders, Types, CacheInv, ReadersAreCounted, [Next]_vars
  PROVE  ReadersAreCounted'
<1>1. CASE UNCHANGED vars
  <2>1. Readers' = Readers
    BY <1>1, Zenon DEF vars, Readers, Counted
  <2> QED BY <1>1, <2>1, Zenon DEF vars, ReadersAreCounted, Readers
<1>2. ASSUME NEW t \in Thread, Step(t) PROVE ReadersAreCounted'
  <2>1. CASE Reader(t)
    BY <2>1, CountStep, UncountStep, ReaderSteady, SteadyStep, Zenon DEF Reader
  <2>2. CASE Locker(t)
    BY <2>2, WhackStep, LockerSteady, SteadyStep, Zenon DEF Locker
  <2>3. CASE ~Reader(t) /\ ~Locker(t)
    BY <1>2, <2>3, RefresherSteady, StarterSteady, CheckerSteady, StorerSteady, StaleSteady,
       MutexSteady, SteadyStep, Zenon DEF Step
  <2> QED BY <2>1, <2>2, <2>3, Zenon
<1> QED BY <1>1, <1>2, CrashCount, Zenon DEF Next

\* When no live reader outlasts the patience of a lock, readerCount counts every live reader,
\* whatever JVMs die: a lock is granted only when all of them have left.
THEOREM LiveReadersAreCounted == ~SlowReaders => (Spec => []ReadersAreCounted)
<1> SUFFICES ASSUME ~SlowReaders PROVE Spec => []ReadersAreCounted
  OBVIOUS
<1>1. Init => Types /\ CacheInv
  BY InitTypes, InitInv, Zenon
<1>2. Init => ReadersAreCounted
  <2> SUFFICES ASSUME Init PROVE ReadersAreCounted
    OBVIOUS
  <2>1. Readers = {} /\ theca.readerCount = 0
    BY Zenon DEF Init, Readers, Counted, Label, ReadLabel, RefreshLabel, LockLabel, StoreLabel,
        CriticalLabel
  <2> QED BY <2>1, FS_EmptySet DEF ReadersAreCounted, Readers
<1>3. Types /\ CacheInv /\ [Next]_vars => (Types /\ CacheInv)'
  BY NextTypes, NextInv, Zenon
<1>4. Types /\ CacheInv /\ ReadersAreCounted /\ [Next]_vars => ReadersAreCounted'
  BY NextCount, Zenon
<1> QED BY <1>1, <1>2, <1>3, <1>4, PTL DEF Spec
-----------------------------------------------------------------------------
(* The lock excludes the readers, provided no live reader outlasts the      *)
(* patience of a lock.                                                      *)

\* A reader that may use the items of the cache.
Inside(t) == job[t] = "read" /\ pc[t] \in {"finding"} \cup RefreshLabel

\* A thread whose lock was granted, up to the end of its walk over the items.
HasLock(t) ==
  /\ job[t] \in {"mark", "markHolding"}
  /\ pc[t] \in {"checkCrash", "resetting", "toMark", "marking"} \cup RefreshLabel

\* Only a thread that marks items stale locks the cache.
Locking(t) ==
  pc[t] \in {"locking", "lockWait", "toMark", "marking"} => job[t] \in {"mark", "markHolding"}

\* The inductive invariant: from the moment the lock is granted, as long as the cache stays
\* locked, no reader is inside.
AloneInv ==
  /\ \A t \in Thread : Locking(t)
  /\ \A t, u \in Thread : HasLock(t) /\ theca.locked => ~Inside(u)

\* A step of t that neither locks the cache, nor grants the lock, nor lets a reader in.
Mild(t) ==
  /\ \A u \in Thread \ {t} : pc'[u] = pc[u] /\ job'[u] = job[u]
  /\ theca'.locked => theca.locked
  /\ HasLock(t)' => HasLock(t)
  /\ Inside(t)' => Inside(t)
  /\ Locking(t)'

\* A step of enterReadMutex that lets nobody in, or of exitReadMutex, is mild.
LEMMA ReaderMild ==
  ASSUME NEW t \in Thread, Types, CacheInv, AloneInv,
         EnterRead(t) \/ ReadBackOff(t) \/ ReadAcquire(t) \/ ReadCount(t) \/ ExitRead(t)
  PROVE  Mild(t)
<1> USE DEF Mild, Inside, HasLock, Locking, AloneInv, CacheInv, Types, Goto, At, Job,
      Label, ReadLabel, RefreshLabel, LockLabel, StoreLabel, CriticalLabel
<1>1. CASE EnterRead(t)
  BY <1>1, Zenon DEF EnterRead, incReaderCount, Header
<1>2. CASE ReadBackOff(t)
  BY <1>2, Zenon DEF ReadBackOff, decReaderCount, Header
<1>3. CASE ReadAcquire(t)
  BY <1>3, Zenon DEF ReadAcquire
<1>4. CASE ReadCount(t)
  BY <1>4, Zenon DEF ReadCount, incReaderCount, Header
<1>5. CASE ExitRead(t)
  BY <1>5, Zenon DEF ExitRead, decReaderCount, Header
<1> QED BY <1>1, <1>2, <1>3, <1>4, <1>5, Zenon

\* A step of refreshHashtables is mild.
LEMMA RefresherMild ==
  ASSUME NEW t \in Thread, Types, CacheInv, AloneInv,
         Refresher(t)
  PROVE  Mild(t)
<1> USE DEF Mild, Inside, HasLock, Locking, AloneInv, CacheInv, Types, Goto, At, Job,
      Label, ReadLabel, RefreshLabel, LockLabel, StoreLabel, CriticalLabel
<1>1. CASE Refresh(t)
  BY <1>1, Zenon DEF Refresh
<1>2. CASE ReadItem(t)
  BY <1>2, Zenon DEF ReadItem
<1>3. CASE ReadDone(t)
  BY <1>3, SMTT(30) DEF ReadDone, Refreshed
<1> QED BY <1>1, <1>2, <1>3, Zenon DEF Refresher

\* A step of startup is mild.
LEMMA StarterMild ==
  ASSUME NEW t \in Thread, Types, CacheInv, AloneInv,
         Starter(t)
  PROVE  Mild(t)
<1> USE DEF Mild, Inside, HasLock, Locking, AloneInv, CacheInv, Types, Goto, At, Job,
      Label, ReadLabel, RefreshLabel, LockLabel, StoreLabel, CriticalLabel
<1>1. CASE StartCache(t)
  BY <1>1, Zenon DEF StartCache, Header
<1>2. CASE StartRead(t)
  BY <1>2, Zenon DEF StartRead
<1>3. CASE Attach(t)
  BY <1>3, Zenon DEF Attach
<1> QED BY <1>1, <1>2, <1>3, Zenon DEF Starter

\* A step of checkForCrash is mild.
LEMMA CheckerMild ==
  ASSUME NEW t \in Thread, Types, CacheInv, AloneInv,
         Checker(t)
  PROVE  Mild(t)
<1> USE DEF Mild, Inside, HasLock, Locking, AloneInv, CacheInv, Types, Goto, At, Job,
      Label, ReadLabel, RefreshLabel, LockLabel, StoreLabel, CriticalLabel
<1>1. CASE checkForCrash(t)
  BY <1>1, Zenon DEF checkForCrash
<1>2. CASE Reset(t)
  BY <1>2, SMTT(30) DEF Reset, Header
<1> QED BY <1>1, <1>2, Zenon DEF Checker

\* A step of storing an item is mild.
LEMMA StorerMild ==
  ASSUME NEW t \in Thread, Types, CacheInv, AloneInv,
         Storer(t)
  PROVE  Mild(t)
<1> USE DEF Mild, Inside, HasLock, Locking, AloneInv, CacheInv, Types, Goto, At, Job,
      Label, ReadLabel, RefreshLabel, LockLabel, StoreLabel, CriticalLabel
<1>1. CASE Allocate(t)
  BY <1>1, Zenon DEF Allocate
<1>3. CASE Fill(t)
  BY <1>3, Zenon DEF Fill
<1>4. CASE startCriticalUpdate(t)
  BY <1>4, Zenon DEF startCriticalUpdate, Header
<1>5. CASE CommitSegment(t)
  BY <1>5, Zenon DEF CommitSegment, Header
<1>6. CASE CommitMetadata(t)
  BY <1>6, Zenon DEF CommitMetadata, Header
<1>7. CASE CommitCount(t)
  BY <1>7, Zenon DEF CommitCount, Header
<1>8. CASE CommitSeen(t)
  BY <1>8, Zenon DEF CommitSeen
<1>9. CASE endCriticalUpdate(t)
  BY <1>9, SMTT(30) DEF endCriticalUpdate, Header
<1> QED BY <1>1, <1>3, <1>4, <1>5, <1>6, <1>7, <1>8, <1>9, Zenon DEF Storer

\* A step of markStale is mild.
LEMMA StaleMild ==
  ASSUME NEW t \in Thread, Types, CacheInv, AloneInv,
         Stale(t)
  PROVE  Mild(t)
<1> USE DEF Mild, Inside, HasLock, Locking, AloneInv, CacheInv, Types, Goto, At, Job,
      Label, ReadLabel, RefreshLabel, LockLabel, StoreLabel, CriticalLabel
<1>1. CASE MarkHolding(t)
  BY <1>1, Zenon DEF MarkHolding
<1>2. CASE StartMark(t)
  BY <1>2, Zenon DEF StartMark, Header
<1>3. CASE MarkItem(t)
  BY <1>3, Zenon DEF MarkItem
<1>4. CASE EndMark(t)
  BY <1>4, Zenon DEF EndMark, Header
<1>5. CASE doUnlockCache(t)
  BY <1>5, Zenon DEF doUnlockCache, Header
<1> QED BY <1>1, <1>2, <1>3, <1>4, <1>5, Zenon DEF Stale

\* enterWriteMutex and exitWriteMutex are mild.
LEMMA MutexMild ==
  ASSUME NEW t \in Thread, Types, CacheInv, AloneInv,
         EnterWrite(t) \/ ExitWrite(t)
  PROVE  Mild(t)
<1> USE DEF Mild, Inside, HasLock, Locking, AloneInv, CacheInv, Types, Goto, At, Job,
      Label, ReadLabel, RefreshLabel, LockLabel, StoreLabel, CriticalLabel
<1>1. CASE EnterWrite(t)
  BY <1>1, Zenon DEF EnterWrite
<1>2. CASE ExitWrite(t)
  BY <1>2, Zenon DEF ExitWrite, Header
<1> QED BY <1>1, <1>2, Zenon

\* A mild step keeps the readers out.
LEMMA MildStep == ASSUME NEW t \in Thread, AloneInv, Mild(t) PROVE AloneInv'
<1>1. \A u \in Thread : Locking(u)'
  BY Zenon DEF Mild, AloneInv, Locking
<1>2. \A u \in Thread : (HasLock(u)' => HasLock(u)) /\ (Inside(u)' => Inside(u))
  BY Zenon DEF Mild, HasLock, Inside
<1>3. \A s, u \in Thread : HasLock(s)' /\ theca'.locked => ~Inside(u)'
  BY <1>2, Zenon DEF Mild, AloneInv
<1> QED BY <1>1, <1>3, Zenon DEF AloneInv

\* A thread whose lock was granted holds the write mutex.
LEMMA LockIsWriting == ASSUME NEW t \in Thread, HasLock(t) PROVE Writing(t)
  BY Zenon DEF HasLock, Writing, RefreshLabel, LockLabel, StoreLabel, CriticalLabel

\* While another thread holds the write mutex nobody else has the lock.
LEMMA OneLock ==
  ASSUME NEW t \in Thread, CacheInv, Writing(t), NEW u \in Thread \ {t}
  PROVE  ~HasLock(u)
  BY LockIsWriting, Zenon DEF CacheInv

\* Locking the cache, under the write mutex, grants the lock to nobody yet.
LEMMA LockStep ==
  ASSUME NEW t \in Thread, Types, CacheInv, AloneInv, doLockCache(t)
  PROVE  AloneInv'
<1>1. /\ \A u \in Thread \ {t} : pc'[u] = pc[u] /\ job'[u] = job[u]
      /\ Writing(t) /\ ~HasLock(t)' /\ Locking(t)'
  BY Zenon DEF doLockCache, Writing, HasLock, Locking, AloneInv, Types, Goto, At, Job,
      Label, ReadLabel, RefreshLabel, LockLabel, StoreLabel, CriticalLabel
<1>2. \A u \in Thread : ~HasLock(u)'
  BY <1>1, OneLock, Zenon DEF HasLock
<1>3. \A u \in Thread : Locking(u)'
  BY <1>1, Zenon DEF AloneInv, Locking
<1> QED BY <1>2, <1>3, Zenon DEF AloneInv

\* The lock is granted when no reader is counted.
LEMMA GrantStep ==
  ASSUME NEW t \in Thread, Types, CacheInv, AloneInv, ReadersAreCounted, ~SlowReaders,
         LockGranted(t) \/ LockWhack(t)
  PROVE  AloneInv'
<1>1. \A u \in Thread : ~Counted(u)
  <2>1. CASE LockGranted(t)
    <3>1. Cardinality(Readers) <= 0
      BY <2>1, Zenon DEF ReadersAreCounted, Readers, LockGranted
    <3>2. Cardinality(Readers) = 0
      BY <3>1, ReadersFinite
    <3>3. Readers = {}
      BY <3>2, ReadersFinite, FS_EmptySet, Zenon
    <3> QED BY <3>3, Zenon DEF Readers
  <2>2. CASE LockWhack(t)
    BY <2>2, Zenon DEF LockWhack
  <2> QED BY <2>1, <2>2, Zenon
<1>2. /\ \A u \in Thread \ {t} : pc'[u] = pc[u] /\ job'[u] = job[u]
      /\ pc[t] = "lockWait" /\ pc'[t] = "checkCrash" /\ job' = job
  BY Zenon DEF LockGranted, LockWhack, Types, Goto, At
<1>3. \A u \in Thread \ {t} : ~Inside(u)'
  BY <1>1, <1>2, Zenon DEF Inside, Counted
<1>4. ~Inside(t)'
  BY <1>2, Zenon DEF Inside, RefreshLabel
<1>5. \A u \in Thread : Locking(u)'
  BY <1>2, Zenon DEF AloneInv, Locking
<1> QED BY <1>3, <1>4, <1>5, Zenon DEF AloneInv

\* A reader gets in when the cache is not locked, or with the write mutex in its hands.
LEMMA InsideStep ==
  ASSUME NEW t \in Thread, Types, CacheInv, AloneInv, ReadTest(t) \/ ReadRelease(t)
  PROVE  AloneInv'
<1>1. /\ \A u \in Thread \ {t} : pc'[u] = pc[u] /\ job'[u] = job[u]
      /\ theca' = theca /\ ~HasLock(t)' /\ Locking(t)'
  BY Zenon DEF ReadTest, ReadRelease, HasLock, Locking, CacheInv, Types, Goto, At, Job,
      Label, ReadLabel, RefreshLabel, LockLabel, StoreLabel, CriticalLabel
<1>2. \A u \in Thread : Locking(u)'
  BY <1>1, Zenon DEF AloneInv, Locking
<1>3. \A u \in Thread : HasLock(u)' => HasLock(u)
  BY <1>1, Zenon DEF HasLock
<1>4. \A u \in Thread \ {t} : Inside(u)' => Inside(u)
  BY <1>1, Zenon DEF Inside
<1>5. CASE ~Inside(t)'
  BY <1>1, <1>2, <1>3, <1>4, <1>5, Zenon DEF AloneInv
<1>6. CASE ReadTest(t) /\ Inside(t)'
  <2>1. ~theca.locked
    BY <1>6, Zenon DEF ReadTest, Inside, Types, Goto, RefreshLabel
  <2> QED BY <1>1, <1>2, <2>1, Zenon DEF AloneInv
<1>7. CASE ReadRelease(t)
  <2>1. Writing(t)
    BY <1>7, Zenon DEF ReadRelease, At, Writing
  <2>2. \A u \in Thread : ~HasLock(u)'
    BY <1>1, <1>3, <2>1, OneLock, Zenon
  <2> QED BY <1>2, <2>2, Zenon DEF AloneInv
<1> QED BY <1>5, <1>6, <1>7, Zenon

\* A JVM that dies lets nobody in.
LEMMA CrashAlone == ASSUME NEW v \in VM, AloneInv, Crash(v) PROVE AloneInv'
<1>1. \A u \in Thread : \/ pc'[u] = pc[u] /\ job'[u] = job[u]
                        \/ pc'[u] = "dead"
  BY Zenon DEF Crash
<1>2. \A u \in Thread : (HasLock(u)' => HasLock(u)) /\ (Inside(u)' => Inside(u))
  BY <1>1, Zenon DEF HasLock, Inside, RefreshLabel
<1>3. \A u \in Thread : Locking(u)'
  BY <1>1, Zenon DEF Locking, AloneInv
<1>4. theca' = theca
  BY Zenon DEF Crash
<1> QED BY <1>2, <1>3, <1>4, Zenon DEF AloneInv

\* Every step keeps the readers out of a locked cache.
LEMMA NextAlone ==
  ASSUME ~SlowReaders, Types, CacheInv, ReadersAreCounted, AloneInv, [Next]_vars
  PROVE  AloneInv'
<1>1. CASE UNCHANGED vars
  BY <1>1, Zenon DEF vars, AloneInv, HasLock, Inside, Locking
<1>2. ASSUME NEW t \in Thread, Step(t) PROVE AloneInv'
  <2>1. CASE Reader(t)
    BY <2>1, InsideStep, ReaderMild, MildStep, Zenon DEF Reader
  <2>2. CASE Locker(t)
    BY <2>2, LockStep, GrantStep, Zenon DEF Locker
  <2>3. CASE ~Reader(t) /\ ~Locker(t)
    BY <1>2, <2>3, RefresherMild, StarterMild, CheckerMild, StorerMild, StaleMild, MutexMild,
       MildStep, ZenonT(40) DEF Step
  <2> QED BY <2>1, <2>2, <2>3, Zenon
<1> QED BY <1>1, <1>2, CrashAlone, Zenon DEF Next

\* When no live reader outlasts the patience of a lock, nobody reads the items of the locked
\* cache while a thread marks them stale, whatever JVMs die.
THEOREM MarkersAreAlone == ~SlowReaders => (Spec => []MarkerIsAlone)
<1> SUFFICES ASSUME ~SlowReaders PROVE Spec => []MarkerIsAlone
  OBVIOUS
<1>1. Init => Types /\ CacheInv
  BY InitTypes, InitInv, Zenon
<1>2. Spec => []ReadersAreCounted
  BY LiveReadersAreCounted, Zenon
<1>3. Init => AloneInv
  BY Zenon DEF Init, AloneInv, Locking, HasLock, Inside, RefreshLabel
<1>4. Types /\ CacheInv /\ [Next]_vars => (Types /\ CacheInv)'
  BY NextTypes, NextInv, Zenon
<1>5. Types /\ CacheInv /\ ReadersAreCounted /\ AloneInv /\ [Next]_vars => AloneInv'
  BY NextAlone, Zenon
<1>6. AloneInv => MarkerIsAlone
  BY Zenon DEF AloneInv, Locking, HasLock, Inside, MarkerIsAlone, At
<1> QED BY <1>1, <1>2, <1>3, <1>4, <1>5, <1>6, PTL DEF Spec

-----------------------------------------------------------------------------
(* A writer knows every item before it stores another. *)

\* The hypotheses.  Without the first a reset and a refresh of one JVM may interleave; without
\* the second its survivors rebuild their tables up to the count, and miss the last item.
OneThreadEach == \A t, u \in Thread : VMOf[t] = VMOf[u] => t = u
CountsWhatItPublishes == "published" \notin CrashLabel

CacheRec == [started : BOOLEAN, scan : Int, oldUpdateCount : Int, localCrashCntr : Int,
             known : SUBSET Int, lost : SUBSET Int,
             refreshMutex : Thread \cup {NoThread}]
OpRec == [expected : Int, read : Int, again : BOOLEAN]

\* The types of what the JVMs and their threads keep to themselves.
LocalTypes == cc \in [VM -> CacheRec] /\ op \in [Thread -> OpRec]

\* Every published item is counted, except between the two stores.
UpdatesInv ==
  /\ 0 <= theca.updateCount
  /\ \/ /\ \A t \in Thread : pc[t] # "published"
        /\ theca.updateSRP = theca.updateCount
     \/ /\ \E t \in Thread : pc[t] = "published"
        /\ theca.updateSRP = theca.updateCount + 1

\* Where the scan of a JVM agrees with the count of the updates it has seen.
Settled == {"new", "startRead", "idle", "finding", "refresh", "checkCrash", "exitWrite", "dead",
            "storing"} \cup LockLabel \cup ReadLabel

\* What the scan, the count of updates seen and the hash tables of a JVM say of each other, and of
\* the items that are visible (updateSRP) and counted (updateCount).
NoneRead(t) == op[t].read = 0

UpToDate(t) == cc[VMOf[t]].scan = theca.updateCount

SettledView(t) ==
  /\ cc[VMOf[t]].scan = cc[VMOf[t]].oldUpdateCount
  /\ cc[VMOf[t]].scan <= theca.updateCount
  /\ 1..cc[VMOf[t]].scan \subseteq Seen(VMOf[t])

ScanView(t) ==
  /\ op[t].read >= 0
  /\ cc[VMOf[t]].scan = cc[VMOf[t]].oldUpdateCount + op[t].read
  /\ cc[VMOf[t]].scan <= theca.updateCount
  /\ 1..cc[VMOf[t]].scan \subseteq Seen(VMOf[t])

Expects(t) ==
  \/ job[t] = "start" /\ op[t].expected = -1
  \/ /\ op[t].expected > 0
     /\ cc[VMOf[t]].scan + op[t].expected <= theca.updateCount
     /\ job[t] # "read" => cc[VMOf[t]].scan + op[t].expected = theca.updateCount

StoreView(t) ==
  /\ cc[VMOf[t]].scan = theca.updateSRP + 1
  /\ cc[VMOf[t]].oldUpdateCount = theca.updateCount
  /\ 1..theca.updateSRP \subseteq Seen(VMOf[t])

Stored(t) == theca.updateSRP + 1 \in Seen(VMOf[t])

CommitView(t) ==
  /\ cc[VMOf[t]].scan = theca.updateSRP
  /\ 1..theca.updateSRP \subseteq Seen(VMOf[t])

AllSeen(t) == cc[VMOf[t]].oldUpdateCount = theca.updateCount

MarkView(t) ==
  /\ cc[VMOf[t]].scan <= theca.updateCount
  /\ 1..theca.updateCount \subseteq Seen(VMOf[t])

\* Which of this holds at which place of the thread.
KnowInv(t) ==
  /\ pc[t] \notin {"reading", "readDone"} => NoneRead(t)
  /\ pc[t] \in Settled => SettledView(t)
  /\ pc[t] \in {"storing", "toMark", "unlocking"} => UpToDate(t)
  /\ pc[t] \in {"reading", "readDone"} => ScanView(t)
  /\ pc[t] = "reading" => Expects(t)
  /\ pc[t] = "readDone" /\ job[t] # "read" => UpToDate(t)
  /\ pc[t] \in {"allocated", "filled", "critical", "segmented"} => StoreView(t)
  /\ pc[t] \in {"filled", "critical", "segmented"} => Stored(t)
  /\ pc[t] \in {"published", "counted", "committed"} => CommitView(t)
  /\ pc[t] \in {"committed", "marking"} => AllSeen(t)
  /\ pc[t] = "marking" => MarkView(t)

\* The inductive invariant.
KnowledgeInv == LocalTypes /\ UpdatesInv /\ \A t \in Thread : KnowInv(t)

\* A step of t that leaves alone the other threads and what their JVMs keep.
Apart(t) ==
  \A u \in Thread \ {t} :
    pc'[u] = pc[u] /\ job'[u] = job[u] /\ op'[u] = op[u] /\ cc'[VMOf[u]] = cc[VMOf[u]]

SameCounts == theca'.updateCount = theca.updateCount /\ theca'.updateSRP = theca.updateSRP

\* A step of t that neither reads nor stores items: the JVM's view stays as it is.
Unmoved(t) ==
  /\ cc'[VMOf[t]].scan = cc[VMOf[t]].scan
  /\ cc'[VMOf[t]].oldUpdateCount = cc[VMOf[t]].oldUpdateCount
  /\ Seen(VMOf[t])' = Seen(VMOf[t])
  /\ op'[t].read = op[t].read

\* What a JVM and a thread keep at first: nothing read, nothing known.
LEMMA Fresh ==
  /\ NewCC \in CacheRec /\ NoOp \in OpRec
  /\ NoOp.read = 0 /\ NewCC.scan = 0 /\ NewCC.oldUpdateCount = 0 /\ 1..NewCC.scan = {}
<1>1. 0 \in Int /\ 1..0 = {}
  OBVIOUS
<1>2. NewCC \in CacheRec
  BY <1>1, Zenon DEF CacheRec, NewCC
<1>3. NoOp \in OpRec
  BY <1>1, Zenon DEF OpRec, NoOp
<1>4. NoOp.read = 0 /\ NewCC.scan = 0 /\ NewCC.oldUpdateCount = 0
  BY DEF NoOp, NewCC
<1> QED BY <1>1, <1>2, <1>3, <1>4, Zenon

\* Knowing one item more.
LEMMA OneMore ==
  ASSUME NEW n \in Int, NEW S, 1..n \subseteq S
  PROVE  1..(n + 1) \subseteq S \cup {n + 1}
  OBVIOUS

\* An update of one field of what a JVM or a thread keeps leaves the types.
LEMMA CacheFields ==
  ASSUME NEW f \in [VM -> CacheRec], NEW v \in VM
  PROVE  /\ \A i \in Int : [f EXCEPT ![v].scan = i] \in [VM -> CacheRec]
         /\ \A i \in Int : [f EXCEPT ![v].oldUpdateCount = i] \in [VM -> CacheRec]
         /\ \A i \in Int : [f EXCEPT ![v].localCrashCntr = i] \in [VM -> CacheRec]
         /\ \A s \in SUBSET Int : [f EXCEPT ![v].known = s] \in [VM -> CacheRec]
         /\ \A s \in SUBSET Int : [f EXCEPT ![v].lost = s] \in [VM -> CacheRec]
         /\ \A u \in Thread \cup {NoThread} : [f EXCEPT ![v].refreshMutex = u] \in [VM -> CacheRec]
         /\ [f EXCEPT ![v].started = TRUE] \in [VM -> CacheRec]
<1>1. \A i \in Int : [f EXCEPT ![v].scan = i] \in [VM -> CacheRec]
  BY Zenon DEF CacheRec
<1>2. \A i \in Int : [f EXCEPT ![v].oldUpdateCount = i] \in [VM -> CacheRec]
  BY Zenon DEF CacheRec
<1>3. \A i \in Int : [f EXCEPT ![v].localCrashCntr = i] \in [VM -> CacheRec]
  BY Zenon DEF CacheRec
<1>4. \A s \in SUBSET Int : [f EXCEPT ![v].known = s] \in [VM -> CacheRec]
  BY Zenon DEF CacheRec
<1>5. \A u \in Thread \cup {NoThread} : [f EXCEPT ![v].refreshMutex = u] \in [VM -> CacheRec]
  BY Zenon DEF CacheRec
<1>6. [f EXCEPT ![v].started = TRUE] \in [VM -> CacheRec]
  BY Zenon DEF CacheRec
<1>7. \A s \in SUBSET Int : [f EXCEPT ![v].lost = s] \in [VM -> CacheRec]
  BY Zenon DEF CacheRec
<1> QED BY <1>1, <1>2, <1>3, <1>4, <1>5, <1>6, <1>7, Zenon

\* The same for the local variables of a thread.
LEMMA OpFields ==
  ASSUME NEW f \in [Thread -> OpRec], NEW t \in Thread
  PROVE  /\ \A i \in Int : [f EXCEPT ![t].expected = i] \in [Thread -> OpRec]
         /\ \A i \in Int : [f EXCEPT ![t].read = i] \in [Thread -> OpRec]
         /\ [f EXCEPT ![t].again = TRUE] \in [Thread -> OpRec]
         /\ [f EXCEPT ![t].again = FALSE] \in [Thread -> OpRec]
<1>1. \A i \in Int : [f EXCEPT ![t].expected = i] \in [Thread -> OpRec]
  BY Zenon DEF OpRec
<1>2. \A i \in Int : [f EXCEPT ![t].read = i] \in [Thread -> OpRec]
  BY Zenon DEF OpRec
<1>3. [f EXCEPT ![t].again = TRUE] \in [Thread -> OpRec]
  BY Zenon DEF OpRec
<1>4. [f EXCEPT ![t].again = FALSE] \in [Thread -> OpRec]
  BY Zenon DEF OpRec
<1> QED BY <1>1, <1>2, <1>3, <1>3, <1>4, Zenon

\* What a step leaves alone keeps its view.
LEMMA SameView ==
  ASSUME NEW u, KnowInv(u), SameCounts, pc'[u] = pc[u], job'[u] = job[u], op'[u] = op[u],
         cc'[VMOf[u]] = cc[VMOf[u]]
  PROVE  KnowInv(u)'
<1>1. /\ NoneRead(u)' <=> NoneRead(u)
      /\ UpToDate(u)' <=> UpToDate(u)
      /\ SettledView(u)' <=> SettledView(u)
      /\ ScanView(u)' <=> ScanView(u)
  BY Zenon DEF SameCounts, NoneRead, UpToDate, SettledView, ScanView, Seen
<1>2. /\ Expects(u)' <=> Expects(u)
      /\ AllSeen(u)' <=> AllSeen(u)
      /\ MarkView(u)' <=> MarkView(u)
  BY Zenon DEF SameCounts, Expects, AllSeen, MarkView, Seen
<1>3. /\ StoreView(u)' <=> StoreView(u)
      /\ Stored(u)' <=> Stored(u)
      /\ CommitView(u)' <=> CommitView(u)
  BY Zenon DEF SameCounts, StoreView, Stored, CommitView, Seen
<1> QED BY <1>1, <1>2, <1>3, ZenonT(40) DEF KnowInv

\* A step that changes no count, and of a thread that is not between the two stores.
LEMMA CountsKept ==
  ASSUME NEW t \in Thread, UpdatesInv, SameCounts, Apart(t), pc[t] # "published",
         pc'[t] # "published"
  PROVE  UpdatesInv'
<1>1. \A u \in Thread : pc'[u] = "published" <=> pc[u] = "published"
  BY Zenon DEF Apart
<1> QED BY <1>1, Zenon DEF UpdatesInv, SameCounts

\* What such a step has to show.
Harmless(t) ==
  /\ LocalTypes' /\ Apart(t) /\ SameCounts /\ pc[t] # "published" /\ pc'[t] # "published"
  /\ KnowInv(t)'

\* A harmless step keeps the invariant.
LEMMA HarmlessStep ==
  ASSUME NEW t \in Thread, KnowledgeInv, Harmless(t)
  PROVE  KnowledgeInv'
<1>1. \A u \in Thread \ {t} : KnowInv(u)'
  BY SameView, Zenon DEF Harmless, Apart, KnowledgeInv
<1>2. UpdatesInv'
  BY CountsKept, Zenon DEF Harmless, KnowledgeInv
<1> QED BY <1>1, <1>2, Zenon DEF Harmless, KnowledgeInv

\* A thread that keeps its view may go on to any settled place but those of an up-to-date writer.
LEMMA Settles ==
  ASSUME NEW t \in Thread, KnowInv(t), SameCounts, Unmoved(t), pc[t] \in Settled,
         pc'[t] \in Settled \ {"storing", "toMark", "unlocking"}
  PROVE  KnowInv(t)'
<1>1. pc'[t] \notin {"reading", "readDone", "allocated", "filled", "critical", "segmented",
                     "published", "counted", "committed", "marking"}
      /\ pc[t] \notin {"reading", "readDone"}
  BY Zenon DEF Settled, LockLabel, ReadLabel
<1>2. NoneRead(t) /\ SettledView(t)
  BY <1>1, Zenon DEF KnowInv
<1>3. NoneRead(t)' /\ SettledView(t)'
  BY <1>2, Zenon DEF NoneRead, SettledView, SameCounts, Unmoved
<1> QED BY <1>1, <1>3, Zenon DEF KnowInv

\* What every step starts from.
LEMMA View ==
  ASSUME NEW t \in Thread, Types, KnowledgeInv
  PROVE  /\ theca.updateCount \in Int /\ 0 <= theca.updateCount /\ theca.updateSRP \in Nat
         /\ cc[VMOf[t]].scan \in Int /\ cc[VMOf[t]].oldUpdateCount \in Int
         /\ op[t].read \in Int /\ op[t].expected \in Int
         /\ KnowInv(t)
<1>1. /\ cc[VMOf[t]] \in CacheRec /\ op[t] \in OpRec /\ KnowInv(t)
      /\ theca \in Header /\ 0 <= theca.updateCount
  BY CacheAssumption, Zenon DEF KnowledgeInv, LocalTypes, UpdatesInv, Types
<1> QED BY <1>1, Zenon DEF CacheRec, OpRec, Header

\* Under the write mutex, but for the thread between the two stores, the counts agree.
LEMMA Even ==
  ASSUME NEW t \in Thread, CacheInv, UpdatesInv, Writing(t), pc[t] # "published"
  PROVE  theca.updateSRP = theca.updateCount
<1>1. \A u \in Thread : pc[u] # "published"
  BY Zenon DEF CacheInv, Writing, CriticalLabel
<1> QED BY <1>1, Zenon DEF UpdatesInv

\* The steps that neither read nor store items are harmless: startup, enterReadMutex and
\* exitReadMutex, enterWriteMutex and exitWriteMutex, the lock.
LEMMA SettledSteps ==
  ASSUME NEW t \in Thread, Types, KnowledgeInv, OneThreadEach,
         \/ StartCache(t) \/ Attach(t) \/ Reader(t) \/ EnterWrite(t) \/ Locker(t) \/ ExitWrite(t)
         \/ MarkHolding(t)
  PROVE  Harmless(t)
<1>1. /\ LocalTypes' /\ Apart(t) /\ SameCounts /\ Unmoved(t) /\ pc[t] \in Settled
      /\ pc'[t] \in Settled \ {"storing", "toMark", "unlocking"}
  <2> USE CacheAssumption DEF LocalTypes, CacheRec, OpRec, Apart, SameCounts, Unmoved, Settled, Seen,
        KnowledgeInv, OneThreadEach, Types, Goto, At,
        Label, ReadLabel, RefreshLabel, LockLabel, StoreLabel, CriticalLabel
  <2>1. CASE StartCache(t)
    <3>1. LocalTypes /\ VMOf[t] \in VM /\ theca \in Header
      OBVIOUS
    <3>2. Apart(t)
      BY <2>1, <3>1, Zenon DEF StartCache
    <3>3. SameCounts
      BY <2>1, <3>1, Zenon DEF StartCache, Header
    <3>6. cc' \in [VM -> CacheRec] /\ op' = op
      <4>1. theca.crashCntr \in Int
        BY <3>1, Zenon DEF Header
      <4> QED BY <2>1, <3>1, <4>1, CacheFields, Zenon DEF StartCache
    <3>4. Unmoved(t)
      BY <2>1, <3>1 DEF StartCache
    <3>5. pc[t] \in Settled /\ pc'[t] \in Settled \ {"storing", "toMark", "unlocking"}
      BY <2>1, Zenon DEF StartCache
    <3> QED BY <3>1, <3>2, <3>3, <3>4, <3>5, <3>6, Zenon
  <2>2. CASE Attach(t)
    BY <2>2, Zenon DEF Attach
  <2>3. CASE EnterRead(t)
    BY <2>3, Zenon DEF EnterRead, incReaderCount, Header
  <2>4. CASE ReadTest(t)
    BY <2>4, Zenon DEF ReadTest
  <2>5. CASE ReadBackOff(t)
    BY <2>5, Zenon DEF ReadBackOff, decReaderCount, Header
  <2>6. CASE ReadAcquire(t)
    BY <2>6, Zenon DEF ReadAcquire
  <2>7. CASE ReadCount(t)
    BY <2>7, Zenon DEF ReadCount, incReaderCount, Header
  <2>8. CASE ReadRelease(t)
    BY <2>8, Zenon DEF ReadRelease
  <2>9. CASE ExitRead(t)
    BY <2>9, Zenon DEF ExitRead, decReaderCount, Header
  <2>10. CASE EnterWrite(t)
    BY <2>10, Zenon DEF EnterWrite
  <2>11. CASE doLockCache(t)
    BY <2>11, Zenon DEF doLockCache, Header
  <2>12. CASE LockGranted(t)
    BY <2>12, Zenon DEF LockGranted
  <2>13. CASE LockWhack(t)
    BY <2>13, Zenon DEF LockWhack, Header
  <2>14. CASE ExitWrite(t)
    <3>1. LocalTypes /\ VMOf[t] \in VM /\ theca \in Header
      OBVIOUS
    <3>2. Apart(t)
      BY <2>14, <3>1, Zenon DEF ExitWrite
    <3>3. SameCounts
      BY <2>14, <3>1, Zenon DEF ExitWrite, Header
    <3>6. cc' \in [VM -> CacheRec] /\ op' = op
      BY <2>14, <3>1, CacheFields, Zenon DEF ExitWrite
    <3>4. Unmoved(t)
      BY <2>14, <3>1 DEF ExitWrite
    <3>5. pc[t] \in Settled /\ pc'[t] \in Settled \ {"storing", "toMark", "unlocking"}
      BY <2>14, Zenon DEF ExitWrite
    <3> QED BY <3>1, <3>2, <3>3, <3>4, <3>5, <3>6, Zenon
  <2>15. CASE MarkHolding(t)
    BY <2>15, Zenon DEF MarkHolding
  <2> QED BY <2>1, <2>2, <2>3, <2>4, <2>5, <2>6, <2>7, <2>8, <2>9, <2>10, <2>11, <2>12,
       <2>13, <2>14, <2>15, Zenon DEF Reader, Locker
<1>2. pc[t] # "published" /\ pc'[t] # "published"
  BY <1>1, Zenon DEF Settled, LockLabel, ReadLabel
<1>3. KnowInv(t)'
  BY <1>1, Settles, Zenon DEF KnowledgeInv
<1> QED BY <1>1, <1>2, <1>3, Zenon DEF Harmless

\* The first scan of a JVM starts from where it is.
LEMMA KnowStartRead ==
  ASSUME NEW t \in Thread, Types, CacheInv, KnowledgeInv, OneThreadEach, StartRead(t)
  PROVE  Harmless(t)
<1> DEFINE v == VMOf[t]
<1>1. /\ LocalTypes' /\ Apart(t) /\ SameCounts
      /\ pc[t] = "startRead" /\ pc'[t] = "reading" /\ job'[t] = "start" /\ op'[t].expected = -1
      /\ cc' = cc /\ op'[t].read = op[t].read
  <2>1. /\ cc \in [VM -> CacheRec] /\ op \in [Thread -> OpRec]
        /\ v \in VM /\ theca \in Header
    BY CacheAssumption, Zenon DEF KnowledgeInv, LocalTypes, Types
  <2>2. Apart(t)
    BY <2>1, CacheAssumption, Zenon DEF Apart, OneThreadEach, Types, Goto, StartRead
  <2>3. SameCounts
    BY <2>1, Zenon DEF SameCounts, Header, StartRead
  <2>4. cc' \in [VM -> CacheRec]
    BY <2>1, Zenon DEF StartRead
  <2>5. op' \in [Thread -> OpRec]
    <3>1. op' = [op EXCEPT ![t].expected = -1]
      BY Zenon DEF StartRead
    <3>2. -1 \in Int
      BY <2>1
    <3> QED BY <2>1, <3>1, <3>2, OpFields, Zenon
  <2>6. pc[t] = "startRead" /\ pc'[t] = "reading" /\ job'[t] = "start" /\ op'[t].expected = -1
    BY <2>1, Zenon DEF CacheRec, OpRec, Types, Goto, At, StartRead
  <2>7. cc' = cc /\ op'[t].read = op[t].read
    BY <2>1, Zenon DEF CacheRec, OpRec, Types, Goto, At, StartRead
  <2> QED BY <2>2, <2>3, <2>4, <2>5, <2>6, <2>7, Zenon
       DEF LocalTypes
<1>2. NoneRead(t) /\ SettledView(t)
  BY <1>1, View, ZenonT(40) DEF KnowInv, Settled, LockLabel
<1>3. ScanView(t)' /\ Expects(t)'
  BY <1>1, <1>2, View, SMTT(30) DEF NoneRead, SettledView, ScanView, Expects, SameCounts, Seen
<1>4. KnowInv(t)'
  BY <1>1, <1>3, Zenon DEF KnowInv, Settled, LockLabel, ReadLabel
<1> QED BY <1>1, <1>4, Zenon DEF Harmless

\* checkUpdates takes a snapshot of how far the count is ahead.
LEMMA KnowRefresh ==
  ASSUME NEW t \in Thread, Types, CacheInv, KnowledgeInv, OneThreadEach, Refresh(t)
  PROVE  Harmless(t)
<1> DEFINE v == VMOf[t]
<1>1. /\ LocalTypes' /\ Apart(t) /\ SameCounts
      /\ pc[t] = "refresh" /\ job'[t] = job[t] /\ op'[t].read = 0
      /\ cc'[v].scan = cc[v].scan /\ cc'[v].oldUpdateCount = cc[v].oldUpdateCount
      /\ Seen(v)' = Seen(v)
      /\ pc'[t] = (IF theca.updateCount - cc[v].oldUpdateCount > 0 THEN "reading" ELSE "readDone")
      /\ op'[t].expected = (IF theca.updateCount - cc[v].oldUpdateCount < 0 THEN 0
                            ELSE theca.updateCount - cc[v].oldUpdateCount)
  <2>1. /\ cc \in [VM -> CacheRec] /\ op \in [Thread -> OpRec]
        /\ v \in VM /\ theca \in Header
    BY CacheAssumption, Zenon DEF KnowledgeInv, LocalTypes, Types
  <2>2. Apart(t)
    BY <2>1, CacheAssumption, Zenon DEF Apart, OneThreadEach, Types, Goto, Refresh
  <2>3. SameCounts
    BY <2>1, Zenon DEF SameCounts, Header, Refresh
  <2>4. cc' \in [VM -> CacheRec]
    <3>1. cc' = [cc EXCEPT ![v].refreshMutex = t]
      BY Zenon DEF Refresh
    <3> QED BY <2>1, <3>1, CacheFields, Zenon
  <2>5. op' \in [Thread -> OpRec]
    <3>1. PICK e : /\ e = (IF theca.updateCount - cc[v].oldUpdateCount < 0 THEN 0
                           ELSE theca.updateCount - cc[v].oldUpdateCount)
                   /\ op' = [[op EXCEPT ![t].expected = e] EXCEPT ![t].read = 0]
      BY Zenon DEF Refresh
    <3>2. theca.updateCount - cc[v].oldUpdateCount \in Int
      BY <2>1 DEF CacheRec, Header
    <3>3. e \in Int /\ 0 \in Int
      BY <3>1, <3>2
    <3> QED BY <2>1, <3>1, <3>3, OpFields, ZenonT(40)
  <2>6. pc[t] = "refresh" /\ job'[t] = job[t] /\ op'[t].read = 0
    BY <2>1, Zenon DEF CacheRec, OpRec, Types, Goto, At, Refresh
  <2>7. cc'[v].scan = cc[v].scan /\ cc'[v].oldUpdateCount = cc[v].oldUpdateCount
    BY <2>1, Zenon DEF CacheRec, OpRec, Types, Goto, At, Refresh
  <2>8. Seen(v)' = Seen(v)
    BY <2>1, Zenon DEF CacheRec, Seen, OpRec, Types, Goto, At, Refresh
  <2>9. pc'[t] = (IF theca.updateCount - cc[v].oldUpdateCount > 0 THEN "reading" ELSE "readDone")
    BY <2>1, Zenon DEF CacheRec, OpRec, Types, Goto, At, Refresh
  <2>10. op'[t].expected = (IF theca.updateCount - cc[v].oldUpdateCount < 0 THEN 0
                              ELSE theca.updateCount - cc[v].oldUpdateCount)
    BY <2>1, Zenon DEF CacheRec, OpRec, Types, Goto, At, Refresh
  <2> QED BY <2>2, <2>3, <2>4, <2>5, <2>6, <2>7, <2>8, <2>9, <2>10, Zenon
       DEF LocalTypes
<1>2. SettledView(t)
  BY <1>1, View, ZenonT(40) DEF KnowInv, Settled, LockLabel
<1>3. /\ ScanView(t)'
      /\ pc'[t] = "reading" => Expects(t)'
      /\ pc'[t] = "readDone" => UpToDate(t)'
  BY <1>1, <1>2, View, SMTT(30) DEF SettledView, ScanView, Expects, UpToDate, SameCounts
<1>4. KnowInv(t)'
  BY <1>1, <1>3, Zenon DEF KnowInv, Settled, LockLabel, ReadLabel
<1> QED BY <1>1, <1>4, Zenon DEF Harmless

\* A writer that detects a crash has no view until the reset.
LEMMA KnowCheckForCrash ==
  ASSUME NEW t \in Thread, Types, CacheInv, KnowledgeInv, OneThreadEach, checkForCrash(t)
  PROVE  Harmless(t)
<1> DEFINE v == VMOf[t]
<1>1. /\ LocalTypes' /\ Apart(t) /\ SameCounts
      /\ pc[t] = "checkCrash" /\ op'[t].read = op[t].read
      /\ \/ pc'[t] = "resetting"
         \/ pc'[t] = "refresh" /\ cc' = cc
  <2>1. /\ cc \in [VM -> CacheRec] /\ op \in [Thread -> OpRec]
        /\ v \in VM /\ theca \in Header
    BY CacheAssumption, Zenon DEF KnowledgeInv, LocalTypes, Types
  <2>2. Apart(t)
    BY <2>1, CacheAssumption, Zenon DEF Apart, OneThreadEach, Types, Goto, checkForCrash
  <2>3. SameCounts
    BY <2>1, Zenon DEF SameCounts, Header, checkForCrash
  <2>4. cc' \in [VM -> CacheRec]
    <3>1. \/ cc' = cc
          \/ cc' = [[[cc EXCEPT ![v].localCrashCntr = theca.crashCntr] EXCEPT ![v].known = {}]
                        EXCEPT ![v].lost = {}]
      BY Zenon DEF checkForCrash
    <3>2. theca.crashCntr \in Int /\ {} \in SUBSET Int
      BY <2>1, Zenon DEF Header
    <3>3. [cc EXCEPT ![v].localCrashCntr = theca.crashCntr] \in [VM -> CacheRec]
      BY <2>1, <3>2, CacheFields, Zenon
    <3>4. [[cc EXCEPT ![v].localCrashCntr = theca.crashCntr] EXCEPT ![v].known = {}]
            \in [VM -> CacheRec]
      BY <2>1, <3>2, <3>3, CacheFields, Zenon
    <3>5. [[[cc EXCEPT ![v].localCrashCntr = theca.crashCntr] EXCEPT ![v].known = {}]
              EXCEPT ![v].lost = {}] \in [VM -> CacheRec]
      BY <2>1, <3>2, <3>4, CacheFields, Zenon
    <3> QED BY <2>1, <3>1, <3>5, Zenon
  <2>5. op' \in [Thread -> OpRec]
    BY <2>1, Zenon DEF checkForCrash
  <2>6. pc[t] = "checkCrash" /\ op'[t].read = op[t].read
    BY <2>1, Zenon DEF CacheRec, OpRec, Types, Goto, At, checkForCrash
  <2>7. \/ pc'[t] = "resetting"
        \/ pc'[t] = "refresh" /\ cc' = cc
    BY <2>1, Zenon DEF CacheRec, OpRec, Types, Goto, At, checkForCrash
  <2> QED BY <2>2, <2>3, <2>4, <2>5, <2>6, <2>7, Zenon
       DEF LocalTypes
<1>2. NoneRead(t) /\ SettledView(t)
  BY <1>1, View, Zenon DEF KnowInv, Settled, LockLabel
<1>3. /\ NoneRead(t)'
      /\ pc'[t] = "refresh" => SettledView(t)'
  BY <1>1, <1>2, View, Zenon DEF NoneRead, SettledView, SameCounts, Seen
<1>4. KnowInv(t)'
  BY <1>1, <1>3, Zenon DEF KnowInv, Settled, LockLabel, ReadLabel
<1> QED BY <1>1, <1>4, Zenon DEF Harmless

\* A reset starts the scan again.
LEMMA KnowReset ==
  ASSUME NEW t \in Thread, Types, CacheInv, KnowledgeInv, OneThreadEach, Reset(t)
  PROVE  Harmless(t)
<1> DEFINE v == VMOf[t]
<1>1. /\ LocalTypes' /\ Apart(t) /\ SameCounts
      /\ pc[t] = "resetting" /\ pc'[t] = "refresh" /\ op'[t].read = op[t].read
      /\ cc'[v].scan = 0 /\ cc'[v].oldUpdateCount = 0
  <2>1. /\ cc \in [VM -> CacheRec] /\ op \in [Thread -> OpRec]
        /\ v \in VM /\ theca \in Header
    BY CacheAssumption, Zenon DEF KnowledgeInv, LocalTypes, Types
  <2>2. Apart(t)
    BY <2>1, CacheAssumption, Zenon DEF Apart, OneThreadEach, Types, Goto, Reset
  <2>3. SameCounts
    BY <2>1, Zenon DEF SameCounts, Header, Reset
  <2>4. cc' \in [VM -> CacheRec]
    <3>1. cc' = [[cc EXCEPT ![v].scan = 0] EXCEPT ![v].oldUpdateCount = 0]
      BY Zenon DEF Reset
    <3>2. 0 \in Int
      BY <2>1
    <3> QED BY <2>1, <3>1, <3>2, CacheFields, Zenon
  <2>5. op' \in [Thread -> OpRec]
    <3>1. op' = [op EXCEPT ![t].again = TRUE]
      BY Zenon DEF Reset
    <3> QED BY <2>1, <3>1, OpFields, Zenon
  <2>6. pc[t] = "resetting" /\ pc'[t] = "refresh" /\ op'[t].read = op[t].read
    BY <2>1, Zenon DEF CacheRec, OpRec, Types, Goto, At, Reset
  <2>7. cc'[v].scan = 0 /\ cc'[v].oldUpdateCount = 0
    BY <2>1, Zenon DEF CacheRec, OpRec, Types, Goto, At, Reset
  <2> QED BY <2>2, <2>3, <2>4, <2>5, <2>6, <2>7, Zenon
       DEF LocalTypes
<1>2. NoneRead(t)
  BY <1>1, View, Zenon DEF KnowInv
<1>3. NoneRead(t)' /\ SettledView(t)'
  BY <1>1, <1>2, View DEF NoneRead, SettledView, SameCounts
<1>4. KnowInv(t)'
  BY <1>1, <1>3, Zenon DEF KnowInv, Settled, LockLabel, ReadLabel
<1> QED BY <1>1, <1>4, Zenon DEF Harmless

\* An allocation moves the scan past the new item.
LEMMA KnowAllocate ==
  ASSUME NEW t \in Thread, Types, CacheInv, KnowledgeInv, OneThreadEach, Allocate(t)
  PROVE  Harmless(t)
<1> DEFINE v == VMOf[t]
<1>1. /\ LocalTypes' /\ Apart(t) /\ SameCounts
      /\ pc[t] = "storing" /\ pc'[t] = "allocated" /\ op'[t].read = op[t].read
      /\ cc'[v].scan = theca.updateSRP + 1 /\ cc'[v].oldUpdateCount = cc[v].oldUpdateCount
      /\ Seen(v)' = Seen(v)
  <2>1. /\ cc \in [VM -> CacheRec] /\ op \in [Thread -> OpRec]
        /\ v \in VM /\ theca \in Header
    BY CacheAssumption, Zenon DEF KnowledgeInv, LocalTypes, Types
  <2>2. Apart(t)
    BY <2>1, CacheAssumption, Zenon DEF Apart, OneThreadEach, Types, Goto, Allocate
  <2>3. SameCounts
    BY <2>1, Zenon DEF SameCounts, Header, Allocate
  <2>4. cc' \in [VM -> CacheRec]
    <3>1. cc' = [cc EXCEPT ![v].scan = theca.updateSRP + 1]
      BY Zenon DEF Allocate
    <3>2. theca.updateSRP + 1 \in Int
      BY <2>1 DEF Header
    <3> QED BY <2>1, <3>1, <3>2, CacheFields, Zenon
  <2>5. op' \in [Thread -> OpRec]
    BY <2>1, Zenon DEF Allocate
  <2>6. pc[t] = "storing" /\ pc'[t] = "allocated" /\ op'[t].read = op[t].read
    BY <2>1, Zenon DEF CacheRec, OpRec, Types, Goto, At, Allocate
  <2>7. cc'[v].scan = theca.updateSRP + 1 /\ cc'[v].oldUpdateCount = cc[v].oldUpdateCount
    BY <2>1, Zenon DEF CacheRec, OpRec, Types, Goto, At, Allocate
  <2>8. Seen(v)' = Seen(v)
    BY <2>1, Zenon DEF CacheRec, Seen, OpRec, Types, Goto, At, Allocate
  <2> QED BY <2>2, <2>3, <2>4, <2>5, <2>6, <2>7, <2>8, Zenon
       DEF LocalTypes
<1>2. theca.updateSRP = theca.updateCount
  BY <1>1, Even, Zenon DEF KnowledgeInv, Writing, StoreLabel
<1>3. NoneRead(t) /\ SettledView(t) /\ UpToDate(t)
  BY <1>1, View, ZenonT(40) DEF KnowInv, Settled, LockLabel
<1>4. NoneRead(t)' /\ StoreView(t)'
  BY <1>1, <1>2, <1>3, View, SMTT(30)
     DEF NoneRead, SettledView, UpToDate, StoreView, SameCounts
<1>5. KnowInv(t)'
  BY <1>1, <1>4, Zenon DEF KnowInv, Settled, LockLabel, ReadLabel
<1> QED BY <1>1, <1>5, Zenon DEF Harmless

\* The item that is written enters the hash tables of its JVM, or they have no room for it.
LEMMA KnowFill ==
  ASSUME NEW t \in Thread, Types, CacheInv, KnowledgeInv, OneThreadEach, Fill(t)
  PROVE  Harmless(t)
<1> DEFINE v == VMOf[t]
<1>1. /\ LocalTypes' /\ Apart(t) /\ SameCounts
      /\ pc[t] = "allocated" /\ pc'[t] = "filled" /\ op'[t].read = op[t].read
      /\ cc'[v].scan = cc[v].scan /\ cc'[v].oldUpdateCount = cc[v].oldUpdateCount
      /\ Seen(v)' = Seen(v) \cup {theca.updateSRP + 1}
  <2>1. /\ cc \in [VM -> CacheRec] /\ op \in [Thread -> OpRec]
        /\ v \in VM /\ theca \in Header
    BY CacheAssumption, Zenon DEF KnowledgeInv, LocalTypes, Types
  <2>2. Apart(t)
    BY <2>1, CacheAssumption, Zenon DEF Apart, OneThreadEach, Types, Goto, Fill
  <2>3. SameCounts
    BY <2>1, Zenon DEF SameCounts, Header, Fill
  <2>4. cc' \in [VM -> CacheRec]
    <3>1. \/ cc' = [cc EXCEPT ![v].known = cc[v].known \cup {theca.updateSRP + 1}]
          \/ cc' = [cc EXCEPT ![v].lost = cc[v].lost \cup {theca.updateSRP + 1}]
      BY Zenon DEF Fill
    <3>2. /\ cc[v].known \cup {theca.updateSRP + 1} \in SUBSET Int
          /\ cc[v].lost \cup {theca.updateSRP + 1} \in SUBSET Int
      BY <2>1 DEF CacheRec, Header
    <3>3. CASE cc' = [cc EXCEPT ![v].known = cc[v].known \cup {theca.updateSRP + 1}]
      BY <2>1, <3>2, <3>3, CacheFields, Zenon
    <3>4. CASE cc' = [cc EXCEPT ![v].lost = cc[v].lost \cup {theca.updateSRP + 1}]
      BY <2>1, <3>2, <3>4, CacheFields, Zenon
    <3> QED BY <3>1, <3>3, <3>4, Zenon
  <2>5. op' \in [Thread -> OpRec]
    BY <2>1, Zenon DEF Fill
  <2>6. pc[t] = "allocated" /\ pc'[t] = "filled" /\ op'[t].read = op[t].read
    BY <2>1, Zenon DEF CacheRec, OpRec, Types, Goto, At, Fill
  <2>7. cc'[v].scan = cc[v].scan /\ cc'[v].oldUpdateCount = cc[v].oldUpdateCount
    BY <2>1, Zenon DEF CacheRec, OpRec, Types, Goto, At, Fill
  <2>8. Seen(v)' = Seen(v) \cup {theca.updateSRP + 1}
    <3>1. CASE cc' = [cc EXCEPT ![v].known = @ \cup {theca.updateSRP + 1}]
      <4>1. cc'[v].known = cc[v].known \cup {theca.updateSRP + 1} /\ cc'[v].lost = cc[v].lost
        BY <2>1, <3>1, ZenonT(40) DEF CacheRec
      <4> QED BY <4>1, Zenon DEF Seen
    <3>2. CASE cc' = [cc EXCEPT ![v].lost = @ \cup {theca.updateSRP + 1}]
      <4>1. cc'[v].lost = cc[v].lost \cup {theca.updateSRP + 1} /\ cc'[v].known = cc[v].known
        BY <2>1, <3>2, ZenonT(40) DEF CacheRec
      <4> QED BY <4>1, Zenon DEF Seen
    <3> QED BY <3>1, <3>2, Zenon DEF Fill
  <2> QED BY <2>2, <2>3, <2>4, <2>5, <2>6, <2>7, <2>8, Zenon
       DEF LocalTypes
<1>2. NoneRead(t) /\ StoreView(t)
  BY <1>1, View, Zenon DEF KnowInv
<1>3. NoneRead(t)' /\ StoreView(t)' /\ Stored(t)'
  BY <1>1, <1>2, View, SMTT(30) DEF NoneRead, StoreView, Stored, SameCounts
<1>4. KnowInv(t)'
  BY <1>1, <1>3, Zenon DEF KnowInv, Settled, LockLabel, ReadLabel
<1> QED BY <1>1, <1>4, Zenon DEF Harmless

\* Entering the critical section leaves the view.
LEMMA KnowStartCriticalUpdate ==
  ASSUME NEW t \in Thread, Types, CacheInv, KnowledgeInv, OneThreadEach, startCriticalUpdate(t)
  PROVE  Harmless(t)
<1> DEFINE v == VMOf[t]
<1>1. /\ LocalTypes' /\ Apart(t) /\ SameCounts
      /\ pc[t] = "filled" /\ pc'[t] = "critical" /\ cc' = cc /\ op' = op
  BY CacheAssumption, Zenon DEF LocalTypes, CacheRec, OpRec, Apart, SameCounts, KnowledgeInv,
     OneThreadEach, Types, Goto, At, Header, startCriticalUpdate
<1>2. NoneRead(t) /\ StoreView(t) /\ Stored(t)
  BY <1>1, View, Zenon DEF KnowInv
<1>3. NoneRead(t)' /\ StoreView(t)' /\ Stored(t)'
  BY <1>1, <1>2, View, Zenon DEF NoneRead, StoreView, Stored, SameCounts, Seen
<1>4. KnowInv(t)'
  BY <1>1, <1>3, Zenon DEF KnowInv, Settled, LockLabel, ReadLabel
<1> QED BY <1>1, <1>4, Zenon DEF Harmless

\* Committing the block leaves the view.
LEMMA KnowCommitSegment ==
  ASSUME NEW t \in Thread, Types, CacheInv, KnowledgeInv, OneThreadEach, CommitSegment(t)
  PROVE  Harmless(t)
<1> DEFINE v == VMOf[t]
<1>1. /\ LocalTypes' /\ Apart(t) /\ SameCounts
      /\ pc[t] = "critical" /\ pc'[t] = "segmented" /\ cc' = cc /\ op' = op
  BY CacheAssumption, Zenon DEF LocalTypes, CacheRec, OpRec, Apart, SameCounts, KnowledgeInv,
     OneThreadEach, Types, Goto, At, Header, CommitSegment
<1>2. NoneRead(t) /\ StoreView(t) /\ Stored(t)
  BY <1>1, View, Zenon DEF KnowInv
<1>3. NoneRead(t)' /\ StoreView(t)' /\ Stored(t)'
  BY <1>1, <1>2, View, Zenon DEF NoneRead, StoreView, Stored, SameCounts, Seen
<1>4. KnowInv(t)'
  BY <1>1, <1>3, Zenon DEF KnowInv, Settled, LockLabel, ReadLabel
<1> QED BY <1>1, <1>4, Zenon DEF Harmless

\* The writer has seen its own update.
LEMMA KnowCommitSeen ==
  ASSUME NEW t \in Thread, Types, CacheInv, KnowledgeInv, OneThreadEach, CommitSeen(t)
  PROVE  Harmless(t)
<1> DEFINE v == VMOf[t]
<1>1. /\ LocalTypes' /\ Apart(t) /\ SameCounts
      /\ pc[t] = "counted" /\ pc'[t] = "committed" /\ op' = op
      /\ cc'[v].scan = cc[v].scan /\ cc'[v].oldUpdateCount = theca.updateCount
      /\ Seen(v)' = Seen(v)
  <2>1. /\ cc \in [VM -> CacheRec] /\ op \in [Thread -> OpRec]
        /\ v \in VM /\ theca \in Header
    BY CacheAssumption, Zenon DEF KnowledgeInv, LocalTypes, Types
  <2>2. Apart(t)
    BY <2>1, CacheAssumption, Zenon DEF Apart, OneThreadEach, Types, Goto, CommitSeen
  <2>3. SameCounts
    BY <2>1, Zenon DEF SameCounts, Header, CommitSeen
  <2>4. cc' \in [VM -> CacheRec]
    <3>1. cc' = [cc EXCEPT ![v].oldUpdateCount = theca.updateCount]
      BY Zenon DEF CommitSeen
    <3>2. theca.updateCount \in Int
      BY <2>1, Zenon DEF Header
    <3> QED BY <2>1, <3>1, <3>2, CacheFields, Zenon
  <2>5. op' \in [Thread -> OpRec]
    BY <2>1, Zenon DEF CommitSeen
  <2>6. pc[t] = "counted" /\ pc'[t] = "committed" /\ op' = op
    BY <2>1, Zenon DEF CacheRec, OpRec, Types, Goto, At, CommitSeen
  <2>7. cc'[v].scan = cc[v].scan /\ cc'[v].oldUpdateCount = theca.updateCount
    BY <2>1, Zenon DEF CacheRec, OpRec, Types, Goto, At, CommitSeen
  <2>8. Seen(v)' = Seen(v)
    BY <2>1, Zenon DEF CacheRec, Seen, OpRec, Types, Goto, At, CommitSeen
  <2> QED BY <2>2, <2>3, <2>4, <2>5, <2>6, <2>7, <2>8, Zenon
       DEF LocalTypes
<1>2. NoneRead(t) /\ CommitView(t)
  BY <1>1, View, Zenon DEF KnowInv
<1>3. NoneRead(t)' /\ CommitView(t)' /\ AllSeen(t)'
  BY <1>1, <1>2, View, SMTT(30) DEF NoneRead, CommitView, AllSeen, SameCounts
<1>4. KnowInv(t)'
  BY <1>1, <1>3, Zenon DEF KnowInv, Settled, LockLabel, ReadLabel
<1> QED BY <1>1, <1>4, Zenon DEF Harmless

\* At the end of the critical section the writer is up to date again.
LEMMA KnowEndCriticalUpdate ==
  ASSUME NEW t \in Thread, Types, CacheInv, KnowledgeInv, OneThreadEach, endCriticalUpdate(t)
  PROVE  Harmless(t)
<1> DEFINE v == VMOf[t]
<1>1. /\ LocalTypes' /\ Apart(t) /\ SameCounts
      /\ pc[t] = "committed" /\ pc'[t] = "storing" /\ cc' = cc /\ op' = op
  BY CacheAssumption, Zenon DEF LocalTypes, CacheRec, OpRec, Apart, SameCounts, KnowledgeInv,
     OneThreadEach, Types, Goto, At, Header, endCriticalUpdate
<1>2. theca.updateSRP = theca.updateCount
  BY <1>1, Even, Zenon DEF KnowledgeInv, Writing, CriticalLabel
<1>3. NoneRead(t) /\ CommitView(t) /\ AllSeen(t)
  BY <1>1, View, Zenon DEF KnowInv
<1>4. NoneRead(t)' /\ SettledView(t)' /\ UpToDate(t)'
  BY <1>1, <1>2, <1>3, View, SMTT(30)
     DEF NoneRead, CommitView, AllSeen, SettledView, UpToDate, SameCounts, Seen
<1>5. KnowInv(t)'
  BY <1>1, <1>4, Zenon DEF KnowInv, Settled, LockLabel, ReadLabel
<1> QED BY <1>1, <1>5, Zenon DEF Harmless

\* The walk over the items starts over with the scan of the JVM.
LEMMA KnowStartMark ==
  ASSUME NEW t \in Thread, Types, CacheInv, KnowledgeInv, OneThreadEach, StartMark(t)
  PROVE  Harmless(t)
<1> DEFINE v == VMOf[t]
<1>1. /\ LocalTypes' /\ Apart(t) /\ SameCounts
      /\ pc[t] = "toMark" /\ pc'[t] = "marking" /\ op' = op
      /\ cc'[v].scan = 0 /\ cc'[v].oldUpdateCount = cc[v].oldUpdateCount
      /\ Seen(v)' = Seen(v)
  <2>1. /\ cc \in [VM -> CacheRec] /\ op \in [Thread -> OpRec]
        /\ v \in VM /\ theca \in Header
    BY CacheAssumption, Zenon DEF KnowledgeInv, LocalTypes, Types
  <2>2. Apart(t)
    BY <2>1, CacheAssumption, Zenon DEF Apart, OneThreadEach, Types, Goto, StartMark
  <2>3. SameCounts
    BY <2>1, Zenon DEF SameCounts, Header, StartMark
  <2>4. cc' \in [VM -> CacheRec]
    <3>1. cc' = [cc EXCEPT ![v].scan = 0]
      BY Zenon DEF StartMark
    <3>2. 0 \in Int
      BY <2>1
    <3> QED BY <2>1, <3>1, <3>2, CacheFields, Zenon
  <2>5. op' \in [Thread -> OpRec]
    BY <2>1, Zenon DEF StartMark
  <2>6. pc[t] = "toMark" /\ pc'[t] = "marking" /\ op' = op
    BY <2>1, Zenon DEF CacheRec, OpRec, Types, Goto, At, StartMark
  <2>7. cc'[v].scan = 0 /\ cc'[v].oldUpdateCount = cc[v].oldUpdateCount
    BY <2>1, Zenon DEF CacheRec, OpRec, Types, Goto, At, StartMark
  <2>8. Seen(v)' = Seen(v)
    BY <2>1, Zenon DEF CacheRec, Seen, OpRec, Types, Goto, At, StartMark
  <2> QED BY <2>2, <2>3, <2>4, <2>5, <2>6, <2>7, <2>8, Zenon
       DEF LocalTypes
<1>2. NoneRead(t) /\ SettledView(t) /\ UpToDate(t)
  BY <1>1, View, Zenon DEF KnowInv, Settled, LockLabel
<1>3. NoneRead(t)' /\ AllSeen(t)' /\ MarkView(t)'
  BY <1>1, <1>2, View, SMTT(30) DEF NoneRead, SettledView, UpToDate, AllSeen, MarkView, SameCounts
<1>4. KnowInv(t)'
  BY <1>1, <1>3, Zenon DEF KnowInv, Settled, LockLabel, ReadLabel
<1> QED BY <1>1, <1>4, Zenon DEF Harmless

\* The walk stays inside the visible items.
LEMMA KnowMarkItem ==
  ASSUME NEW t \in Thread, Types, CacheInv, KnowledgeInv, OneThreadEach, MarkItem(t)
  PROVE  Harmless(t)
<1> DEFINE v == VMOf[t]
<1>1. /\ LocalTypes' /\ Apart(t) /\ SameCounts
      /\ pc[t] = "marking" /\ pc'[t] = "marking" /\ op' = op
      /\ cc[v].scan < theca.updateSRP
      /\ cc'[v].scan = cc[v].scan + 1 /\ cc'[v].oldUpdateCount = cc[v].oldUpdateCount
      /\ Seen(v)' = Seen(v)
  <2>1. /\ cc \in [VM -> CacheRec] /\ op \in [Thread -> OpRec]
        /\ v \in VM /\ theca \in Header
    BY CacheAssumption, Zenon DEF KnowledgeInv, LocalTypes, Types
  <2>2. Apart(t)
    BY <2>1, CacheAssumption, Zenon DEF Apart, OneThreadEach, Types, Goto, MarkItem
  <2>3. SameCounts
    BY <2>1, Zenon DEF SameCounts, Header, MarkItem
  <2>4. cc' \in [VM -> CacheRec]
    <3>1. cc' = [cc EXCEPT ![v].scan = (cc[v].scan + 1)]
      BY Zenon DEF MarkItem
    <3>2. cc[v].scan + 1 \in Int
      BY <2>1 DEF CacheRec
    <3> QED BY <2>1, <3>1, <3>2, CacheFields, Zenon
  <2>5. op' \in [Thread -> OpRec]
    BY <2>1, Zenon DEF MarkItem
  <2>6. pc[t] = "marking" /\ pc'[t] = "marking" /\ op' = op
    BY <2>1, Zenon DEF CacheRec, OpRec, Types, Goto, At, MarkItem
  <2>7. cc[v].scan < theca.updateSRP
    BY <2>1, Zenon DEF CacheRec, OpRec, Types, Goto, At, MarkItem
  <2>8. cc'[v].scan = cc[v].scan + 1 /\ cc'[v].oldUpdateCount = cc[v].oldUpdateCount
    BY <2>1, Zenon DEF CacheRec, OpRec, Types, Goto, At, MarkItem
  <2>9. Seen(v)' = Seen(v)
    BY <2>1, Zenon DEF CacheRec, Seen, OpRec, Types, Goto, At, MarkItem
  <2> QED BY <2>2, <2>3, <2>4, <2>5, <2>6, <2>7, <2>8, <2>9, Zenon
       DEF LocalTypes
<1>2. theca.updateSRP = theca.updateCount
  BY <1>1, Even, Zenon DEF KnowledgeInv, Writing, CriticalLabel
<1>3. NoneRead(t) /\ AllSeen(t) /\ MarkView(t)
  BY <1>1, View, Zenon DEF KnowInv
<1>4. NoneRead(t)' /\ AllSeen(t)' /\ MarkView(t)'
  BY <1>1, <1>2, <1>3, View, SMTT(30) DEF NoneRead, AllSeen, MarkView, SameCounts
<1>5. KnowInv(t)'
  BY <1>1, <1>4, Zenon DEF KnowInv, Settled, LockLabel, ReadLabel
<1> QED BY <1>1, <1>5, Zenon DEF Harmless

\* At the end of the walk the scan is where it was.
LEMMA KnowEndMark ==
  ASSUME NEW t \in Thread, Types, CacheInv, KnowledgeInv, OneThreadEach, EndMark(t)
  PROVE  Harmless(t)
<1> DEFINE v == VMOf[t]
<1>1. /\ LocalTypes' /\ Apart(t) /\ SameCounts
      /\ pc[t] = "marking" /\ pc'[t] \in {"exitWrite", "unlocking"} /\ cc' = cc /\ op' = op
      /\ cc[v].scan >= theca.updateSRP
  BY CacheAssumption, Zenon DEF LocalTypes, CacheRec, OpRec, Apart, SameCounts, KnowledgeInv,
     OneThreadEach, Types, Goto, At, Header, EndMark
<1>2. theca.updateSRP = theca.updateCount
  BY <1>1, Even, Zenon DEF KnowledgeInv, Writing, CriticalLabel
<1>3. NoneRead(t) /\ AllSeen(t) /\ MarkView(t)
  BY <1>1, View, ZenonT(40) DEF KnowInv
<1>4. NoneRead(t)' /\ SettledView(t)' /\ UpToDate(t)'
  BY <1>1, <1>2, <1>3, View, SMTT(30)
     DEF NoneRead, AllSeen, MarkView, SettledView, UpToDate, SameCounts, Seen
<1>5. KnowInv(t)'
  BY <1>1, <1>4, Zenon DEF KnowInv, Settled, LockLabel, ReadLabel
<1> QED BY <1>1, <1>5, Zenon DEF Harmless

\* Unlocking the cache leaves the view.
LEMMA KnowDoUnlockCache ==
  ASSUME NEW t \in Thread, Types, CacheInv, KnowledgeInv, OneThreadEach, doUnlockCache(t)
  PROVE  Harmless(t)
<1> DEFINE v == VMOf[t]
<1>1. /\ LocalTypes' /\ Apart(t) /\ SameCounts
      /\ pc[t] = "unlocking" /\ pc'[t] = "storing" /\ cc' = cc /\ op' = op
  BY CacheAssumption, Zenon DEF LocalTypes, CacheRec, OpRec, Apart, SameCounts, KnowledgeInv,
     OneThreadEach, Types, Goto, At, Header, doUnlockCache
<1>2. NoneRead(t) /\ SettledView(t) /\ UpToDate(t)
  BY <1>1, View, Zenon DEF KnowInv, Settled, LockLabel
<1>3. NoneRead(t)' /\ SettledView(t)' /\ UpToDate(t)'
  BY <1>1, <1>2, View, SMTT(30) DEF NoneRead, SettledView, UpToDate, SameCounts, Seen
<1>4. KnowInv(t)'
  BY <1>1, <1>3, Zenon DEF KnowInv, Settled, LockLabel, ReadLabel
<1> QED BY <1>1, <1>4, Zenon DEF Harmless

\* One turn of readCache takes the next item into the hash tables; a scan that counts what it
\* expects finds it, and one that does not stops at the last item.
LEMMA KnowReadItem ==
  ASSUME NEW t \in Thread, Types, CacheInv, KnowledgeInv, OneThreadEach, ReadItem(t)
  PROVE  Harmless(t)
<1> DEFINE v == VMOf[t]
           next == cc[v].scan + 1
<1>1. /\ Apart(t) /\ SameCounts
      /\ pc[t] = "reading" /\ job'[t] = job[t] /\ pc'[t] \in {"reading", "readDone"}
  BY CacheAssumption, ZenonT(40) DEF LocalTypes, CacheRec, OpRec, Apart, SameCounts, KnowledgeInv,
     OneThreadEach, Types, Goto, At, ReadItem
<1>2. /\ theca.updateCount \in Int /\ theca.updateSRP \in Nat
      /\ theca.updateSRP \in {theca.updateCount, theca.updateCount + 1}
  BY Zenon DEF Types, Header, KnowledgeInv, UpdatesInv
<1>3. cc[v] \in CacheRec /\ op[t] \in OpRec /\ ScanView(t) /\ Expects(t)
  <2>1. KnowInv(t)
    BY Zenon DEF KnowledgeInv
  <2> QED BY <1>1, <2>1, CacheAssumption, Zenon DEF KnowledgeInv, LocalTypes, KnowInv
<1>4. job[t] # "read" => theca.updateSRP = theca.updateCount
  BY <1>1, Even, Zenon DEF KnowledgeInv, Writing, RefreshLabel
<1>5. CASE next <= theca.updateSRP
  <2>1. /\ cc' = [cc EXCEPT ![v].scan = next, ![v].known = @ \cup {next}]
        /\ op' = [op EXCEPT ![t].read = @ + 1, ![t].expected = IF @ = -1 THEN -1 ELSE @ - 1]
        /\ pc'[t] = (IF op'[t].expected # 0 THEN "reading" ELSE "readDone")
    BY <1>5, Zenon DEF ReadItem, Goto, Types
  <2>2. LocalTypes'
    <3>1. cc \in [VM -> CacheRec] /\ op \in [Thread -> OpRec] /\ v \in VM
      BY CacheAssumption, Zenon DEF KnowledgeInv, LocalTypes
    <3>2. cc' \in [VM -> CacheRec]
      BY <2>1, <3>1 DEF CacheRec
    <3>3. PICK e : /\ e = (IF op[t].expected = -1 THEN -1 ELSE op[t].expected - 1)
                   /\ op' = [[op EXCEPT ![t].read = op[t].read + 1] EXCEPT ![t].expected = e]
      BY <1>3, <2>1, <3>1, Zenon DEF OpRec
    <3>4. op[t].read + 1 \in Int /\ e \in Int
      BY <1>3, <3>3 DEF OpRec
    <3>5. op' \in [Thread -> OpRec]
      BY <3>1, <3>3, <3>4, OpFields, Zenon
    <3> QED BY <3>2, <3>5, Zenon DEF LocalTypes
  <2>3. /\ cc'[v].scan = next /\ Seen(v)' = Seen(v) \cup {next}
        /\ cc'[v].oldUpdateCount = cc[v].oldUpdateCount
        /\ op'[t].read = op[t].read + 1
        /\ op'[t].expected = (IF op[t].expected = -1 THEN -1 ELSE op[t].expected - 1)
    <3>1. cc \in [VM -> CacheRec] /\ op \in [Thread -> OpRec] /\ v \in VM
      BY CacheAssumption, Zenon DEF KnowledgeInv, LocalTypes
    <3>2. /\ cc'[v].scan = next /\ cc'[v].oldUpdateCount = cc[v].oldUpdateCount
          /\ cc'[v].known = cc[v].known \cup {next} /\ cc'[v].lost = cc[v].lost
      BY <2>1, <3>1, ZenonT(40) DEF CacheRec
    <3>3. /\ op'[t].read = op[t].read + 1
          /\ op'[t].expected = (IF op[t].expected = -1 THEN -1 ELSE op[t].expected - 1)
      BY <2>1, <3>1, ZenonT(40) DEF OpRec
    <3>4. Seen(v)' = Seen(v) \cup {next}
      BY <3>2, Zenon DEF Seen
    <3> QED BY <3>2, <3>3, <3>4, Zenon
  <2>4. /\ op[t].read >= 0 /\ cc[v].scan = cc[v].oldUpdateCount + op[t].read
        /\ 1..cc[v].scan \subseteq Seen(v)
        /\ \/ job[t] = "start" /\ op[t].expected = -1
           \/ /\ op[t].expected > 0 /\ cc[v].scan + op[t].expected <= theca.updateCount
              /\ job[t] # "read" => cc[v].scan + op[t].expected = theca.updateCount
    BY <1>3, Zenon DEF ScanView, Expects
  <2>5. cc[v].scan \in Int /\ op[t].read \in Int /\ op[t].expected \in Int
    BY <1>3, Zenon DEF CacheRec, OpRec
  <2>6. 1..next \subseteq Seen(v) \cup {next}
    BY <2>4, <2>5, OneMore, Zenon
  <2>7. /\ op'[t].read >= 0 /\ cc'[v].scan = cc'[v].oldUpdateCount + op'[t].read
        /\ cc'[v].scan <= theca.updateCount
        /\ 1..cc'[v].scan \subseteq Seen(v)'
    <3>1. cc[v].scan + 1 <= theca.updateCount
      BY <1>2, <1>4, <1>5, <2>4, <2>5
    <3>2. cc[v].oldUpdateCount \in Int
      BY <1>3, Zenon DEF CacheRec
    <3>3. op[t].read + 1 >= 0 /\ next = cc[v].oldUpdateCount + (op[t].read + 1)
      BY <2>4, <2>5, <3>2
    <3> QED BY <2>3, <2>6, <3>1, <3>3, Zenon
  <2>8. pc'[t] = "reading" =>
          \/ job[t] = "start" /\ op'[t].expected = -1
          \/ /\ op'[t].expected > 0 /\ cc'[v].scan + op'[t].expected <= theca.updateCount
             /\ job[t] # "read" => cc'[v].scan + op'[t].expected = theca.updateCount
    BY <1>2, <2>1, <2>3, <2>4, <2>5, SMTT(30)
  <2>9. pc'[t] = "readDone" /\ job[t] # "read" => cc'[v].scan = theca.updateCount
    BY <1>2, <2>1, <2>3, <2>4, <2>5, SMTT(30)
  <2>10. /\ ScanView(t)' /\ (pc'[t] = "reading" => Expects(t)')
         /\ pc'[t] = "readDone" /\ job'[t] # "read" => UpToDate(t)'
    BY <1>1, <2>7, <2>8, <2>9, Zenon DEF ScanView, Expects, UpToDate, SameCounts
  <2>11. KnowInv(t)'
    BY <1>1, <2>10, Zenon DEF KnowInv, Settled, LockLabel, ReadLabel
  <2> QED BY <1>1, <2>2, <2>11, Zenon DEF Harmless
<1>6. CASE ~(next <= theca.updateSRP)
  <2>1. cc' = cc /\ op' = op /\ pc'[t] = "readDone"
    BY <1>6, Zenon DEF ReadItem, Goto, Types
  <2>2. job[t] = "start" /\ cc[v].scan = theca.updateCount
    BY <1>2, <1>3, <1>4, <1>6, View DEF ScanView, Expects
  <2>3. ScanView(t)' /\ UpToDate(t)'
    BY <1>1, <1>3, <2>1, <2>2, ZenonT(40) DEF ScanView, UpToDate, SameCounts, Seen
  <2>4. KnowInv(t)'
    BY <2>1, <2>3, Zenon DEF KnowInv, Settled, LockLabel, ReadLabel
  <2>5. LocalTypes'
    BY <2>1, ZenonT(40) DEF KnowledgeInv, LocalTypes
  <2> QED BY <1>1, <2>1, <2>4, <2>5, Zenon DEF Harmless
<1> QED BY <1>5, <1>6, Zenon

\* doneReadUpdates: the scan and the count of the updates seen agree again, and a writer that
\* goes on has seen them all.
LEMMA KnowReadDone ==
  ASSUME NEW t \in Thread, Types, CacheInv, KnowledgeInv, OneThreadEach, ReadDone(t)
  PROVE  Harmless(t)
<1> DEFINE v == VMOf[t]
<1>1. /\ Apart(t) /\ SameCounts /\ op'[t].read = 0
      /\ pc[t] = "readDone" /\ job'[t] = job[t]
  BY CacheAssumption, Zenon DEF LocalTypes, CacheRec, OpRec, Apart, SameCounts, KnowledgeInv,
     OneThreadEach, Types, Goto, At, ReadDone, Done
<1>2. /\ pc'[t] \in {"refresh", "finding", "storing", "toMark", "exitWrite"}
      /\ pc'[t] \in {"storing", "toMark"} => job[t] # "read"
  BY Zenon DEF ReadDone, Refreshed, Goto, Types
<1>3. cc[v] \in CacheRec /\ op[t] \in OpRec /\ KnowInv(t) /\ theca.updateCount \in Int
  BY CacheAssumption, SMTT(30) DEF KnowledgeInv, LocalTypes, Types, Header
<1>4. /\ cc'[v].scan = cc[v].scan /\ Seen(v)' = Seen(v)
      /\ cc'[v].oldUpdateCount = IF op[t].read > 0 /\ cc[v].oldUpdateCount < theca.updateCount
                                 THEN cc[v].oldUpdateCount + op[t].read
                                 ELSE cc[v].oldUpdateCount
      /\ LocalTypes'
  <2>1. /\ cc \in [VM -> CacheRec] /\ op \in [Thread -> OpRec] /\ v \in VM
        /\ cc' = Done(v, op[t].read)
    BY CacheAssumption, Zenon DEF KnowledgeInv, LocalTypes, ReadDone
  <2>2. op' \in [Thread -> OpRec]
    <3>1. op' = [[[op EXCEPT ![t].again = FALSE] EXCEPT ![t].expected = 0] EXCEPT ![t].read = 0]
      BY Zenon DEF ReadDone
    <3>2. 0 \in Int
      OBVIOUS
    <3> QED BY <2>1, <3>1, <3>2, OpFields, Zenon
  <2>3. CASE op[t].read > 0 /\ cc[v].oldUpdateCount < theca.updateCount
    <3>1. cc' = [cc EXCEPT ![v].oldUpdateCount = @ + op[t].read, ![v].refreshMutex = NoThread]
      BY <2>1, <2>3, Zenon DEF Done
    <3>2. cc' \in [VM -> CacheRec]
      <4>1. cc[v].oldUpdateCount \in Int /\ op[t].read \in Int
        BY View, Zenon
      <4>2. cc[v].oldUpdateCount + op[t].read \in Int
        BY <4>1
      <4>3. cc' = [[cc EXCEPT ![v].oldUpdateCount = cc[v].oldUpdateCount + op[t].read]
                       EXCEPT ![v].refreshMutex = NoThread]
        BY <2>1, <3>1, Zenon
      <4>4. [cc EXCEPT ![v].oldUpdateCount = cc[v].oldUpdateCount + op[t].read] \in [VM -> CacheRec]
        BY <2>1, <4>2, CacheFields, Zenon
      <4>5. ASSUME NEW f \in [VM -> CacheRec]
            PROVE  [f EXCEPT ![v].refreshMutex = NoThread] \in [VM -> CacheRec]
        BY <2>1, CacheFields, Zenon
      <4> QED BY <4>3, <4>4, <4>5, Zenon
    <3>3. /\ cc'[v].scan = cc[v].scan /\ Seen(v)' = Seen(v)
          /\ cc'[v].oldUpdateCount = cc[v].oldUpdateCount + op[t].read
      BY <2>1, <3>1 DEF CacheRec, Seen
    <3> QED BY <2>2, <2>3, <3>2, <3>3, Zenon DEF LocalTypes
  <2>4. CASE ~(op[t].read > 0 /\ cc[v].oldUpdateCount < theca.updateCount)
    <3>1. cc' = [cc EXCEPT ![v].refreshMutex = NoThread]
      BY <2>1, <2>4, Zenon DEF Done
    <3>2. cc' \in [VM -> CacheRec]
      BY <2>1, <3>1 DEF CacheRec
    <3>3. /\ cc'[v].scan = cc[v].scan /\ Seen(v)' = Seen(v)
          /\ cc'[v].oldUpdateCount = cc[v].oldUpdateCount
      BY <2>1, <3>1, ZenonT(40) DEF CacheRec, Seen
    <3> QED BY <2>2, <2>4, <3>2, <3>3, Zenon DEF LocalTypes
  <2> QED BY <2>3, <2>4, Zenon
<1>5. ScanView(t) /\ (job[t] # "read" => UpToDate(t))
  BY <1>1, <1>3, ZenonT(40) DEF KnowInv
<1>6. cc'[v].oldUpdateCount = cc[v].scan
  <2>1. /\ cc[v].scan \in Int /\ cc[v].oldUpdateCount \in Int /\ op[t].read \in Int
        /\ theca.updateCount \in Int
    BY View, Zenon
  <2> QED BY <1>4, <1>5, <2>1 DEF ScanView
<1>7. /\ NoneRead(t)' /\ SettledView(t)'
      /\ pc'[t] \in {"storing", "toMark"} => UpToDate(t)'
  BY <1>1, <1>2, <1>4, <1>5, <1>6, Zenon
     DEF NoneRead, SettledView, ScanView, UpToDate, SameCounts
<1>8. KnowInv(t)'
  BY <1>2, <1>7, Zenon DEF KnowInv, Settled, LockLabel, ReadLabel
<1> QED BY <1>1, <1>2, <1>4, <1>8, Zenon DEF Harmless

\* The counts of a thread that is not writing may only be behind.
LEMMA LateReader ==
  ASSUME NEW u \in Thread, Types, KnowledgeInv, ~Writing(u), pc'[u] = pc[u], job'[u] = job[u],
         op'[u] = op[u], cc'[VMOf[u]] = cc[VMOf[u]],
         theca'.updateCount \in {theca.updateCount, theca.updateCount + 1}
  PROVE  KnowInv(u)'
<1>1. /\ pc[u] \notin {"storing", "toMark", "unlocking", "allocated", "filled", "critical",
                       "segmented", "published", "counted", "committed", "marking"}
      /\ pc[u] \in {"reading", "readDone"} => job[u] = "read"
  BY Zenon DEF Writing, RefreshLabel, LockLabel, StoreLabel, CriticalLabel
<1>2. NoneRead(u) => NoneRead(u)'
  BY Zenon DEF NoneRead
<1>3. Seen(VMOf[u])' = Seen(VMOf[u])
  BY Zenon DEF Seen
<1>4. \A n \in Int : n <= theca.updateCount => n <= theca'.updateCount
  <2>1. theca.updateCount \in Int
    BY View, Zenon
  <2> QED BY <2>1
<1>5. KnowInv(u) /\ cc[VMOf[u]].scan \in Int /\ op[u].expected \in Int
  BY View, Zenon
<1>6. cc[VMOf[u]].scan + op[u].expected \in Int
  BY <1>5
<1>7. SettledView(u) => SettledView(u)'
  BY <1>3, <1>4, <1>5, Zenon DEF SettledView
<1>8. ScanView(u) => ScanView(u)'
  BY <1>3, <1>4, <1>5, Zenon DEF ScanView
<1>9. Expects(u) /\ job[u] = "read" => Expects(u)'
  BY <1>4, <1>6, Zenon DEF Expects
<1> QED BY <1>1, <1>2, <1>5, <1>7, <1>8, <1>9, Zenon DEF KnowInv

\* The two stores that publish an item and count it: only the thread that makes them writes.
LEMMA CommitSteps ==
  ASSUME NEW t \in Thread, Types, CacheInv, KnowledgeInv, OneThreadEach,
         CommitMetadata(t) \/ CommitCount(t)
  PROVE  KnowledgeInv'
<1> DEFINE v == VMOf[t]
<1>1. /\ Apart(t) /\ cc' = cc /\ op' = op
      /\ \/ /\ pc[t] = "segmented" /\ pc'[t] = "published"
            /\ theca'.updateSRP = theca.updateSRP + 1 /\ theca'.updateCount = theca.updateCount
         \/ /\ pc[t] = "published" /\ pc'[t] = "counted"
            /\ theca'.updateSRP = theca.updateSRP /\ theca'.updateCount = theca.updateCount + 1
  BY Zenon DEF CommitMetadata, CommitCount, Apart, Types, Header, Goto, At
<1>2. theca.updateCount \in Int /\ theca.updateSRP \in Nat /\ 0 <= theca.updateCount
  BY Zenon DEF Types, Header, KnowledgeInv, UpdatesInv
<1>3. \A u \in Thread \ {t} : ~Writing(u)
  BY <1>1, Zenon DEF CacheInv, Writing, CriticalLabel
<1>4. \A u \in Thread \ {t} : KnowInv(u)'
  BY <1>1, <1>3, LateReader, Zenon DEF Apart
<1>5. \A u \in Thread \ {t} : pc'[u] # "published" /\ pc[u] # "published"
  BY <1>1, <1>3, Zenon DEF Writing, CriticalLabel, Apart
<1>6. UpdatesInv'
  BY <1>1, <1>2, <1>5 DEF UpdatesInv, KnowledgeInv
<1>7. /\ NoneRead(t)
      /\ pc[t] = "segmented" => StoreView(t) /\ Stored(t)
      /\ pc[t] = "published" => CommitView(t)
  BY <1>1, View, ZenonT(40) DEF KnowInv
<1>8. NoneRead(t)' /\ CommitView(t)'
  <2>1. NoneRead(t)' /\ Seen(v)' = Seen(v)
    BY <1>1, <1>7, Zenon DEF NoneRead, Seen
  <2>2. CASE pc[t] = "segmented"
    <3>1. theca.updateSRP \in Int
      BY <1>2
    <3>2. theca'.updateSRP = theca.updateSRP + 1
      BY <1>1, <2>2, Zenon
    <3>3. 1..(theca.updateSRP + 1) \subseteq Seen(v) /\ cc[v].scan = theca.updateSRP + 1
      BY <1>7, <2>2, <3>1, OneMore, Zenon DEF StoreView, Stored
    <3> QED BY <1>1, <2>1, <3>2, <3>3, Zenon DEF CommitView
  <2>3. CASE pc[t] = "published"
    <3>1. theca'.updateSRP = theca.updateSRP
      BY <1>1, <2>3, Zenon
    <3> QED BY <1>1, <1>7, <2>1, <2>3, <3>1, Zenon DEF CommitView
  <2> QED BY <1>1, <2>2, <2>3, Zenon
<1>9. KnowInv(t)'
  <2>1. CASE pc'[t] = "published"
    BY <1>8, <2>1, Zenon DEF KnowInv, Settled, LockLabel, ReadLabel
  <2>2. CASE pc'[t] = "counted"
    BY <1>8, <2>2, Zenon DEF KnowInv, Settled, LockLabel, ReadLabel
  <2> QED BY <1>1, <2>1, <2>2, Zenon
<1> QED BY <1>1, <1>4, <1>6, <1>9, Zenon DEF KnowledgeInv, LocalTypes

\* A JVM that dies takes its view along; it is not between the two stores.
LEMMA CrashKnow ==
  ASSUME NEW v \in VM, Types, KnowledgeInv, CountsWhatItPublishes, Crash(v)
  PROVE  KnowledgeInv'
<1>1. SameCounts
  BY Zenon DEF Crash, SameCounts
<1>2. LocalTypes'
  BY Fresh, Zenon DEF Crash, KnowledgeInv, LocalTypes
<1>3. ASSUME NEW u \in Thread, VMOf[u] = v
      PROVE  KnowInv(u)' /\ pc'[u] # "published" /\ pc[u] # "published"
  <2>1. pc'[u] = "dead" /\ op'[u] = NoOp /\ cc'[VMOf[u]] = NewCC /\ pc[u] \in CrashLabel
    BY <1>3, Zenon DEF Crash, KnowledgeInv, LocalTypes
  <2>2. 0 <= theca'.updateCount
    BY <1>1, Zenon DEF SameCounts, KnowledgeInv, UpdatesInv
  <2>3. NoneRead(u)' /\ SettledView(u)'
    BY <2>1, <2>2, Fresh, Zenon DEF NoneRead, SettledView
  <2>4. KnowInv(u)'
    BY <2>1, <2>3, Zenon DEF KnowInv
  <2> QED BY <2>1, <2>4, Zenon DEF CountsWhatItPublishes
<1>4. ASSUME NEW u \in Thread, VMOf[u] # v
      PROVE  KnowInv(u)' /\ pc'[u] = pc[u]
  <2>1. /\ pc'[u] = pc[u] /\ job'[u] = job[u] /\ op'[u] = op[u]
        /\ cc'[VMOf[u]] = cc[VMOf[u]]
    BY <1>4, CacheAssumption, Zenon DEF Crash, KnowledgeInv, LocalTypes
  <2>2. KnowInv(u)
    BY Zenon DEF KnowledgeInv
  <2> QED BY <1>1, <2>1, <2>2, SameView, Zenon
<1>5. \A u \in Thread : pc'[u] = "published" <=> pc[u] = "published"
  BY <1>3, <1>4, Zenon
<1>6. UpdatesInv'
  BY <1>1, <1>5, Zenon DEF UpdatesInv, SameCounts, KnowledgeInv
<1> QED BY <1>2, <1>3, <1>4, <1>6, Zenon DEF KnowledgeInv

\* Every step keeps what the JVMs know.
LEMMA NextKnow ==
  ASSUME OneThreadEach, CountsWhatItPublishes, Types, CacheInv, KnowledgeInv, [Next]_vars
  PROVE  KnowledgeInv'
<1>1. CASE UNCHANGED vars
  <2>1. SameCounts
    BY <1>1, Zenon DEF vars, SameCounts
  <2>2. \A u \in Thread : KnowInv(u)'
    BY <1>1, <2>1, SameView, Zenon DEF vars, KnowledgeInv
  <2>3. LocalTypes' /\ UpdatesInv'
    BY <1>1, Zenon DEF vars, KnowledgeInv, LocalTypes, UpdatesInv
  <2> QED BY <2>2, <2>3, Zenon DEF KnowledgeInv
<1>2. ASSUME NEW t \in Thread, Step(t) PROVE KnowledgeInv'
  <2>1. CASE Storer(t)
    BY <2>1, KnowAllocate, KnowFill, KnowStartCriticalUpdate,
       KnowCommitSegment, CommitSteps, KnowCommitSeen, KnowEndCriticalUpdate, HarmlessStep,
       Zenon DEF Storer
  <2>2. CASE Stale(t)
    BY <2>2, SettledSteps, KnowStartMark, KnowMarkItem, KnowEndMark, KnowDoUnlockCache,
       HarmlessStep, Zenon DEF Stale
  <2>3. CASE Starter(t)
    BY <2>3, SettledSteps, KnowStartRead, HarmlessStep, Zenon DEF Starter
  <2>4. CASE Refresher(t) \/ Checker(t)
    BY <2>4, KnowRefresh, KnowReadItem, KnowReadDone, KnowCheckForCrash, KnowReset,
       HarmlessStep, Zenon DEF Refresher, Checker
  <2>5. CASE Reader(t) \/ EnterWrite(t) \/ Locker(t) \/ ExitWrite(t)
    BY <2>5, SettledSteps, HarmlessStep, Zenon
  <2> QED BY <1>2, <2>1, <2>2, <2>3, <2>4, <2>5, Zenon DEF Step
<1> QED BY <1>1, <1>2, CrashKnow, Zenon DEF Next

\* When each JVM has one thread, and none dies between the two stores that publish an item and
\* count it, a thread about to store has every visible item in its hash tables, but for those of
\* its JVM that storeNew found no room for, and its scan at their end, whatever JVMs die elsewhere
\* and whatever resets came before.
THEOREM WritersKnowEveryItem ==
  OneThreadEach /\ CountsWhatItPublishes => (Spec => []WriterKnowsEveryItem)
<1> SUFFICES ASSUME OneThreadEach, CountsWhatItPublishes PROVE Spec => []WriterKnowsEveryItem
  OBVIOUS
<1>1. Init => Types /\ CacheInv
  BY InitTypes, InitInv, Zenon
<1>2. Init => KnowledgeInv
  <2> SUFFICES ASSUME Init PROVE KnowledgeInv
    OBVIOUS
  <2>1. LocalTypes
    BY Fresh, Zenon DEF Init, LocalTypes
  <2>2. UpdatesInv
    BY SMTT(30) DEF Init, UpdatesInv
  <2>3. ASSUME NEW t \in Thread PROVE KnowInv(t)
    <3>1. pc[t] = "new" /\ op[t] = NoOp /\ cc[VMOf[t]] = NewCC /\ theca.updateCount = 0
      BY CacheAssumption, Zenon DEF Init
    <3>2. 0 <= theca.updateCount
      BY <3>1
    <3>3. NoneRead(t) /\ SettledView(t)
      BY <3>1, <3>2, Fresh, Zenon DEF NoneRead, SettledView
    <3> QED BY <3>1, <3>3, Zenon DEF KnowInv
  <2> QED BY <2>1, <2>2, <2>3, Zenon DEF KnowledgeInv
<1>3. Types /\ CacheInv /\ [Next]_vars => (Types /\ CacheInv)'
  BY NextTypes, NextInv, Zenon
<1>4. Types /\ CacheInv /\ KnowledgeInv /\ [Next]_vars => KnowledgeInv'
  BY NextKnow, Zenon
<1>5. CacheInv /\ KnowledgeInv => WriterKnowsEveryItem
  <2> SUFFICES ASSUME CacheInv, KnowledgeInv, NEW t \in Thread, pc[t] = "storing"
               PROVE  /\ 1..theca.updateSRP \subseteq Seen(VMOf[t])
                      /\ cc[VMOf[t]].scan = theca.updateSRP
    BY Zenon DEF WriterKnowsEveryItem, At
  <2>1. theca.updateSRP = theca.updateCount
    BY Even, Zenon DEF KnowledgeInv, Writing, StoreLabel
  <2>2. KnowInv(t)
    BY Zenon DEF KnowledgeInv
  <2>3. SettledView(t) /\ UpToDate(t)
    BY <2>2, Zenon DEF KnowInv, Settled
  <2> QED BY <2>1, <2>3, Zenon DEF SettledView, UpToDate
<1> QED BY <1>1, <1>2, <1>3, <1>4, <1>5, PTL DEF Spec
=============================================================================
