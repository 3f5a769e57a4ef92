---------------------------- MODULE MonitorProofs ----------------------------
(***************************************************************************)
(* The monitor of a Java object, for any number of threads, any nesting    *)
(* and any width of the recursion bits: MonitorInv is inductive, and from  *)
(* it follow the nesting, the wait set and the refinement of JavaMonitor.  *)
(***************************************************************************)
EXTENDS MonitorInvariant, TLAPS

-----------------------------------------------------------------------------
(* What a step of t leaves alone. *)

\* The variables that are a thread's own change for t only.
Others(t) ==
    \A u \in Thread \ {t} : /\ pc'[u] = pc[u] /\ depth'[u] = depth[u]
                            /\ saved'[u] = saved[u] /\ seen'[u] = seen[u]

\* What a thread knows of the lock stays true.
LockFrame(u) ==
    /\ lockword'.owner = u <=> lockword.owner = u
    /\ lockword.owner = u => /\ FlatCount(lockword') = FlatCount(lockword)
                             /\ pc[u] \in Stale => /\ lockword'.count = lockword.count
                                                   /\ lockword'.reserved = lockword.reserved
    /\ raw'.owner = u <=> raw.owner = u
    /\ raw.owner = u => raw'.count = raw.count /\ (lockword'.inflated <=> lockword.inflated)

\* VM access and inspections of the others stay, and t respects those who halted it.
HaltFrame(t) ==
    /\ \A u \in Thread \ {t} : /\ u \in vmAccess' <=> u \in vmAccess
                               /\ \A w \in Thread : u \in inspected[w] => u \in inspected'[w]
    /\ t \in vmAccess' => t \in vmAccess \/ inspected[t] = {}

\* A thread that takes no step keeps what it knows of the lock.
LEMMA HoldFramed ==
    ASSUME NEW t \in Thread, Others(t), NEW u \in Thread \ {t}, LockFrame(u), HoldInv(u)
    PROVE  HoldInv(u)'
<1>1. /\ pc'[u] = pc[u] /\ depth'[u] = depth[u] /\ saved'[u] = saved[u] /\ seen'[u] = seen[u]
  BY Zenon DEF Others
<1>2. Away(u) => Away(u)'
  BY <1>1, Zenon DEF LockFrame, Away
<1>3. FlatHeld(u) => FlatHeld(u)'
  BY <1>1, Zenon DEF LockFrame, FlatHeld
<1>4. RawHeld(u) => RawHeld(u)'
  BY <1>1, Zenon DEF LockFrame, RawHeld
<1>5. RawOnly(u) => RawOnly(u)'
  BY <1>1, Zenon DEF LockFrame, RawOnly
<1>6. /\ pc[u] \in Stale /\ SameWord(u) => SameWord(u)'
      /\ SawInflated(u) => SawInflated(u)'
  BY <1>1, Zenon DEF LockFrame, SameWord, SawInflated
<1>7. lockword.owner = u /\ FlatCount(lockword) = 1 => lockword'.owner = u /\ FlatCount(lockword') = 1
  BY Zenon DEF LockFrame
<1>8. raw.owner = u => raw'.owner = u /\ raw'.count = raw.count
  BY Zenon DEF LockFrame
<1>9. raw.owner # u => raw'.owner # u
  BY Zenon DEF LockFrame
<1>10. FlatCount(lockword)' = FlatCount(lockword')
  BY Zenon DEF FlatCount
<1> QED BY <1>1, <1>2, <1>3, <1>4, <1>5, <1>6, <1>7, <1>8, <1>9, <1>10, Zenon DEF HoldInv, Stale

\* A thread that takes no step keeps what it knows of the form of the lock.
LEMMA FormFramed ==
    ASSUME NEW t \in Thread, Others(t), inflated' = inflated,
           lockword' = Reserved => lockword = Reserved, NEW u \in Thread \ {t}, FormInv(u)
    PROVE  FormInv(u)'
<1>1. pc'[u] = pc[u] /\ seen'[u] = seen[u]
  BY Zenon DEF Others
<1>2. Reserved' = Reserved
  BY Zenon DEF Reserved, Word
<1> QED BY <1>1, <1>2, Zenon DEF FormInv

\* A thread that takes no step still has VM access where it needs it, and those it has
\* halted stay halted.
LEMMA HaltFramed ==
    ASSUME NEW t \in Thread, Others(t), HaltFrame(t), NEW u \in Thread \ {t}, HaltInv(u)
    PROVE  HaltInv(u)'
<1>1. pc'[u] = pc[u] /\ seen'[u] = seen[u]
  BY Zenon DEF Others
<1>2. pc[u] \in Stale => u \in vmAccess'
  BY Zenon DEF HaltInv, HaltFrame
<1>3. pc[u] \in Cancelling => seen[u].owner \in Thread /\ u \in inspected'[seen[u].owner]
  BY Zenon DEF HaltInv, HaltFrame
<1>4. pc[u] = "cancelSwap" => seen[u].owner \notin vmAccess'
  BY Zenon DEF HaltInv, HaltFrame, Cancelling
<1> QED BY <1>1, <1>2, <1>3, <1>4, Zenon DEF HaltInv

-----------------------------------------------------------------------------
(* Steps by what they change of the lock. *)

\* What a step of t has to show whatever it changes of the lock.
Checked(t) ==
    /\ MonitorTypes' /\ WaitSetIsOfOneKind' /\ PinsCounted'
    /\ Others(t) /\ HaltFrame(t)
    /\ Known(t)'

\* A step of t keeps the invariant if the other threads keep what they know.
LEMMA StepKeeps ==
    ASSUME NEW t \in Thread, MonitorInv, Checked(t), WordInv',
           \A u \in Thread \ {t} : HoldInv(u)' /\ FormInv(u)'
    PROVE  MonitorInv'
<1>1. \A u \in Thread \ {t} : HaltInv(u)'
  BY HaltFramed, Zenon DEF MonitorInv, Known, Checked
<1> QED BY <1>1, Zenon DEF MonitorInv, Known, Checked

\* A step that leaves the lock word and the omrthread monitor as they are.
LEMMA QuietKeeps ==
    ASSUME NEW t \in Thread, MonitorInv, Checked(t), UNCHANGED <<lockword, raw, inflated>>
    PROVE  MonitorInv'
<1>1. \A u \in Thread \ {t} : LockFrame(u)
  BY Zenon DEF LockFrame
<1>2. \A u \in Thread \ {t} : HoldInv(u)' /\ FormInv(u)'
  BY <1>1, HoldFramed, FormFramed, Zenon DEF MonitorInv, Known, Checked
<1>3. WordInv'
  BY Zenon DEF MonitorInv, WordInv, Unlocked, Reserved, Inflated, Word
<1> QED BY <1>2, <1>3, StepKeeps, Zenon

\* A step that takes the omrthread monitor or gives it up.
LEMMA RawKeeps ==
    ASSUME NEW t \in Thread, MonitorInv, Checked(t), UNCHANGED <<lockword, inflated>>,
           raw.owner \in {NoThread, t}, raw'.owner \in {NoThread, t},
           raw'.owner = NoThread <=> raw'.count = 0
    PROVE  MonitorInv'
<1>1. \A u \in Thread \ {t} : LockFrame(u)
  BY MonitorAssumption DEF LockFrame
<1>2. \A u \in Thread \ {t} : HoldInv(u)' /\ FormInv(u)'
  BY <1>1, HoldFramed, FormFramed, Zenon DEF MonitorInv, Known, Checked
<1>3. WordInv'
  BY Zenon DEF MonitorInv, WordInv, Unlocked, Reserved, Inflated, Word
<1> QED BY <1>2, <1>3, StepKeeps, Zenon

\* A step that takes the flat lock, counts its entries or gives it up.
LEMMA FlatKeeps ==
    ASSUME NEW t \in Thread, MonitorInv, Checked(t), UNCHANGED <<raw, inflated>>,
           lockword.owner \in {NoThread, t}, ~lockword.inflated,
           lockword' = Unlocked \/ (lockword'.owner = t /\ ~lockword'.inflated)
    PROVE  MonitorInv'
<1>1. t # NoThread /\ Unlocked.owner = NoThread /\ ~Unlocked.inflated /\ Reserved.owner = NoThread
      /\ Unlocked # Reserved
  BY MonitorAssumption, Zenon DEF Unlocked, Reserved, Word
<1>2. lockword'.owner \in {NoThread, t} /\ ~lockword'.inflated /\ lockword' # Reserved
  BY <1>1, Zenon
<1>3. \A u \in Thread \ {t} : LockFrame(u)
  BY <1>2, MonitorAssumption, Zenon DEF LockFrame, MonitorInv, MonitorTypes, Checked, LockWord
<1>4. \A u \in Thread \ {t} : HoldInv(u)' /\ FormInv(u)'
  BY <1>2, <1>3, HoldFramed, FormFramed, Zenon DEF MonitorInv, Known, Checked
<1>5. WordInv'
  <2>1. Unlocked' = Unlocked /\ Reserved' = Reserved /\ Inflated' = Inflated
    BY Zenon DEF Unlocked, Reserved, Inflated, Word
  <2> QED BY <1>1, <1>2, <2>1, Zenon DEF MonitorInv, WordInv
<1> QED BY <1>4, <1>5, StepKeeps, Zenon

-----------------------------------------------------------------------------
(* The wait set and the pin count. *)

\* A step that takes threads out of the wait set, or leaves it, keeps it of one kind.
LEMMA WaitKept ==
    ASSUME NEW t \in Thread, WaitSetIsOfOneKind, rawWaiting \subseteq Thread, Others(t),
           rawWaiting' \subseteq rawWaiting, inflated' = inflated,
           t \notin rawWaiting' \/ pc'[t] = pc[t]
    PROVE  WaitSetIsOfOneKind'
  BY Zenon DEF WaitSetIsOfOneKind, Others

\* A thread in the wait set is at one of the two places that wait.
LEMMA NotWaiting ==
    ASSUME NEW t \in Thread, WaitSetIsOfOneKind, pc[t] \notin {"waiting", "timedWait"}
    PROVE  t \notin rawWaiting
  BY Zenon DEF WaitSetIsOfOneKind

\* A number counts a set: nothing is counted by 0, ...
LEMMA CountsNone == \A S : Counts(0, S) <=> S = {}
<1>1. ASSUME NEW S, Counts(0, S) PROVE S = {}
  BY <1>1 DEF Counts
<1>2. Counts(0, {})
  <2>1. 1..0 = {} /\ 0 \in Nat
    OBVIOUS
  <2>2. [i \in {} |-> i] \in [{} -> {}]
    BY Zenon
  <2> QED BY <2>1, <2>2, Zenon DEF Counts
<1> QED BY <1>1, <1>2

\* ... one element more by one more, ...
LEMMA CountsMore ==
    ASSUME NEW n, NEW S, NEW t, Counts(n, S), t \notin S
    PROVE  Counts(n + 1, S \cup {t})
<1>1. n \in Nat
  BY DEF Counts
<1>2. PICK f \in [1..n -> S] : /\ \A s \in S : \E i \in 1..n : f[i] = s
                               /\ \A i, j \in 1..n : f[i] = f[j] => i = j
  BY DEF Counts
<1> DEFINE g == [i \in 1..(n + 1) |-> IF i = n + 1 THEN t ELSE f[i]]
<1>3. g[n + 1] = t /\ \A i \in 1..n : g[i] = f[i] /\ f[i] \in S
  BY <1>1, <1>2
<1>4. \A i \in 1..(n + 1) : i \in 1..n \/ i = n + 1
  BY <1>1
<1>5. n + 1 \in Nat /\ n + 1 \in 1..(n + 1) /\ \A i \in 1..n : i \in 1..(n + 1)
  BY <1>1
<1>6. g \in [1..(n + 1) -> S \cup {t}]
  BY <1>3, <1>4
<1> HIDE DEF g
<1>7. \A s \in S \cup {t} : \E i \in 1..(n + 1) : g[i] = s
  BY <1>2, <1>3, <1>5
<1>8. \A i, j \in 1..(n + 1) : g[i] = g[j] => i = j
  BY <1>2, <1>3, <1>4
<1> QED BY <1>5, <1>6, <1>7, <1>8, Zenon DEF Counts

\* ... and one less by one less.
LEMMA CountsLess ==
    ASSUME NEW n, NEW S, NEW t \in S, Counts(n, S)
    PROVE  Counts(n - 1, S \ {t})
<1>1. n \in Nat
  BY DEF Counts
<1>2. PICK f \in [1..n -> S] : /\ \A s \in S : \E i \in 1..n : f[i] = s
                               /\ \A i, j \in 1..n : f[i] = f[j] => i = j
  BY DEF Counts
<1>3. PICK k \in 1..n : f[k] = t
  BY <1>2
<1> DEFINE g == [i \in 1..(n - 1) |-> IF i = k THEN f[n] ELSE f[i]]
<1>4. /\ n - 1 \in Nat /\ n \in 1..n /\ n \notin 1..(n - 1)
      /\ \A i \in 1..(n - 1) : i \in 1..n
      /\ \A i \in 1..n : i \in 1..(n - 1) \/ i = n
  BY <1>1, <1>3
<1>5. \A i \in 1..(n - 1) : g[i] = IF i = k THEN f[n] ELSE f[i]
  OBVIOUS
<1>6. g \in [1..(n - 1) -> S \ {t}]
  BY <1>2, <1>3, <1>4
<1> HIDE DEF g
<1>7. \A s \in S \ {t} : \E i \in 1..(n - 1) : g[i] = s
  <2> SUFFICES ASSUME NEW s \in S \ {t} PROVE \E i \in 1..(n - 1) : g[i] = s
    OBVIOUS
  <2>1. PICK i \in 1..n : f[i] = s
    BY <1>2
  <2>2. i # k
    BY <1>3, <2>1
  <2>3. CASE i = n
    BY <1>3, <1>4, <1>5, <2>1, <2>2, <2>3
  <2>4. CASE i # n
    BY <1>4, <1>5, <2>1, <2>2, <2>4
  <2> QED BY <2>3, <2>4
<1>8. \A i, j \in 1..(n - 1) : g[i] = g[j] => i = j
  BY <1>2, <1>4, <1>5
<1> QED BY <1>4, <1>6, <1>7, <1>8, Zenon DEF Counts

\* What it is for the pin count to be right after a step.
LEMMA PinsNext == Counts(pinCount', Pinned') => PinsCounted'
  BY Zenon DEF PinsCounted, Counts

\* The pin count of a step between two places that are both pinned, or both not.
LEMMA PinsKept ==
    ASSUME NEW t \in Thread, PinsCounted, Others(t), pinCount' = pinCount,
           pc'[t] \in Pinning <=> pc[t] \in Pinning
    PROVE  PinsCounted'
<1>1. Pinned' = Pinned
  BY Zenon DEF Pinned, Others
<1>2. Counts(pinCount', Pinned')
  BY <1>1, Zenon DEF PinsCounted
<1> QED BY <1>2, PinsNext, Zenon

\* The pin count of a step that pins.
LEMMA PinsAdded ==
    ASSUME NEW t \in Thread, PinsCounted, Others(t), pinCount' = pinCount + 1,
           pc'[t] \in Pinning, pc[t] \notin Pinning
    PROVE  PinsCounted'
<1>1. Pinned' = Pinned \cup {t} /\ t \notin Pinned
  BY Zenon DEF Pinned, Others
<1>2. Counts(pinCount + 1, Pinned \cup {t})
  BY <1>1, CountsMore, Zenon DEF PinsCounted
<1>3. Counts(pinCount', Pinned')
  BY <1>1, <1>2, Zenon
<1> QED BY <1>3, PinsNext, Zenon

\* The pin count of a step that unpins.
LEMMA PinsRemoved ==
    ASSUME NEW t \in Thread, PinsCounted, Others(t), pinCount' = pinCount - 1,
           pc'[t] \notin Pinning, pc[t] \in Pinning
    PROVE  PinsCounted'
<1>1. Pinned' = Pinned \ {t} /\ t \in Pinned
  BY Zenon DEF Pinned, Others
<1>2. Counts(pinCount - 1, Pinned \ {t})
  BY <1>1, CountsLess, Zenon DEF PinsCounted
<1>3. Counts(pinCount', Pinned')
  BY <1>1, <1>2, Zenon
<1> QED BY <1>3, PinsNext, Zenon

\* A step that leaves the wait set and the pin count alone.
PlainMove(t) ==
    /\ UNCHANGED <<rawWaiting, pinCount, inflated>>
    /\ pc[t] \notin {"waiting", "timedWait"}
    /\ pc'[t] \in Pinning <=> pc[t] \in Pinning

\* What such a step has still to show.
LEMMA PlainChecked ==
    ASSUME NEW t \in Thread, MonitorInv, MonitorTypes', Others(t), HaltFrame(t), PlainMove(t),
           Known(t)'
    PROVE  Checked(t)
<1>1. WaitSetIsOfOneKind'
  BY WaitKept, NotWaiting, Zenon DEF MonitorInv, MonitorTypes, PlainMove
<1>2. PinsCounted'
  BY PinsKept, Zenon DEF MonitorInv, PlainMove
<1> QED BY <1>1, <1>2, Zenon DEF Checked

\* A step that changes nothing of VM access.
LEMMA AccessKept ==
    ASSUME NEW t \in Thread, UNCHANGED <<vmAccess, inspected>>
    PROVE  HaltFrame(t)
  BY Zenon DEF HaltFrame

\* A step that releases or acquires VM access.
LEMMA AccessChanged ==
    ASSUME NEW t \in Thread, Release(t) \/ Acquire(t), UNCHANGED inspected
    PROVE  HaltFrame(t)
  BY Zenon DEF HaltFrame, Release, Acquire, MayRun

-----------------------------------------------------------------------------
(* What has to be known at each place. *)

\* Back in Java code, with the lock or without it.
LEMMA AtJava ==
    ASSUME NEW t \in Thread, pc'[t] = "java", Away(t)' \/ FlatHeld(t)' \/ RawHeld(t)'
    PROVE  Known(t)'
  BY Zenon DEF Known, HoldInv, FormInv, HaltInv, Stale, Inflating, Cancelling, Queueing, HasRaw,
      InWait

\* On the way to block, or blocked, without the lock.
LEMMA AtBlocked ==
    ASSUME NEW t \in Thread, pc'[t] \in {"block", "cancelled"} \cup Queueing, Away(t)',
           lockword' # Reserved
    PROVE  Known(t)'
<1>1. Reserved' = Reserved
  BY Zenon DEF Reserved, Word
<1> QED
  BY <1>1, Zenon DEF Known, HoldInv, FormInv, HaltInv, Stale, Inflating, Cancelling, Queueing,
      HasRaw, InWait

\* About to inflate, with the flat lock and VM access.
LEMMA AtInflating ==
    ASSUME NEW t \in Thread, pc'[t] \in Inflating, SameWord(t)', FlatHeld(t)', depth'[t] > 0,
           t \in vmAccess'
    PROVE  Known(t)'
  BY Zenon DEF Known, HoldInv, FormInv, HaltInv, Stale, Inflating, Cancelling, Queueing, HasRaw,
      InWait

\* With the inflated lock.
LEMMA AtRawHeld ==
    ASSUME NEW t \in Thread, pc'[t] \in {"tryEnter", "exitRaw", "waitPin", "rawWait", "waitAcquire"},
           RawHeld(t)', WordInv'
    PROVE  Known(t)'
<1>1. inflated'
  BY Zenon DEF RawHeld, WordInv
<1> QED
  BY <1>1, Zenon DEF Known, HoldInv, FormInv, HaltInv, Stale, Inflating, Cancelling, Queueing,
      HasRaw, InWait

\* With the omrthread monitor, and not with the lock.
LEMMA AtRawOnly ==
    ASSUME NEW t \in Thread, pc'[t] \in HasRaw \cup {"exitDeflated"}, RawOnly(t)',
           lockword' # Reserved, pc'[t] = "loop" \/ ~inflated'
    PROVE  Known(t)'
<1>1. Reserved' = Reserved
  BY Zenon DEF Reserved, Word
<1> QED
  BY <1>1, Zenon DEF Known, HoldInv, FormInv, HaltInv, Stale, Inflating, Cancelling, Queueing,
      HasRaw, InWait

\* With the lock, and still pinned.
LEMMA AtUnpin ==
    ASSUME NEW t \in Thread, pc'[t] = "unpin", depth'[t] > 0, FlatHeld(t)' \/ RawHeld(t)'
    PROVE  Known(t)'
  BY Zenon DEF Known, HoldInv, FormInv, HaltInv, Stale, Inflating, Cancelling, Queueing, HasRaw,
      InWait

-----------------------------------------------------------------------------
(* Entering without blocking. *)

\* Taking the unlocked flat lock keeps the invariant.
LEMMA EnterFastKeeps ==
    ASSUME NEW t \in Thread, MonitorInv, MonitorTypes', EnterFast(t)
    PROVE  MonitorInv'
<1>1. HoldInv(t) /\ WordInv /\ MonitorTypes
  BY Zenon DEF MonitorInv, Known
<1>2. /\ Others(t) /\ pc'[t] = "java" /\ depth'[t] = depth[t] + 1
      /\ pc[t] \in {"java", "cancelled", "enterSeen"} /\ (pc[t] = "enterSeen" => ~seen[t].inflated)
      /\ UNCHANGED <<raw, inflated, rawWaiting, pinCount, vmAccess, inspected>>
  BY <1>1, Zenon DEF MonitorTypes, Others, EnterFast, Entered, Goto, rawVars, vmVars
<1>3. /\ lockword.owner = NoThread /\ ~lockword.inflated /\ lockword'.owner = t /\ ~lockword'.inflated
      /\ FlatCount(lockword') = 1 /\ t # NoThread
  BY MonitorAssumption DEF EnterFast, Unlocked, Mine, Word, FlatCount
<1>4. Away(t)
  BY <1>1, <1>2, <1>3, Zenon DEF HoldInv, FlatHeld, RawHeld, SameWord, SawInflated
<1>5. FlatHeld(t)'
  BY <1>2, <1>3, <1>4 DEF FlatHeld, Away, FlatCount
<1>6. PlainMove(t)
  BY <1>2, Zenon DEF PlainMove, Pinning, Queueing, HasRaw, InWait
<1>7. Checked(t)
  BY <1>2, <1>5, <1>6, AtJava, AccessKept, PlainChecked, Zenon
<1> QED BY <1>2, <1>3, <1>7, FlatKeeps, Zenon

\* Loading the lock word keeps the invariant: what is loaded is the lock word.
LEMMA EnterLoadKeeps ==
    ASSUME NEW t \in Thread, MonitorInv, MonitorTypes', EnterLoad(t)
    PROVE  MonitorInv'
<1>1. HoldInv(t) /\ WordInv /\ MonitorTypes
  BY Zenon DEF MonitorInv, Known
<1>2. /\ Others(t) /\ pc'[t] = "enterSeen" /\ seen'[t] = lockword /\ depth' = depth
      /\ pc[t] = "java" /\ t \in vmAccess'
      /\ UNCHANGED <<lockword, raw, inflated, rawWaiting, pinCount, vmAccess, inspected>>
  BY <1>1, Zenon DEF MonitorTypes, Others, EnterLoad, Load, Goto, rawVars, vmVars
<1>3. /\ FlatHeld(t) => SameWord(t)' /\ FlatHeld(t)'
      /\ RawHeld(t) => SawInflated(t)' /\ RawHeld(t)'
      /\ Away(t) => seen'[t].owner # t /\ Away(t)'
  BY <1>1, <1>2, MonitorAssumption, Zenon DEF WordInv, SameWord, SawInflated, FlatHeld, RawHeld,
      Away, FlatCount
<1>4. HoldInv(t)'
  BY <1>1, <1>2, <1>3, Zenon DEF HoldInv, Inflating, Cancelling, Queueing, HasRaw
<1>5. FormInv(t)' /\ HaltInv(t)'
  <2>1. lockword.inflated => lockword # Reserved
    BY DEF Reserved, Word
  <2>2. Reserved' = Reserved
    BY Zenon DEF Reserved, Word
  <2> QED BY <1>2, <2>1, <2>2, Zenon DEF FormInv, HaltInv, Cancelling, Queueing, HasRaw, InWait
<1>6. PlainMove(t)
  BY <1>2, Zenon DEF PlainMove, Pinning, Queueing, HasRaw, InWait
<1>7. Checked(t)
  BY <1>2, <1>4, <1>5, <1>6, AccessKept, PlainChecked, Zenon DEF Known
<1> QED BY <1>2, <1>7, QuietKeeps, Zenon

\* Storing the incremented word keeps the invariant: only the FLC bit can have changed
\* since it was loaded.
LEMMA EnterRecursiveKeeps ==
    ASSUME NEW t \in Thread, MonitorInv, MonitorTypes', EnterRecursive(t)
    PROVE  MonitorInv'
<1>1. HoldInv(t) /\ WordInv /\ MonitorTypes
  BY Zenon DEF MonitorInv, Known
<1>2. /\ Others(t) /\ pc'[t] = "java" /\ depth'[t] = depth[t] + 1
      /\ pc[t] = "enterSeen" /\ seen[t].owner = t
      /\ UNCHANGED <<raw, inflated, rawWaiting, pinCount, vmAccess, inspected>>
  BY <1>1, Zenon DEF MonitorTypes, Others, EnterRecursive, Entered, Goto, rawVars, vmVars
<1>3. SameWord(t) /\ FlatHeld(t)
  BY <1>1, <1>2, MonitorAssumption, Zenon DEF HoldInv, SawInflated
<1>4. /\ lockword'.owner = t /\ ~lockword'.inflated /\ lockword'.reserved = seen[t].reserved
      /\ lockword'.count = seen[t].count + 1
  BY <1>1, <1>2, <1>3, Zenon DEF EnterRecursive, SameWord, MonitorTypes, LockWord
<1>5. FlatHeld(t)'
  BY <1>1, <1>2, <1>3, <1>4 DEF FlatHeld, SameWord, FlatCount, MonitorTypes, LockWord
<1>6. PlainMove(t)
  BY <1>2, Zenon DEF PlainMove, Pinning, Queueing, HasRaw, InWait
<1>7. Checked(t)
  BY <1>2, <1>5, <1>6, AtJava, AccessKept, PlainChecked, Zenon
<1>8. lockword.owner = t /\ ~lockword.inflated
  BY <1>1, <1>3, MonitorAssumption, Zenon DEF SameWord, WordInv
<1> QED BY <1>2, <1>4, <1>7, <1>8, FlatKeeps, Zenon

\* Making a reservation keeps the invariant.
LEMMA EnterReserveKeeps ==
    ASSUME NEW t \in Thread, MonitorInv, MonitorTypes', EnterReserve(t)
    PROVE  MonitorInv'
<1>1. HoldInv(t) /\ WordInv /\ MonitorTypes
  BY Zenon DEF MonitorInv, Known
<1>2. /\ Others(t) /\ pc'[t] = "java" /\ depth'[t] = depth[t] + 1
      /\ pc[t] = "enterSeen"
      /\ UNCHANGED <<raw, inflated, rawWaiting, pinCount, vmAccess, inspected>>
  BY <1>1, Zenon DEF MonitorTypes, Others, EnterReserve, Entered, Goto, rawVars, vmVars
<1>3. /\ lockword.owner = NoThread /\ ~lockword.inflated /\ lockword'.owner = t /\ ~lockword'.inflated
      /\ FlatCount(lockword') = 1 /\ t # NoThread /\ seen[t].owner = NoThread /\ ~seen[t].inflated
  BY MonitorAssumption DEF EnterReserve, Reserved, Word, FlatCount
<1>4. Away(t)
  BY <1>1, <1>2, <1>3, Zenon DEF HoldInv, SameWord, SawInflated
<1>5. FlatHeld(t)'
  BY <1>2, <1>3, <1>4 DEF FlatHeld, Away, FlatCount
<1>6. PlainMove(t)
  BY <1>2, Zenon DEF PlainMove, Pinning, Queueing, HasRaw, InWait
<1>7. Checked(t)
  BY <1>2, <1>5, <1>6, AtJava, AccessKept, PlainChecked, Zenon
<1> QED BY <1>2, <1>3, <1>7, FlatKeeps, Zenon

\* Finding the recursion bits full keeps the invariant.
LEMMA EnterFullKeeps ==
    ASSUME NEW t \in Thread, MonitorInv, MonitorTypes', EnterFull(t)
    PROVE  MonitorInv'
<1>1. HoldInv(t) /\ HaltInv(t) /\ MonitorTypes
  BY Zenon DEF MonitorInv, Known
<1>2. /\ Others(t) /\ pc'[t] = "inflateTry" /\ pc[t] = "enterSeen" /\ seen[t].owner = t
      /\ UNCHANGED <<lockword, seen, depth, raw, inflated, rawWaiting, pinCount, vmAccess, inspected>>
  BY <1>1, Zenon DEF MonitorTypes, Others, EnterFull, Goto, lockVars, rawVars, vmVars
<1>3. SameWord(t) /\ FlatHeld(t)
  BY <1>1, <1>2, MonitorAssumption, Zenon DEF HoldInv, SawInflated
<1>4. depth[t] > 0
  BY <1>1, <1>3, MonitorAssumption DEF EnterFull, FlatHeld, SameWord, FlatCount, MonitorTypes,
      LockWord
<1>5. SameWord(t)' /\ FlatHeld(t)' /\ t \in vmAccess'
  BY <1>1, <1>2, <1>3, Zenon DEF SameWord, FlatHeld, FlatCount, HaltInv, Stale
<1>6. PlainMove(t)
  BY <1>2, Zenon DEF PlainMove, Pinning, Queueing, HasRaw, InWait
<1>7. Checked(t)
  BY <1>2, <1>4, <1>5, <1>6, AtInflating, AccessKept, PlainChecked, Zenon DEF Inflating
<1> QED BY <1>2, <1>7, QuietKeeps, Zenon

\* Trying to enter the omrthread monitor keeps the invariant.
LEMMA TryEnterKeeps ==
    ASSUME NEW t \in Thread, MonitorInv, MonitorTypes', TryEnter(t)
    PROVE  MonitorInv'
<1>1. HoldInv(t) /\ FormInv(t) /\ WordInv /\ MonitorTypes
  BY Zenon DEF MonitorInv, Known
<1>2. /\ pc[t] \in {"tryEnter", "enterSeen"} /\ (pc[t] = "enterSeen" => seen[t].inflated)
      /\ UNCHANGED <<lockword, seen, saved, inflated, rawWaiting, pinCount, vmAccess, inspected>>
  BY Zenon DEF TryEnter, lockVars, vmVars
<1>3. RawHeld(t) \/ (pc[t] = "enterSeen" /\ Away(t))
  BY <1>1, <1>2, Zenon DEF HoldInv, SameWord
<1>4. CASE raw.owner = t \/ (RawFree /\ lockword.inflated)
  <2>1. /\ Others(t) /\ pc'[t] = "java" /\ depth'[t] = depth[t] + 1
        /\ raw'.owner = t /\ raw'.count = raw.count + 1
    BY <1>1, <1>2, <1>4 DEF MonitorTypes, Others, TryEnter, Entered, RawOwn, Goto
  <2>2. raw.owner \in {NoThread, t} /\ (raw.owner = NoThread => raw.count = 0)
    BY <1>1, <1>4, Zenon DEF RawFree, WordInv
  <2>3. RawHeld(t)'
    BY <1>1, <1>2, <1>3, <1>4, <2>1, <2>2, MonitorAssumption DEF RawHeld, Away, MonitorTypes
  <2>4. PlainMove(t)
    BY <1>2, <2>1, Zenon DEF PlainMove, Pinning, Queueing, HasRaw, InWait
  <2>5. Checked(t)
    BY <1>2, <2>1, <2>3, <2>4, AtJava, AccessKept, PlainChecked, Zenon
  <2>6. raw'.owner = NoThread <=> raw'.count = 0
    BY <1>1, <2>1, MonitorAssumption DEF MonitorTypes
  <2> QED BY <1>2, <2>1, <2>2, <2>5, <2>6, RawKeeps, Zenon
<1>5. CASE ~(raw.owner = t \/ (RawFree /\ lockword.inflated))
  <2>1. Others(t) /\ pc'[t] = "block" /\ UNCHANGED <<raw, depth>>
    BY <1>1, <1>2, <1>5, Zenon DEF MonitorTypes, Others, TryEnter, Goto
  <2>2. pc[t] = "enterSeen" /\ Away(t)' /\ lockword' # Reserved
    BY <1>1, <1>2, <1>3, <1>5, <2>1, Zenon DEF RawHeld, Away, FormInv
  <2>3. PlainMove(t)
    BY <1>2, <2>1, Zenon DEF PlainMove, Pinning, Queueing, HasRaw, InWait
  <2>4. Checked(t)
    BY <1>2, <2>1, <2>2, <2>3, AtBlocked, AccessKept, PlainChecked, Zenon
  <2> QED BY <1>2, <2>1, <2>4, QuietKeeps, Zenon
<1> QED BY <1>4, <1>5, Zenon

\* Finding the flat lock held by another thread keeps the invariant.
LEMMA EnterContendedKeeps ==
    ASSUME NEW t \in Thread, MonitorInv, MonitorTypes', EnterContended(t)
    PROVE  MonitorInv'
<1>1. HoldInv(t) /\ MonitorTypes
  BY Zenon DEF MonitorInv, Known
<1>2. /\ Others(t) /\ pc'[t] = "block" /\ pc[t] = "enterSeen"
      /\ ~seen[t].inflated /\ seen[t].owner # t /\ lockword' # Reserved
      /\ UNCHANGED <<lockword, depth, raw, inflated, rawWaiting, pinCount, vmAccess, inspected>>
  BY <1>1, Zenon DEF MonitorTypes, Others, EnterContended, Goto, lockVars, rawVars, vmVars
<1>3. Away(t)'
  BY <1>1, <1>2, Zenon DEF HoldInv, SameWord, SawInflated, Away
<1>4. PlainMove(t)
  BY <1>2, Zenon DEF PlainMove, Pinning, Queueing, HasRaw, InWait
<1>5. Checked(t)
  BY <1>2, <1>3, <1>4, AtBlocked, AccessKept, PlainChecked, Zenon
<1> QED BY <1>2, <1>5, QuietKeeps, Zenon

-----------------------------------------------------------------------------
(* Inflating. *)

\* Inflation keeps the invariant: the omrthread monitor gets the nesting of the flat lock,
\* and since it was free nobody is between looking at its form and acting on it.
LEMMA InflateKeeps ==
    ASSUME NEW t \in Thread, MonitorInv, MonitorTypes', objectMonitorInflate(t)
    PROVE  MonitorInv'
<1>1. HoldInv(t) /\ WordInv /\ MonitorTypes /\ PinsCounted
  BY Zenon DEF MonitorInv, Known
<1>2. /\ Others(t) /\ pc[t] \in Inflating /\ pc'[t] \in {"tryEnter", "exitRaw", "waitPin"}
      /\ UNCHANGED <<depth, pinCount, vmAccess, inspected>>
  BY <1>1, Zenon DEF MonitorTypes, Others, objectMonitorInflate, Goto, AfterInflate, Inflating,
      vmVars
<1>3. /\ raw.owner = NoThread /\ raw'.owner = t /\ raw'.count = FlatCount(seen[t])
      /\ lockword' = Inflated /\ inflated' = TRUE /\ rawWaiting' = {}
  BY Zenon DEF objectMonitorInflate, RawFree, RawOwn
<1>4. SameWord(t) /\ FlatHeld(t) /\ depth[t] > 0
  BY <1>1, <1>2, Zenon DEF HoldInv
<1>5. FlatCount(seen[t]) = depth[t]
  BY <1>4, Zenon DEF SameWord, FlatHeld, FlatCount
<1>6. /\ Inflated.owner = NoThread /\ Inflated.inflated = TRUE /\ Inflated # Reserved
      /\ Inflated' = Inflated /\ Reserved' = Reserved
  BY Zenon DEF Inflated, Reserved, Word
<1>7. RawHeld(t)'
  BY <1>2, <1>3, <1>4, <1>5, <1>6, Zenon DEF RawHeld
<1>8. WordInv'
  BY <1>1, <1>3, <1>4, <1>5, <1>6, MonitorAssumption DEF WordInv
<1>9. Checked(t)
  <2>1. WaitSetIsOfOneKind'
    BY <1>3, Zenon DEF WaitSetIsOfOneKind
  <2>2. PinsCounted'
    BY <1>1, <1>2, PinsKept, Zenon DEF Inflating, Pinning, Queueing, HasRaw, InWait
  <2>3. Known(t)'
    BY <1>2, <1>7, <1>8, AtRawHeld, Zenon
  <2> QED BY <1>2, <2>1, <2>2, <2>3, AccessKept, Zenon DEF Checked
<1>10. ASSUME NEW u \in Thread \ {t} PROVE HoldInv(u)' /\ FormInv(u)'
  <2>1. HoldInv(u) /\ FormInv(u)
    BY Zenon DEF MonitorInv, Known
  <2>2. LockFrame(u)
    BY <1>3, <1>4, <1>6, MonitorAssumption, Zenon DEF LockFrame, SameWord
  <2>3. pc[u] \notin HasRaw \cup {"gotFlat", "exitDeflated"}
    BY <1>3, <2>1, MonitorAssumption, Zenon DEF HoldInv, RawOnly
  <2>4. FormInv(u)'
    BY <1>2, <1>3, <1>6, <2>3, Zenon DEF FormInv, Others, HasRaw
  <2> QED BY <1>2, <2>1, <2>2, <2>4, HoldFramed, Zenon
<1> QED BY <1>8, <1>9, <1>10, StepKeeps, Zenon

-----------------------------------------------------------------------------
(* Cancelling a reservation. *)

\* Asking the owner of the reservation to halt keeps the invariant.
LEMMA CancelHaltKeeps ==
    ASSUME NEW t \in Thread, MonitorInv, MonitorTypes', CancelHalt(t)
    PROVE  MonitorInv'
<1>1. HoldInv(t) /\ FormInv(t) /\ WordInv /\ MonitorTypes
  BY Zenon DEF MonitorInv, Known
<1>2. /\ Others(t) /\ pc[t] = "block" /\ pc'[t] \in Cancelling /\ seen'[t] = lockword
      /\ UNCHANGED <<lockword, depth, raw, inflated, rawWaiting, pinCount>>
  BY <1>1 DEF MonitorTypes, Others, CancelHalt, Goto, Load, rawVars, Cancelling
<1>3. lockword.owner \in Thread /\ lockword # Reserved
  <2>1. lockword.reserved /\ lockword # Reserved
    BY <1>1, <1>2, Zenon DEF FormInv, CancelHalt
  <2>2. lockword \notin {Unlocked, Reserved, Inflated}
    BY <2>1 DEF Unlocked, Inflated, Word
  <2> QED BY <1>1, <2>1, <2>2, Zenon DEF WordInv, MonitorTypes, LockWord
<1>4. /\ vmAccess' \subseteq vmAccess
      /\ \A u \in Thread \ {t} : u \in vmAccess' <=> u \in vmAccess
      /\ pc'[t] = "cancelSwap" => lockword.owner \notin vmAccess'
  BY <1>1, <1>2 DEF CancelHalt, Release, Goto, MonitorTypes, Cancelling
<1>5. /\ t \in inspected'[lockword.owner]
      /\ \A u \in Thread \ {t}, w \in Thread : u \in inspected[w] => u \in inspected'[w]
  <2>1. /\ inspected' = [inspected EXCEPT ![lockword.owner] = @ \cup {t}]
        /\ inspected \in [Thread -> SUBSET Thread]
    BY <1>1, Zenon DEF CancelHalt, MonitorTypes
  <2> QED BY <1>3, <2>1, Zenon
<1>6. HaltFrame(t)
  BY <1>4, <1>5, Zenon DEF HaltFrame
<1>7. Away(t)'
  BY <1>1, <1>2, Zenon DEF HoldInv, Away
<1>8. Known(t)'
  <2>1. Reserved' = Reserved
    BY Zenon DEF Reserved, Word
  <2> QED
    BY <1>2, <1>3, <1>4, <1>5, <1>7, <2>1, Zenon DEF Known, HoldInv, FormInv, HaltInv, Stale,
        Inflating, Cancelling, Queueing, HasRaw, InWait
<1>9. PlainMove(t)
  BY <1>2, Zenon DEF PlainMove, Cancelling, Pinning, Queueing, HasRaw, InWait
<1>10. Checked(t)
  BY <1>2, <1>6, <1>8, <1>9, PlainChecked, Zenon
<1> QED BY <1>2, <1>10, QuietKeeps, Zenon

\* Going on once the owner is halted keeps the invariant: nobody takes VM access that
\* another thread has halted.
LEMMA CancelHaltedKeeps ==
    ASSUME NEW t \in Thread, MonitorInv, MonitorTypes', CancelHalted(t)
    PROVE  MonitorInv'
<1>1. Known(t) /\ MonitorTypes
  BY Zenon DEF MonitorInv
<1>2. /\ Others(t) /\ pc[t] = "cancelWait" /\ pc'[t] = "cancelSwap" /\ Acquire(t)
      /\ UNCHANGED <<lockword, seen, depth, raw, inflated, rawWaiting, pinCount, inspected>>
  BY <1>1, Zenon DEF MonitorTypes, Others, CancelHalted, Goto, lockVars, rawVars
<1>3. seen[t].owner \in Thread /\ t \in inspected'[seen[t].owner] /\ seen[t].owner \notin vmAccess'
  BY <1>1, <1>2, Zenon DEF Known, HaltInv, Cancelling, CancelHalted, Acquire, MayRun
<1>4. Away(t)' /\ lockword' # Reserved
  BY <1>1, <1>2, Zenon DEF Known, HoldInv, FormInv, Cancelling, Away
<1>5. Known(t)'
  <2>1. Reserved' = Reserved
    BY Zenon DEF Reserved, Word
  <2> QED
    BY <1>2, <1>3, <1>4, <2>1, Zenon DEF Known, HoldInv, FormInv, HaltInv, Stale, Inflating,
        Cancelling, Queueing, HasRaw, InWait
<1>6. PlainMove(t)
  BY <1>2, Zenon DEF PlainMove, Pinning, Queueing, HasRaw, InWait
<1>7. Checked(t)
  BY <1>2, <1>5, <1>6, AccessChanged, PlainChecked, Zenon
<1> QED BY <1>2, <1>7, QuietKeeps, Zenon

\* The owner of a reservation that has not entered the lock is in Java code.
LEMMA ReservedIdle ==
    ASSUME NEW u \in Thread, HoldInv(u), WordInv, pc[u] \in Label, pc[u] \notin Stale,
           lockword.owner = u, FlatCount(lockword) = 0
    PROVE  pc[u] = "waiting" \/ (pc[u] = "java" /\ depth[u] = 0 /\ raw.owner # u)
<1>1. ~Away(u) /\ ~RawHeld(u) /\ ~RawOnly(u)
  BY MonitorAssumption, Zenon DEF Away, RawHeld, RawOnly, WordInv
<1>2. FlatHeld(u) => depth[u] = 0 /\ raw.owner # u
  BY Zenon DEF FlatHeld
<1> QED
  BY <1>1, <1>2 DEF HoldInv, Label, Stale, Pinning, InWait, Queueing, Cancelling, HasRaw

\* Cancelling a reservation keeps the invariant: its owner has no VM access, so it is not
\* between a load and a store of the lock word.
LEMMA CancelSwapKeeps ==
    ASSUME NEW t \in Thread, MonitorInv, MonitorTypes', CancelSwap(t)
    PROVE  MonitorInv'
<1>1. Known(t) /\ WordInv /\ MonitorTypes
  BY Zenon DEF MonitorInv
<1>2. /\ Others(t) /\ pc[t] = "cancelSwap" /\ pc'[t] = "cancelled"
      /\ UNCHANGED <<depth, raw, inflated, rawWaiting, pinCount, vmAccess>>
  BY <1>1, Zenon DEF MonitorTypes, Others, CancelSwap, Goto, rawVars
<1>3. Away(t) /\ lockword # Reserved /\ seen[t].owner \notin vmAccess /\ seen[t].owner \in Thread
  BY <1>1, <1>2, Zenon DEF Known, HoldInv, FormInv, HaltInv, Cancelling
<1>4. \A u \in Thread \ {t}, w \in Thread : u \in inspected[w] => u \in inspected'[w]
  BY <1>1, Zenon DEF CancelSwap, MonitorTypes
<1>5. HaltFrame(t)
  BY <1>2, <1>4, Zenon DEF HaltFrame
<1>6. /\ Unlocked.owner = NoThread /\ ~Unlocked.inflated /\ Unlocked # Reserved
      /\ Unlocked' = Unlocked /\ Reserved' = Reserved /\ Inflated' = Inflated
  BY Zenon DEF Unlocked, Reserved, Inflated, Word
<1>7. \/ lockword' = lockword
      \/ /\ lockword.owner = seen[t].owner /\ lockword.reserved
         /\ lockword.count > 0 /\ lockword' = [lockword EXCEPT !.count = @ - 1, !.reserved = FALSE]
      \/ /\ lockword.owner = seen[t].owner /\ lockword.reserved
         /\ lockword.count = 0 /\ lockword' = Unlocked
  BY <1>1 DEF CancelSwap, Unreserve, MonitorTypes, LockWord
<1>8. ASSUME Away(t)', lockword' # Reserved PROVE Checked(t)
  <2>1. PlainMove(t)
    BY <1>2, Zenon DEF PlainMove, Pinning, Queueing, HasRaw, InWait
  <2> QED BY <1>2, <1>5, <1>8, <2>1, AtBlocked, PlainChecked, Zenon
<1>9. CASE lockword' = lockword
  BY <1>2, <1>3, <1>8, <1>9, QuietKeeps, Zenon DEF Away
<1>10. CASE /\ lockword.owner = seen[t].owner /\ lockword.reserved
            /\ lockword.count > 0 /\ lockword' = [lockword EXCEPT !.count = @ - 1, !.reserved = FALSE]
  <2>1. /\ lockword'.owner = lockword.owner /\ lockword'.inflated = lockword.inflated
        /\ lockword'.count = lockword.count - 1 /\ lockword'.reserved = FALSE
    BY <1>1, <1>10, Zenon DEF MonitorTypes, LockWord
  <2>2. FlatCount(lockword') = FlatCount(lockword)
    BY <1>1, <1>10, <2>1 DEF FlatCount, MonitorTypes, LockWord
  <2>3. lockword.owner # NoThread /\ lockword' # Reserved
    BY <1>3, <1>10, <2>1, MonitorAssumption, Zenon DEF Reserved, Word
  <2>4. WordInv'
    BY <1>1, <1>2, <1>6, <2>1, <2>3, Zenon DEF WordInv
  <2>5. Checked(t)
    BY <1>2, <1>3, <1>8, <2>1, <2>3, Zenon DEF Away
  <2>6. ASSUME NEW u \in Thread \ {t} PROVE HoldInv(u)' /\ FormInv(u)'
    <3>1. Known(u)
      BY Zenon DEF MonitorInv
    <3>2. lockword.owner = u => pc[u] \notin Stale
      BY <1>3, <1>10, <3>1, Zenon DEF Known, HaltInv
    <3>3. LockFrame(u)
      BY <1>2, <2>1, <2>2, <3>2, Zenon DEF LockFrame
    <3> QED BY <1>2, <2>3, <3>1, <3>3, HoldFramed, FormFramed, Zenon DEF Known
  <2> QED BY <2>4, <2>5, <2>6, StepKeeps, Zenon
<1>11. CASE /\ lockword.owner = seen[t].owner /\ lockword.reserved
            /\ lockword.count = 0 /\ lockword' = Unlocked
  <2>1. lockword.owner # NoThread /\ lockword' # Reserved /\ FlatCount(lockword) = 0
    BY <1>3, <1>6, <1>11, MonitorAssumption DEF FlatCount
  <2>2. ~lockword.inflated
    BY <1>1, <2>1, Zenon DEF WordInv
  <2>3. WordInv'
    BY <1>1, <1>2, <1>6, <1>11, <2>2, Zenon DEF WordInv, MonitorTypes, LockWord
  <2>4. Checked(t)
    BY <1>2, <1>3, <1>6, <1>8, <1>11, MonitorAssumption, Zenon DEF Away
  <2>5. ASSUME NEW u \in Thread \ {t} PROVE HoldInv(u)' /\ FormInv(u)'
    <3>1. Known(u) /\ pc[u] \in Label
      BY <1>1, Zenon DEF MonitorInv, MonitorTypes
    <3>2. FormInv(u)'
      BY <1>2, <2>1, <3>1, FormFramed, Zenon DEF Known
    <3>3. CASE lockword.owner = u
      <4>1. pc[u] \notin Stale
        BY <1>3, <1>11, <3>1, <3>3, Zenon DEF Known, HaltInv
      <4>2. pc[u] = "waiting" \/ (pc[u] = "java" /\ depth[u] = 0 /\ raw.owner # u)
        BY <1>1, <2>1, <3>1, <3>3, <4>1, ReservedIdle, Zenon DEF Known
      <4>3. pc[u] = "java" => Away(u)'
        BY <1>2, <1>6, <1>11, <4>2, MonitorAssumption, Zenon DEF Away
      <4>4. pc[u] = "waiting" => (depth[u] > 0 /\ saved[u] = depth[u] /\ raw.owner # u)'
        BY <1>2, <3>1, Zenon DEF Known, HoldInv, Others
      <4> QED
        BY <1>2, <3>2, <4>2, <4>3, <4>4, Zenon DEF HoldInv, Others, Inflating, Cancelling,
            Queueing, HasRaw
    <3>4. CASE lockword.owner # u
      <4>1. LockFrame(u)
        BY <1>2, <1>6, <1>11, <2>2, <3>4, MonitorAssumption, Zenon DEF LockFrame
      <4> QED BY <1>2, <3>1, <3>2, <4>1, HoldFramed, Zenon DEF Known
    <3> QED BY <3>3, <3>4, Zenon
  <2> QED BY <2>3, <2>4, <2>5, StepKeeps, Zenon
<1> QED BY <1>7, <1>9, <1>10, <1>11, Zenon

\* Looking at the lock word again keeps the invariant.
LEMMA CancelAgainKeeps ==
    ASSUME NEW t \in Thread, MonitorInv, MonitorTypes', CancelAgain(t)
    PROVE  MonitorInv'
<1>1. Known(t) /\ MonitorTypes
  BY Zenon DEF MonitorInv
<1>2. /\ Others(t) /\ pc[t] = "cancelled" /\ pc'[t] = "block"
      /\ UNCHANGED <<lockword, depth, raw, inflated, rawWaiting, pinCount, vmAccess, inspected>>
  BY <1>1, Zenon DEF MonitorTypes, Others, CancelAgain, Goto, lockVars, rawVars, vmVars
<1>3. Away(t)' /\ lockword' # Reserved
  BY <1>1, <1>2, Zenon DEF Known, HoldInv, FormInv, Away
<1>4. PlainMove(t)
  BY <1>2, Zenon DEF PlainMove, Pinning, Queueing, HasRaw, InWait
<1>5. Checked(t)
  BY <1>2, <1>3, <1>4, AtBlocked, AccessKept, PlainChecked, Zenon
<1> QED BY <1>2, <1>5, QuietKeeps, Zenon

-----------------------------------------------------------------------------
(* Entering with blocking. *)

\* Pinning the monitor keeps the invariant.
LEMMA BlockPinKeeps ==
    ASSUME NEW t \in Thread, MonitorInv, MonitorTypes', BlockPin(t)
    PROVE  MonitorInv'
<1>1. Known(t) /\ MonitorTypes /\ WaitSetIsOfOneKind /\ PinsCounted
  BY Zenon DEF MonitorInv
<1>2. /\ Others(t) /\ pc[t] = "block" /\ pc'[t] = "restart" /\ pinCount' = pinCount + 1
      /\ UNCHANGED <<lockword, depth, raw, inflated, rawWaiting, vmAccess, inspected>>
  BY <1>1, Zenon DEF MonitorTypes, Others, BlockPin, Goto, lockVars, vmVars
<1>3. Away(t)' /\ lockword' # Reserved
  BY <1>1, <1>2, Zenon DEF Known, HoldInv, FormInv, Away
<1>4. WaitSetIsOfOneKind'
  BY <1>1, <1>2, WaitKept, NotWaiting, Zenon DEF MonitorTypes
<1>5. PinsCounted'
  BY <1>1, <1>2, PinsAdded, Zenon DEF Pinning, Queueing, HasRaw, InWait
<1>6. Known(t)'
  BY <1>2, <1>3, AtBlocked, Zenon DEF Queueing
<1> QED BY <1>2, <1>4, <1>5, <1>6, AccessKept, QuietKeeps, Zenon DEF Checked

\* Giving VM access up before blocking keeps the invariant.
LEMMA RestartKeeps ==
    ASSUME NEW t \in Thread, MonitorInv, MonitorTypes', Restart(t)
    PROVE  MonitorInv'
<1>1. Known(t) /\ MonitorTypes
  BY Zenon DEF MonitorInv
<1>2. /\ Others(t) /\ pc[t] = "restart" /\ pc'[t] = "rawEnter" /\ Release(t)
      /\ UNCHANGED <<lockword, depth, raw, inflated, rawWaiting, pinCount, inspected>>
  BY <1>1, Zenon DEF MonitorTypes, Others, Restart, Goto, lockVars, rawVars
<1>3. Away(t)' /\ lockword' # Reserved
  BY <1>1, <1>2, Zenon DEF Known, HoldInv, FormInv, Queueing, Away
<1>4. PlainMove(t)
  BY <1>2, Zenon DEF PlainMove, Pinning, Queueing
<1>5. Checked(t)
  BY <1>2, <1>3, <1>4, AtBlocked, AccessChanged, PlainChecked, Zenon DEF Queueing
<1> QED BY <1>2, <1>5, QuietKeeps, Zenon

\* Entering the omrthread monitor keeps the invariant.
LEMMA RawEnterKeeps ==
    ASSUME NEW t \in Thread, MonitorInv, MonitorTypes', RawEnter(t)
    PROVE  MonitorInv'
<1>1. Known(t) /\ MonitorTypes
  BY Zenon DEF MonitorInv
<1>2. /\ Others(t) /\ pc[t] = "rawEnter" /\ pc'[t] = "loop"
      /\ raw.owner = NoThread /\ raw'.owner = t /\ raw'.count = 1
      /\ UNCHANGED <<lockword, depth, inflated, rawWaiting, pinCount, vmAccess, inspected>>
  BY <1>1, Zenon DEF MonitorTypes, Others, RawEnter, RawFree, RawOwn, Goto, lockVars, vmVars
<1>3. RawOnly(t)' /\ lockword' # Reserved
  BY <1>1, <1>2, Zenon DEF Known, HoldInv, FormInv, Queueing, Away, RawOnly
<1>4. PlainMove(t)
  BY <1>2, Zenon DEF PlainMove, Pinning, Queueing, HasRaw
<1>5. Checked(t)
  BY <1>2, <1>3, <1>4, AtRawOnly, AccessKept, PlainChecked, Zenon DEF HasRaw
<1> QED BY <1>2, <1>5, MonitorAssumption, RawKeeps

\* Entering the inflated lock keeps the invariant.
LEMMA LoopInflatedKeeps ==
    ASSUME NEW t \in Thread, MonitorInv, MonitorTypes', LoopInflated(t)
    PROVE  MonitorInv'
<1>1. Known(t) /\ MonitorTypes /\ WordInv
  BY Zenon DEF MonitorInv
<1>2. /\ Others(t) /\ pc[t] = "loop" /\ pc'[t] = "unpin" /\ Acquire(t)
      /\ depth'[t] = depth[t] + 1 /\ inflated
      /\ UNCHANGED <<lockword, raw, inflated, rawWaiting, pinCount, inspected>>
  BY <1>1, Zenon DEF MonitorTypes, Others, LoopInflated, Entered, Goto, lockVars, rawVars
<1>3. RawHeld(t)' /\ depth'[t] > 0
  BY <1>1, <1>2 DEF Known, HoldInv, HasRaw, RawOnly, RawHeld, WordInv
<1>4. PlainMove(t)
  BY <1>2, Zenon DEF PlainMove, Pinning, HasRaw
<1>5. Checked(t)
  BY <1>2, <1>3, <1>4, AtUnpin, AccessChanged, PlainChecked, Zenon
<1> QED BY <1>2, <1>5, QuietKeeps, Zenon

\* Leaving the omrthread monitor because VM access is refused keeps the invariant.
LEMMA LoopRefusedKeeps ==
    ASSUME NEW t \in Thread, MonitorInv, MonitorTypes', LoopRefused(t)
    PROVE  MonitorInv'
<1>1. Known(t) /\ MonitorTypes
  BY Zenon DEF MonitorInv
<1>2. /\ Others(t) /\ pc[t] = "loop" /\ pc'[t] = "reacquire" /\ RawExit
      /\ UNCHANGED <<lockword, depth, inflated, rawWaiting, pinCount, vmAccess, inspected>>
  BY <1>1, Zenon DEF MonitorTypes, Others, LoopRefused, Goto, lockVars, vmVars
<1>3. RawOnly(t) /\ lockword' # Reserved
  BY <1>1, <1>2, Zenon DEF Known, HoldInv, FormInv, HasRaw
<1>4. raw.owner = t /\ raw'.owner = NoThread /\ raw'.count = 0
  BY <1>2, <1>3, Zenon DEF RawOnly, RawExit
<1>5. Away(t)'
  BY <1>2, <1>3, <1>4, MonitorAssumption, Zenon DEF RawOnly, Away
<1>6. PlainMove(t)
  BY <1>2, Zenon DEF PlainMove, Pinning, Queueing, HasRaw
<1>7. Checked(t)
  BY <1>2, <1>3, <1>5, <1>6, AtBlocked, AccessKept, PlainChecked, Zenon DEF Queueing
<1> QED BY <1>2, <1>4, <1>7, RawKeeps, Zenon

\* Taking VM access back before trying again keeps the invariant.
LEMMA ReacquireKeeps ==
    ASSUME NEW t \in Thread, MonitorInv, MonitorTypes', Reacquire(t)
    PROVE  MonitorInv'
<1>1. Known(t) /\ MonitorTypes
  BY Zenon DEF MonitorInv
<1>2. /\ Others(t) /\ pc[t] = "reacquire" /\ pc'[t] = "restart" /\ Acquire(t)
      /\ UNCHANGED <<lockword, depth, raw, inflated, rawWaiting, pinCount, inspected>>
  BY <1>1, Zenon DEF MonitorTypes, Others, Reacquire, Goto, lockVars, rawVars
<1>3. Away(t)' /\ lockword' # Reserved
  BY <1>1, <1>2, Zenon DEF Known, HoldInv, FormInv, Queueing, Away
<1>4. PlainMove(t)
  BY <1>2, Zenon DEF PlainMove, Pinning, Queueing
<1>5. Checked(t)
  BY <1>2, <1>3, <1>4, AtBlocked, AccessChanged, PlainChecked, Zenon DEF Queueing
<1> QED BY <1>2, <1>5, QuietKeeps, Zenon

\* Finding the monitor not inflated, with VM access, keeps the invariant.
LEMMA LoopAcquireKeeps ==
    ASSUME NEW t \in Thread, MonitorInv, MonitorTypes', LoopAcquire(t)
    PROVE  MonitorInv'
<1>1. Known(t) /\ MonitorTypes
  BY Zenon DEF MonitorInv
<1>2. /\ Others(t) /\ pc[t] = "loop" /\ pc'[t] = "flc" /\ Acquire(t) /\ ~inflated'
      /\ UNCHANGED <<lockword, depth, raw, inflated, rawWaiting, pinCount, inspected>>
  BY <1>1, Zenon DEF MonitorTypes, Others, LoopAcquire, Goto, lockVars, rawVars
<1>3. RawOnly(t)' /\ lockword' # Reserved
  BY <1>1, <1>2, Zenon DEF Known, HoldInv, FormInv, HasRaw, RawOnly
<1>4. PlainMove(t)
  BY <1>2, Zenon DEF PlainMove, Pinning, HasRaw
<1>5. Checked(t)
  BY <1>2, <1>3, <1>4, AtRawOnly, AccessChanged, PlainChecked, Zenon DEF HasRaw
<1> QED BY <1>2, <1>5, QuietKeeps, Zenon

\* Setting the FLC bit in the lock word of another thread keeps the invariant.
LEMMA SetFLCKeeps ==
    ASSUME NEW t \in Thread, MonitorInv, MonitorTypes', SetFLC(t)
    PROVE  MonitorInv'
<1>1. Known(t) /\ MonitorTypes /\ WordInv
  BY Zenon DEF MonitorInv
<1>2. /\ Others(t) /\ pc[t] = "flc" /\ pc'[t] = "loopEnter"
      /\ UNCHANGED <<depth, raw, inflated, rawWaiting, pinCount, vmAccess, inspected>>
  BY <1>1, Zenon DEF MonitorTypes, Others, SetFLC, Goto, rawVars, vmVars
<1>3. RawOnly(t) /\ lockword # Reserved /\ ~inflated
  BY <1>1, <1>2, Zenon DEF Known, HoldInv, FormInv, HasRaw
<1>4. /\ lockword'.owner = lockword.owner /\ lockword'.count = lockword.count
      /\ lockword'.reserved = lockword.reserved /\ lockword'.inflated = lockword.inflated
  BY <1>1, Zenon DEF SetFLC, MonitorTypes, LockWord
<1>5. lockword' # Reserved /\ (lockword'.owner = NoThread => lockword' = Unlocked)
  <2>1. lockword # Inflated
    BY <1>1, <1>3 DEF WordInv, Inflated, Word
  <2>2. lockword # Unlocked => lockword'.flc = TRUE
    BY <1>1, Zenon DEF SetFLC, MonitorTypes, LockWord
  <2>3. lockword' = Reserved => lockword'.flc = FALSE
    BY DEF Reserved, Word
  <2> QED BY <1>1, <1>3, <1>4, <2>1, <2>2, <2>3, Zenon DEF WordInv, SetFLC
<1>6. WordInv'
  <2>1. Unlocked' = Unlocked
    BY Zenon DEF Unlocked, Word
  <2> QED BY <1>1, <1>2, <1>4, <1>5, <2>1, Zenon DEF WordInv
<1>7. RawOnly(t)'
  BY <1>2, <1>3, <1>4, Zenon DEF RawOnly
<1>8. PlainMove(t)
  BY <1>2, Zenon DEF PlainMove, Pinning, HasRaw
<1>9. Checked(t)
  BY <1>2, <1>3, <1>5, <1>7, <1>8, AtRawOnly, AccessKept, PlainChecked, Zenon DEF HasRaw
<1>10. \A u \in Thread \ {t} : LockFrame(u)
  BY <1>2, <1>4, Zenon DEF LockFrame, FlatCount
<1>11. \A u \in Thread \ {t} : HoldInv(u)' /\ FormInv(u)'
  BY <1>2, <1>5, <1>10, HoldFramed, FormFramed, Zenon DEF MonitorInv, Known
<1> QED BY <1>6, <1>9, <1>11, StepKeeps, Zenon

\* Taking the flat lock from the queue keeps the invariant.
LEMMA LoopEnterKeeps ==
    ASSUME NEW t \in Thread, MonitorInv, MonitorTypes', LoopEnter(t)
    PROVE  MonitorInv'
<1>1. Known(t) /\ MonitorTypes
  BY Zenon DEF MonitorInv
<1>2. /\ Others(t) /\ pc[t] = "loopEnter" /\ pc'[t] = "gotFlat" /\ depth'[t] = depth[t] + 1
      /\ UNCHANGED <<raw, inflated, rawWaiting, pinCount, vmAccess, inspected>>
  BY <1>1, Zenon DEF MonitorTypes, Others, LoopEnter, Entered, Goto, rawVars, vmVars
<1>3. /\ lockword.owner = NoThread /\ ~lockword.inflated /\ lockword'.owner = t /\ ~lockword'.inflated
      /\ FlatCount(lockword') = 1
  BY DEF LoopEnter, Unlocked, Mine, Word, FlatCount
<1>4. RawOnly(t) /\ ~inflated
  BY <1>1, <1>2, Zenon DEF Known, HoldInv, FormInv, HasRaw
<1>5. Known(t)'
  <2>1. FlatCount(lockword)' = 1 /\ depth'[t] = 1 /\ raw'.owner = t /\ raw'.count = 1
    BY <1>2, <1>3, <1>4 DEF FlatCount, RawOnly
  <2> QED
    BY <1>2, <1>3, <1>4, <2>1, Zenon DEF Known, HoldInv, FormInv, HaltInv, Stale, Inflating,
        Cancelling, Queueing, HasRaw, InWait
<1>6. PlainMove(t)
  BY <1>2, Zenon DEF PlainMove, Pinning, HasRaw
<1>7. Checked(t)
  BY <1>2, <1>5, <1>6, AccessKept, PlainChecked, Zenon
<1> QED BY <1>2, <1>3, <1>7, FlatKeeps, Zenon

\* Leaving the omrthread monitor with the flat lock keeps the invariant.
LEMMA GotFlatKeeps ==
    ASSUME NEW t \in Thread, MonitorInv, MonitorTypes', GotFlat(t)
    PROVE  MonitorInv'
<1>1. Known(t) /\ MonitorTypes
  BY Zenon DEF MonitorInv
<1>2. /\ Others(t) /\ pc[t] = "gotFlat" /\ pc'[t] = "passFLC" /\ RawExit
      /\ UNCHANGED <<lockword, depth, inflated, rawWaiting, pinCount, vmAccess, inspected>>
  BY <1>1, Zenon DEF MonitorTypes, Others, GotFlat, Goto, lockVars, vmVars
<1>3. /\ lockword.owner = t /\ FlatCount(lockword) = 1 /\ depth[t] = 1
      /\ raw.owner = t /\ raw.count = 1
  BY <1>1, <1>2, Zenon DEF Known, HoldInv
<1>4. raw'.owner = NoThread /\ raw'.count = 0
  BY <1>2, <1>3, Zenon DEF RawExit
<1>5. FlatHeld(t)' /\ depth'[t] = 1
  BY <1>2, <1>3, <1>4, MonitorAssumption, Zenon DEF FlatHeld, FlatCount
<1>6. Known(t)'
  BY <1>2, <1>5, Zenon DEF Known, HoldInv, FormInv, HaltInv, Stale, Inflating, Cancelling,
      Queueing, HasRaw, InWait
<1>7. PlainMove(t)
  BY <1>2, Zenon DEF PlainMove, Pinning
<1>8. Checked(t)
  BY <1>2, <1>6, <1>7, AccessKept, PlainChecked, Zenon
<1> QED BY <1>2, <1>3, <1>4, <1>8, RawKeeps, Zenon

\* Leaving FLC set for those behind keeps the invariant.
LEMMA PassFLCKeeps ==
    ASSUME NEW t \in Thread, MonitorInv, MonitorTypes', PassFLC(t)
    PROVE  MonitorInv'
<1>1. Known(t) /\ MonitorTypes /\ WordInv
  BY Zenon DEF MonitorInv
<1>2. /\ Others(t) /\ pc[t] = "passFLC" /\ pc'[t] = "unpin"
      /\ UNCHANGED <<depth, raw, inflated, rawWaiting, pinCount, vmAccess, inspected>>
  BY <1>1, Zenon DEF MonitorTypes, Others, PassFLC, Goto, rawVars, vmVars
<1>3. FlatHeld(t) /\ depth[t] = 1
  BY <1>1, <1>2, Zenon DEF Known, HoldInv
<1>4. lockword.owner = t /\ ~lockword.inflated
  BY <1>1, <1>3, MonitorAssumption, Zenon DEF FlatHeld, WordInv
<1>5. /\ lockword'.owner = t /\ ~lockword'.inflated /\ lockword'.count = lockword.count
      /\ lockword'.reserved = lockword.reserved
  BY <1>1, <1>4, Zenon DEF PassFLC, MonitorTypes, LockWord
<1>6. FlatHeld(t)' /\ depth'[t] > 0
  BY <1>2, <1>3, <1>5 DEF FlatHeld, FlatCount
<1>7. PlainMove(t)
  BY <1>2, Zenon DEF PlainMove, Pinning
<1>8. Checked(t)
  BY <1>2, <1>6, <1>7, AtUnpin, AccessKept, PlainChecked, Zenon
<1> QED BY <1>2, <1>4, <1>5, <1>8, FlatKeeps, Zenon

\* Waiting for the flat lock keeps the invariant.
LEMMA LoopWaitKeeps ==
    ASSUME NEW t \in Thread, MonitorInv, MonitorTypes', LoopWait(t)
    PROVE  MonitorInv'
<1>1. Known(t) /\ MonitorTypes /\ WaitSetIsOfOneKind /\ PinsCounted
  BY Zenon DEF MonitorInv
<1>2. /\ Others(t) /\ pc[t] = "loopEnter" /\ pc'[t] = "timedWait" /\ RawExit /\ Release(t)
      /\ rawWaiting' = rawWaiting \cup {t}
      /\ UNCHANGED <<lockword, depth, inflated, pinCount, inspected>>
  BY <1>1, Zenon DEF MonitorTypes, Others, LoopWait, Goto, lockVars
<1>3. RawOnly(t) /\ lockword' # Reserved /\ ~inflated
  BY <1>1, <1>2, Zenon DEF Known, HoldInv, FormInv, HasRaw
<1>4. raw.owner = t /\ raw'.owner = NoThread /\ raw'.count = 0
  BY <1>2, <1>3, Zenon DEF RawOnly, RawExit
<1>5. Away(t)'
  BY <1>2, <1>3, <1>4, MonitorAssumption, Zenon DEF RawOnly, Away
<1>6. WaitSetIsOfOneKind'
  BY <1>1, <1>2, <1>3, Zenon DEF WaitSetIsOfOneKind, Others, MonitorTypes
<1>7. PinsCounted'
  BY <1>1, <1>2, PinsKept, Zenon DEF Pinning, Queueing, HasRaw
<1>8. Known(t)'
  BY <1>2, <1>3, <1>5, AtBlocked, Zenon DEF Queueing
<1> QED BY <1>2, <1>4, <1>6, <1>7, <1>8, AccessChanged, RawKeeps, Zenon DEF Checked

\* Waking up keeps the invariant.
LEMMA WakeKeeps ==
    ASSUME NEW t \in Thread, MonitorInv, MonitorTypes', Wake(t)
    PROVE  MonitorInv'
<1>1. Known(t) /\ MonitorTypes /\ WaitSetIsOfOneKind /\ PinsCounted
  BY Zenon DEF MonitorInv
<1>2. /\ Others(t) /\ pc[t] = "timedWait" /\ pc'[t] = "rawEnter"
      /\ rawWaiting' = rawWaiting \ {t}
      /\ UNCHANGED <<lockword, depth, raw, inflated, pinCount, vmAccess, inspected>>
  BY <1>1, Zenon DEF MonitorTypes, Others, Wake, Goto, lockVars, vmVars
<1>3. Away(t)' /\ lockword' # Reserved
  BY <1>1, <1>2, Zenon DEF Known, HoldInv, FormInv, Queueing, Away
<1>4. WaitSetIsOfOneKind'
  BY <1>1, <1>2, WaitKept, Zenon DEF MonitorTypes
<1>5. PinsCounted'
  BY <1>1, <1>2, PinsKept, Zenon DEF Pinning, Queueing
<1>6. Known(t)'
  BY <1>2, <1>3, AtBlocked, Zenon DEF Queueing
<1> QED BY <1>2, <1>4, <1>5, <1>6, AccessKept, QuietKeeps, Zenon DEF Checked

\* Unpinning keeps the invariant.
LEMMA UnpinKeeps ==
    ASSUME NEW t \in Thread, MonitorInv, MonitorTypes', Unpin(t)
    PROVE  MonitorInv'
<1>1. Known(t) /\ MonitorTypes /\ WaitSetIsOfOneKind /\ PinsCounted
  BY Zenon DEF MonitorInv
<1>2. /\ Others(t) /\ pc[t] = "unpin" /\ pc'[t] = "java" /\ pinCount' = pinCount - 1
      /\ UNCHANGED <<lockword, depth, raw, inflated, rawWaiting, vmAccess, inspected>>
  BY <1>1, Zenon DEF MonitorTypes, Others, Unpin, Goto, lockVars, vmVars
<1>3. FlatHeld(t)' \/ RawHeld(t)'
  BY <1>1, <1>2, Zenon DEF Known, HoldInv, FlatHeld, FlatCount, RawHeld
<1>4. WaitSetIsOfOneKind'
  BY <1>1, <1>2, WaitKept, NotWaiting, Zenon DEF MonitorTypes
<1>5. PinsCounted'
  BY <1>1, <1>2, PinsRemoved, Zenon DEF Pinning, Queueing, HasRaw, InWait
<1>6. Known(t)'
  BY <1>2, <1>3, AtJava, Zenon
<1> QED BY <1>2, <1>4, <1>5, <1>6, AccessKept, QuietKeeps, Zenon DEF Checked

-----------------------------------------------------------------------------
(* Exiting. *)

\* What a thread loads that holds the lock: the word that counts its entries, or inflated.
LEMMA HeldLoaded ==
    ASSUME NEW t \in Thread, WordInv, pc[t] = "java", HoldInv(t), depth[t] > 0,
           UNCHANGED <<lockword, depth, raw>>, seen'[t] = lockword
    PROVE  \/ ~lockword.inflated /\ SameWord(t)' /\ FlatHeld(t)'
           \/ lockword.inflated /\ SawInflated(t)' /\ RawHeld(t)'
<1>1. FlatHeld(t) \/ RawHeld(t)
  BY DEF HoldInv, Away
<1>2. CASE FlatHeld(t)
  BY <1>2, MonitorAssumption, Zenon DEF FlatHeld, FlatCount, SameWord, WordInv
<1>3. CASE RawHeld(t)
  BY <1>3, Zenon DEF RawHeld, SawInflated, WordInv
<1> QED BY <1>1, <1>2, <1>3, Zenon

\* Loading the lock word to exit keeps the invariant.
LEMMA ExitLoadKeeps ==
    ASSUME NEW t \in Thread, MonitorInv, MonitorTypes', ExitLoad(t)
    PROVE  MonitorInv'
<1>1. HoldInv(t) /\ MonitorTypes /\ WordInv
  BY Zenon DEF MonitorInv, Known
<1>2. /\ Others(t) /\ pc[t] = "java" /\ pc'[t] = "exitSeen" /\ seen'[t] = lockword
      /\ depth[t] > 0 /\ t \in vmAccess'
      /\ UNCHANGED <<lockword, depth, raw, inflated, rawWaiting, pinCount, vmAccess, inspected>>
  BY <1>1, Zenon DEF MonitorTypes, Others, ExitLoad, Load, Goto, rawVars, vmVars
<1>3. (SameWord(t)' /\ FlatHeld(t)') \/ (SawInflated(t)' /\ RawHeld(t)')
  BY <1>1, <1>2, HeldLoaded, Zenon
<1>4. Known(t)'
  BY <1>2, <1>3, Zenon DEF Known, HoldInv, FormInv, HaltInv, Inflating, Cancelling, Queueing,
      HasRaw, InWait
<1>5. PlainMove(t)
  BY <1>2, Zenon DEF PlainMove, Pinning, Queueing, HasRaw, InWait
<1>6. Checked(t)
  BY <1>2, <1>4, <1>5, AccessKept, PlainChecked, Zenon
<1> QED BY <1>2, <1>6, QuietKeeps, Zenon

\* Storing the decremented word, or the unlocked one, keeps the invariant.
LEMMA ExitFlatKeeps ==
    ASSUME NEW t \in Thread, MonitorInv, MonitorTypes', ExitFlat(t)
    PROVE  MonitorInv'
<1>1. HoldInv(t) /\ MonitorTypes /\ WordInv
  BY Zenon DEF MonitorInv, Known
<1>2. /\ Others(t) /\ pc[t] = "exitSeen" /\ pc'[t] = "java" /\ seen[t].owner = t
      /\ depth'[t] = depth[t] - 1
      /\ UNCHANGED <<raw, inflated, rawWaiting, pinCount, vmAccess, inspected>>
  BY <1>1, Zenon DEF MonitorTypes, Others, ExitFlat, Goto, rawVars, vmVars
<1>3. SameWord(t) /\ FlatHeld(t) /\ depth[t] > 0
  BY <1>1, <1>2, MonitorAssumption, Zenon DEF HoldInv, SawInflated
<1>4. FlatCount(seen[t]) = depth[t] /\ lockword.owner = t /\ ~lockword.inflated
  BY <1>1, <1>3, MonitorAssumption, Zenon DEF SameWord, FlatHeld, FlatCount, WordInv
<1>5. ASSUME seen[t].count = 0 PROVE Away(t)'
  <2>1. lockword' = Unlocked /\ depth'[t] = 0
    BY <1>2, <1>3, <1>4, <1>5 DEF ExitFlat, FlatCount
  <2>2. Unlocked.owner # t
    BY MonitorAssumption, Zenon DEF Unlocked, Word
  <2> QED BY <1>2, <1>3, <2>1, <2>2, Zenon DEF Away, FlatHeld
<1>6. ASSUME seen[t].count # 0 PROVE FlatHeld(t)'
  <2>1. /\ lockword'.owner = t /\ ~lockword'.inflated /\ lockword'.reserved = seen[t].reserved
        /\ lockword'.count = seen[t].count - 1
    BY <1>1, <1>2, <1>3, <1>6, Zenon DEF ExitFlat, SameWord, MonitorTypes, LockWord
  <2>2. FlatCount(lockword)' = depth'[t]
    BY <1>1, <1>2, <1>4, <2>1 DEF FlatCount, MonitorTypes, LockWord
  <2> QED BY <1>2, <1>3, <2>1, <2>2, Zenon DEF FlatHeld
<1>7. Away(t)' \/ FlatHeld(t)'
  BY <1>5, <1>6, Zenon
<1>8. PlainMove(t)
  BY <1>2, Zenon DEF PlainMove, Pinning, Queueing, HasRaw, InWait
<1>9. Checked(t)
  BY <1>2, <1>7, <1>8, AtJava, AccessKept, PlainChecked, Zenon
<1>10. lockword' = Unlocked \/ (lockword'.owner = t /\ ~lockword'.inflated)
  BY <1>1, <1>2, <1>3, Zenon DEF ExitFlat, SameWord, MonitorTypes, LockWord
<1> QED BY <1>2, <1>4, <1>9, <1>10, FlatKeeps, Zenon

\* Finding the FLC bit set keeps the invariant.
LEMMA ExitContendedKeeps ==
    ASSUME NEW t \in Thread, MonitorInv, MonitorTypes', ExitContended(t)
    PROVE  MonitorInv'
<1>1. Known(t) /\ MonitorTypes
  BY Zenon DEF MonitorInv
<1>2. /\ Others(t) /\ pc[t] = "exitSeen" /\ pc'[t] = "inflateExit" /\ seen[t].owner = t
      /\ UNCHANGED <<lockword, seen, depth, raw, inflated, rawWaiting, pinCount, vmAccess, inspected>>
  BY <1>1, Zenon DEF MonitorTypes, Others, ExitContended, Goto, lockVars, rawVars, vmVars
<1>3. SameWord(t) /\ FlatHeld(t) /\ depth[t] > 0 /\ t \in vmAccess
  BY <1>1, <1>2, MonitorAssumption, Zenon DEF Known, HoldInv, HaltInv, Stale, SawInflated
<1>4. SameWord(t)' /\ FlatHeld(t)'
  BY <1>2, <1>3, Zenon DEF SameWord, FlatHeld, FlatCount
<1>5. PlainMove(t)
  BY <1>2, Zenon DEF PlainMove, Pinning, Queueing, HasRaw, InWait
<1>6. Checked(t)
  BY <1>2, <1>3, <1>4, <1>5, AtInflating, AccessKept, PlainChecked, Zenon DEF Inflating
<1> QED BY <1>2, <1>6, QuietKeeps, Zenon

\* Deflation keeps the invariant: the monitor is not pinned, so nobody is on the way into
\* it or in Object.wait.
LEMMA ExitDeflateKeeps ==
    ASSUME NEW t \in Thread, MonitorInv, MonitorTypes', ExitDeflate(t)
    PROVE  MonitorInv'
<1>1. HoldInv(t) /\ MonitorTypes /\ WordInv /\ WaitSetIsOfOneKind /\ PinsCounted
  BY Zenon DEF MonitorInv, Known
<1>2. /\ Others(t) /\ pc[t] = "exitSeen" /\ pc'[t] = "exitDeflated" /\ seen[t].inflated
      /\ depth'[t] = depth[t] - 1 /\ raw.count = 1 /\ pinCount = 0
      /\ inflated' = FALSE /\ lockword' = Unlocked
      /\ UNCHANGED <<raw, rawWaiting, pinCount, vmAccess, inspected>>
  BY <1>1, Zenon DEF MonitorTypes, Others, ExitDeflate, Goto, vmVars
<1>3. RawHeld(t)
  BY <1>1, <1>2, Zenon DEF HoldInv, SameWord
<1>4. \A u \in Thread : pc[u] \notin Pinning
  <2>1. Pinned = {}
    BY <1>1, <1>2, CountsNone, Zenon DEF PinsCounted
  <2> QED BY <2>1, Zenon DEF Pinned
<1>5. /\ Unlocked.owner = NoThread /\ Unlocked.inflated = FALSE /\ Unlocked # Reserved
      /\ Unlocked' = Unlocked /\ Reserved' = Reserved
  BY Zenon DEF Unlocked, Reserved, Word
<1>6. RawOnly(t)'
  BY <1>2, <1>3, <1>5, MonitorAssumption DEF RawHeld, RawOnly
<1>7. WordInv'
  BY <1>1, <1>2, <1>5, Zenon DEF WordInv
<1>8. Checked(t)
  <2>1. inflated /\ rawWaiting = {}
    BY <1>1, <1>3, <1>4, Zenon DEF WaitSetIsOfOneKind, WordInv, RawHeld, MonitorTypes, Pinning,
        InWait
  <2>2. WaitSetIsOfOneKind'
    BY <1>2, <2>1, Zenon DEF WaitSetIsOfOneKind
  <2>3. PinsCounted'
    BY <1>1, <1>2, PinsKept, Zenon DEF Pinning, Queueing, HasRaw, InWait
  <2>4. Known(t)'
    BY <1>2, <1>5, <1>6, AtRawOnly, Zenon
  <2> QED BY <1>2, <2>2, <2>3, <2>4, AccessKept, Zenon DEF Checked
<1>9. ASSUME NEW u \in Thread \ {t} PROVE HoldInv(u)' /\ FormInv(u)'
  <2>1. HoldInv(u) /\ FormInv(u)
    BY Zenon DEF MonitorInv, Known
  <2>2. lockword.owner = NoThread
    BY <1>1, <1>3, Zenon DEF WordInv, RawHeld
  <2>3. LockFrame(u)
    BY <1>2, <1>3, <1>5, <2>2, MonitorAssumption, Zenon DEF LockFrame, RawHeld
  <2>4. FormInv(u)'
    BY <1>2, <1>4, <1>5, Zenon DEF FormInv, Others, Pinning
  <2> QED BY <1>2, <2>1, <2>3, <2>4, HoldFramed, Zenon
<1> QED BY <1>7, <1>8, <1>9, StepKeeps, Zenon

\* Leaving the omrthread monitor once keeps the invariant.
LEMMA ExitRawKeeps ==
    ASSUME NEW t \in Thread, MonitorInv, MonitorTypes', ExitRaw(t)
    PROVE  MonitorInv'
<1>1. HoldInv(t) /\ MonitorTypes /\ WordInv
  BY Zenon DEF MonitorInv, Known
<1>2. /\ Others(t) /\ pc[t] \in {"exitRaw", "exitDeflated", "exitSeen"} /\ pc'[t] = "java"
      /\ (pc[t] = "exitSeen" => seen[t].inflated) /\ RawExit
      /\ UNCHANGED <<lockword, inflated, rawWaiting, pinCount, vmAccess, inspected>>
  BY <1>1, Zenon DEF MonitorTypes, Others, ExitRaw, Goto, lockVars, vmVars
<1>3. /\ raw.owner = t /\ raw'.owner \in {NoThread, t} /\ (raw'.owner = NoThread <=> raw'.count = 0)
      /\ Away(t)' \/ RawHeld(t)'
  <2>1. CASE pc[t] = "exitDeflated"
    <3>1. RawOnly(t) /\ depth' = depth
      BY <1>1, <2>1, Zenon DEF HoldInv, ExitRaw
    <3>2. raw.owner = t /\ raw'.owner = NoThread /\ raw'.count = 0
      BY <1>2, <3>1, Zenon DEF RawOnly, RawExit
    <3>3. Away(t)'
      BY <1>2, <3>1, <3>2, MonitorAssumption, Zenon DEF RawOnly, Away
    <3> QED BY <3>2, <3>3, Zenon
  <2>2. CASE pc[t] # "exitDeflated"
    <3>1. RawHeld(t) /\ depth'[t] = depth[t] - 1
      BY <1>1, <1>2, <2>2, Zenon DEF HoldInv, SameWord, ExitRaw, MonitorTypes
    <3>2. lockword.owner # t
      BY <1>1, <3>1, MonitorAssumption, Zenon DEF RawHeld, WordInv
    <3>3. CASE raw.count = 1
      <4>1. raw.owner = t /\ raw'.owner = NoThread /\ raw'.count = 0 /\ depth'[t] = 0
        BY <1>2, <3>1, <3>3 DEF RawHeld, RawExit
      <4>2. Away(t)'
        BY <1>2, <3>2, <4>1, MonitorAssumption, Zenon DEF Away
      <4> QED BY <4>1, <4>2, Zenon
    <3>4. CASE raw.count # 1
      <4>1. raw.owner = t /\ raw'.owner = t /\ raw'.count = raw.count - 1
        BY <1>1, <1>2, <3>1, <3>4, Zenon DEF RawHeld, RawExit, MonitorTypes
      <4>2. RawHeld(t)' /\ raw'.count # 0
        BY <1>1, <1>2, <3>1, <3>4, <4>1 DEF RawHeld, MonitorTypes
      <4> QED BY <4>1, <4>2, MonitorAssumption, Zenon
    <3> QED BY <3>3, <3>4, Zenon
  <2> QED BY <2>1, <2>2, Zenon
<1>4. PlainMove(t)
  BY <1>2, Zenon DEF PlainMove, Pinning, Queueing, HasRaw, InWait
<1>5. Checked(t)
  BY <1>2, <1>3, <1>4, AtJava, AccessKept, PlainChecked, Zenon
<1> QED BY <1>2, <1>3, <1>5, RawKeeps, Zenon

-----------------------------------------------------------------------------
(* Object.wait and notify. *)

\* Loading the lock word to wait keeps the invariant.
LEMMA WaitLoadKeeps ==
    ASSUME NEW t \in Thread, MonitorInv, MonitorTypes', WaitLoad(t)
    PROVE  MonitorInv'
<1>1. HoldInv(t) /\ MonitorTypes /\ WordInv
  BY Zenon DEF MonitorInv, Known
<1>2. /\ Others(t) /\ pc[t] = "java" /\ seen'[t] = lockword
      /\ pc'[t] = IF lockword.inflated THEN "waitPin" ELSE "inflateWait"
      /\ depth[t] > 0 /\ t \in vmAccess'
      /\ UNCHANGED <<lockword, depth, raw, inflated, rawWaiting, pinCount, vmAccess, inspected>>
  BY <1>1, Zenon DEF MonitorTypes, Others, WaitLoad, Load, Goto, rawVars, vmVars
<1>3. \/ ~lockword.inflated /\ SameWord(t)' /\ FlatHeld(t)'
      \/ lockword.inflated /\ RawHeld(t)'
  BY <1>1, <1>2, HeldLoaded, Zenon
<1>4. WordInv'
  BY <1>1, <1>2, Zenon DEF WordInv, Unlocked, Reserved, Inflated, Word
<1>5. Known(t)'
  BY <1>2, <1>3, <1>4, AtInflating, AtRawHeld, Zenon DEF Inflating
<1>6. PlainMove(t)
  BY <1>2, Zenon DEF PlainMove, Pinning, Queueing, HasRaw, InWait
<1>7. Checked(t)
  BY <1>2, <1>5, <1>6, AccessKept, PlainChecked, Zenon
<1> QED BY <1>2, <1>7, QuietKeeps, Zenon

\* Pinning the monitor for Object.wait keeps the invariant.
LEMMA WaitPinKeeps ==
    ASSUME NEW t \in Thread, MonitorInv, MonitorTypes', WaitPin(t)
    PROVE  MonitorInv'
<1>1. Known(t) /\ MonitorTypes /\ WordInv /\ WaitSetIsOfOneKind /\ PinsCounted
  BY Zenon DEF MonitorInv
<1>2. /\ Others(t) /\ pc[t] = "waitPin" /\ pc'[t] = "rawWait" /\ pinCount' = pinCount + 1
      /\ Release(t)
      /\ UNCHANGED <<lockword, depth, raw, inflated, rawWaiting, inspected>>
  BY <1>1, Zenon DEF MonitorTypes, Others, WaitPin, Goto, lockVars
<1>3. RawHeld(t)' /\ WordInv'
  BY <1>1, <1>2, Zenon DEF Known, HoldInv, RawHeld, WordInv, Unlocked, Reserved, Inflated, Word
<1>4. WaitSetIsOfOneKind'
  BY <1>1, <1>2, WaitKept, NotWaiting, Zenon DEF MonitorTypes
<1>5. PinsCounted'
  BY <1>1, <1>2, PinsAdded, Zenon DEF Pinning, Queueing, HasRaw, InWait
<1>6. Known(t)'
  BY <1>2, <1>3, AtRawHeld, Zenon
<1> QED BY <1>2, <1>4, <1>5, <1>6, AccessChanged, QuietKeeps, Zenon DEF Checked

\* Giving the monitor up in Object.wait keeps the invariant.
LEMMA RawWaitKeeps ==
    ASSUME NEW t \in Thread, MonitorInv, MonitorTypes', RawWait(t)
    PROVE  MonitorInv'
<1>1. Known(t) /\ MonitorTypes /\ WaitSetIsOfOneKind /\ PinsCounted
  BY Zenon DEF MonitorInv
<1>2. /\ Others(t) /\ pc[t] = "rawWait" /\ pc'[t] = "waiting" /\ saved'[t] = raw.count
      /\ raw'.owner = NoThread /\ raw'.count = 0 /\ rawWaiting' = rawWaiting \cup {t}
      /\ UNCHANGED <<lockword, depth, inflated, pinCount, vmAccess, inspected>>
  BY <1>1, Zenon DEF MonitorTypes, Others, RawWait, Goto, lockVars, vmVars
<1>3. RawHeld(t) /\ inflated
  BY <1>1, <1>2, Zenon DEF Known, HoldInv, FormInv, InWait
<1>4. raw.owner = t /\ depth'[t] > 0 /\ saved'[t] = depth'[t] /\ raw'.owner # t
  BY <1>2, <1>3, MonitorAssumption, Zenon DEF RawHeld
<1>5. Known(t)'
  BY <1>2, <1>3, <1>4, Zenon DEF Known, HoldInv, FormInv, HaltInv, Stale, Inflating, Cancelling,
      Queueing, HasRaw, InWait
<1>6. WaitSetIsOfOneKind'
  BY <1>1, <1>2, <1>3, Zenon DEF WaitSetIsOfOneKind, Others, MonitorTypes
<1>7. PinsCounted'
  BY <1>1, <1>2, PinsKept, Zenon DEF Pinning, InWait
<1> QED BY <1>2, <1>4, <1>5, <1>6, <1>7, AccessKept, RawKeeps, Zenon DEF Checked

\* A wait that times out keeps the invariant.
LEMMA WaitOverKeeps ==
    ASSUME NEW t \in Thread, MonitorInv, MonitorTypes', WaitOver(t)
    PROVE  MonitorInv'
<1>1. Known(t) /\ MonitorTypes /\ WaitSetIsOfOneKind /\ PinsCounted
  BY Zenon DEF MonitorInv
<1>2. /\ Others(t) /\ pc[t] = "waiting" /\ pc' = pc /\ rawWaiting' = rawWaiting \ {t}
      /\ UNCHANGED <<lockword, seen, saved, depth, raw, inflated, pinCount, vmAccess, inspected>>
  BY Zenon DEF Others, WaitOver, lockVars, vmVars
<1>3. Known(t)'
  BY <1>1, <1>2, Zenon DEF Known, HoldInv, FormInv, HaltInv, Stale, Inflating, Cancelling,
      Queueing, HasRaw, InWait
<1>4. WaitSetIsOfOneKind'
  BY <1>1, <1>2, WaitKept, Zenon DEF MonitorTypes
<1>5. PinsCounted'
  BY <1>1, <1>2, PinsKept, Zenon
<1> QED BY <1>2, <1>3, <1>4, <1>5, AccessKept, QuietKeeps, Zenon DEF Checked

\* Getting the monitor back keeps the invariant: it has not been deflated.
LEMMA RawReenterKeeps ==
    ASSUME NEW t \in Thread, MonitorInv, MonitorTypes', RawReenter(t)
    PROVE  MonitorInv'
<1>1. Known(t) /\ MonitorTypes /\ WordInv /\ WaitSetIsOfOneKind /\ PinsCounted
  BY Zenon DEF MonitorInv
<1>2. /\ Others(t) /\ pc[t] = "waiting" /\ pc'[t] = "waitAcquire" /\ t \notin rawWaiting
      /\ raw.owner = NoThread /\ raw'.owner = t /\ raw'.count = saved[t]
      /\ UNCHANGED <<lockword, depth, inflated, rawWaiting, pinCount, vmAccess, inspected>>
  BY <1>1, Zenon DEF MonitorTypes, Others, RawReenter, RawFree, RawOwn, Goto, lockVars, vmVars
<1>3. depth[t] > 0 /\ saved[t] = depth[t] /\ inflated
  BY <1>1, <1>2, Zenon DEF Known, HoldInv, FormInv, InWait
<1>4. RawHeld(t)' /\ (raw'.owner = NoThread <=> raw'.count = 0)
  BY <1>1, <1>2, <1>3, MonitorAssumption DEF RawHeld, WordInv
<1>5. WordInv'
  BY <1>1, <1>2, <1>4, Zenon DEF WordInv, Unlocked, Reserved, Inflated, Word
<1>6. Known(t)'
  BY <1>2, <1>4, <1>5, AtRawHeld, Zenon
<1>7. WaitSetIsOfOneKind'
  BY <1>1, <1>2, WaitKept, Zenon DEF MonitorTypes
<1>8. PinsCounted'
  BY <1>1, <1>2, PinsKept, Zenon DEF Pinning, InWait
<1> QED BY <1>2, <1>4, <1>6, <1>7, <1>8, AccessKept, RawKeeps, Zenon DEF Checked

\* Taking VM access back after Object.wait keeps the invariant.
LEMMA WaitAcquireKeeps ==
    ASSUME NEW t \in Thread, MonitorInv, MonitorTypes', WaitAcquire(t)
    PROVE  MonitorInv'
<1>1. Known(t) /\ MonitorTypes
  BY Zenon DEF MonitorInv
<1>2. /\ Others(t) /\ pc[t] = "waitAcquire" /\ pc'[t] = "unpin" /\ Acquire(t)
      /\ UNCHANGED <<lockword, depth, raw, inflated, rawWaiting, pinCount, inspected>>
  BY <1>1, Zenon DEF MonitorTypes, Others, WaitAcquire, Goto, lockVars, rawVars
<1>3. RawHeld(t)' /\ depth'[t] > 0
  BY <1>1, <1>2, Zenon DEF Known, HoldInv, RawHeld
<1>4. PlainMove(t)
  BY <1>2, Zenon DEF PlainMove, Pinning, InWait
<1>5. Checked(t)
  BY <1>2, <1>3, <1>4, AtUnpin, AccessChanged, PlainChecked, Zenon
<1> QED BY <1>2, <1>5, QuietKeeps, Zenon

\* Notification keeps the invariant.
LEMMA NotifyKeeps ==
    ASSUME NEW t \in Thread, MonitorInv, MonitorTypes', Notify(t)
    PROVE  MonitorInv'
<1>1. Known(t) /\ MonitorTypes /\ WaitSetIsOfOneKind /\ PinsCounted
  BY Zenon DEF MonitorInv
<1>2. /\ Others(t) /\ pc[t] = "java" /\ pc' = pc /\ rawWaiting' \subseteq rawWaiting
      /\ UNCHANGED <<lockword, depth, raw, inflated, pinCount, vmAccess, inspected>>
  BY Zenon DEF Others, Notify, lockVars, vmVars
<1>3. Away(t)' \/ FlatHeld(t)' \/ RawHeld(t)'
  BY <1>1, <1>2, Zenon DEF Known, HoldInv, Away, FlatHeld, FlatCount, RawHeld
<1>4. WaitSetIsOfOneKind'
  BY <1>1, <1>2, WaitKept, Zenon DEF MonitorTypes
<1>5. PinsCounted'
  BY <1>1, <1>2, PinsKept, Zenon
<1>6. Known(t)'
  BY <1>2, <1>3, AtJava, Zenon
<1> QED BY <1>2, <1>4, <1>5, <1>6, AccessKept, QuietKeeps, Zenon DEF Checked

-----------------------------------------------------------------------------
(* Halting and running. *)

\* A thread in Java code that releases VM access or takes it back keeps the invariant.
LEMMA HaltRunKeeps ==
    ASSUME NEW t \in Thread, MonitorInv, MonitorTypes', Halt(t) \/ Run(t)
    PROVE  MonitorInv'
<1>1. Known(t) /\ MonitorTypes
  BY Zenon DEF MonitorInv
<1>2. /\ Others(t) /\ pc[t] = "java" /\ pc' = pc /\ (Release(t) \/ Acquire(t))
      /\ UNCHANGED <<lockword, depth, raw, inflated, rawWaiting, pinCount, inspected>>
  BY Zenon DEF Others, Halt, Run, lockVars, rawVars
<1>3. Away(t)' \/ FlatHeld(t)' \/ RawHeld(t)'
  BY <1>1, <1>2, Zenon DEF Known, HoldInv, Away, FlatHeld, FlatCount, RawHeld
<1>4. PlainMove(t)
  BY <1>2, Zenon DEF PlainMove
<1>5. Checked(t)
  BY <1>2, <1>3, <1>4, AtJava, AccessChanged, PlainChecked, Zenon
<1> QED BY <1>2, <1>5, QuietKeeps, Zenon

-----------------------------------------------------------------------------
(* Types. *)

\* The lock words that are stored as such.
LEMMA WordTypes ==
    /\ Unlocked \in LockWord /\ Reserved \in LockWord /\ Inflated \in LockWord
    /\ \A t \in Thread : Mine(t) \in LockWord /\ Word(t, 1, FALSE, TRUE, FALSE) \in LockWord
  BY MonitorAssumption DEF Unlocked, Reserved, Inflated, Mine, Word, LockWord

\* A word that counts one entry less is a lock word, and so is one that is not reserved besides.
LEMMA LessTypes ==
    ASSUME NEW w \in LockWord, w.count # 0
    PROVE  [w EXCEPT !.count = @ - 1] \in LockWord
  BY MonitorAssumption DEF LockWord
LEMMA UnreserveTypes ==
    ASSUME NEW w \in LockWord, w.count > 0
    PROVE  [w EXCEPT !.count = @ - 1, !.reserved = FALSE] \in LockWord
<1>1. ASSUME NEW v \in LockWord PROVE [v EXCEPT !.reserved = FALSE] \in LockWord
  BY Zenon DEF LockWord
<1>2. w.count # 0
  BY MonitorAssumption DEF LockWord
<1>3. [w EXCEPT !.count = @ - 1] \in LockWord
  BY <1>2, LessTypes, Zenon
<1> QED BY <1>1, <1>3, Zenon

\* A thread that moves stays at a place there is.
LEMMA GotoTypes ==
    ASSUME NEW t \in Thread, pc \in [Thread -> Label], NEW l \in Label, Goto(t, l)
    PROVE  pc' \in [Thread -> Label]
  BY Zenon DEF Goto

\* Where a thread leaves the omrthread monitor, it is in it.
LEMMA RawExitTypes ==
    ASSUME NEW t \in Thread, MonitorInv, RawExit,
           pc[t] \in {"loop", "gotFlat", "loopEnter", "exitRaw", "exitDeflated"}
               \/ (pc[t] = "exitSeen" /\ seen[t].inflated)
    PROVE  raw' \in [owner : Thread \cup {NoThread}, count : Nat]
<1>1. raw.count > 0
  <2>1. HoldInv(t)
    BY Zenon DEF MonitorInv, Known
  <2> QED BY <2>1 DEF HoldInv, HasRaw, RawOnly, RawHeld, SameWord
<1> QED BY <1>1 DEF RawExit, MonitorInv, MonitorTypes

\* Where a thread exits, it is in the monitor.
LEMMA DepthTypes ==
    ASSUME NEW t \in Thread, MonitorInv, pc[t] \in {"exitSeen", "exitRaw"},
           depth' = [depth EXCEPT ![t] = @ - 1]
    PROVE  depth' \in [Thread -> Nat]
<1>1. depth[t] > 0
  <2>1. HoldInv(t)
    BY Zenon DEF MonitorInv, Known
  <2> QED BY <2>1, Zenon DEF HoldInv, RawHeld
<1> QED BY <1>1 DEF MonitorInv, MonitorTypes

\* Where a thread enters, it is in the monitor once more.
LEMMA EnteredTypes ==
    ASSUME NEW t \in Thread, depth \in [Thread -> Nat], Entered(t)
    PROVE  depth' \in [Thread -> Nat]
  BY DEF Entered

\* Entering without blocking, inflating and cancelling keep the types.
LEMMA EnterTypes ==
    ASSUME NEW t \in Thread, MonitorInv,
           \/ EnterFast(t) \/ EnterLoad(t) \/ EnterRecursive(t) \/ EnterReserve(t) \/ EnterFull(t)
           \/ TryEnter(t) \/ EnterContended(t) \/ objectMonitorInflate(t)
           \/ CancelHalt(t) \/ CancelHalted(t) \/ CancelSwap(t) \/ CancelAgain(t)
    PROVE  MonitorTypes'
<1> USE DEF MonitorTypes, lockVars, rawVars, vmVars, Entered, Load, Release, Acquire
<1>1. MonitorTypes
  BY Zenon DEF MonitorInv
<1>2. {"java", "enterSeen", "block", "cancelled", "cancelWait", "cancelSwap", "inflateTry", "tryEnter",
       "exitRaw", "waitPin"} \subseteq Label
  BY Zenon DEF Label, Stale, Inflating, Cancelling
<1>3. CASE EnterFast(t)
  <2>1. lockword' \in LockWord
    BY <1>3, WordTypes, Zenon DEF EnterFast
  <2>2. pc' \in [Thread -> Label]
    BY <1>1, <1>2, <1>3, GotoTypes, Zenon DEF EnterFast
  <2>3. depth' \in [Thread -> Nat]
    BY <1>1, <1>3, EnteredTypes, Zenon DEF EnterFast
  <2> QED BY <1>1, <1>3, <2>1, <2>2, <2>3, Zenon DEF EnterFast
<1>4. CASE EnterLoad(t)
  BY <1>1, <1>2, <1>4, GotoTypes, Zenon DEF EnterLoad
<1>5. CASE EnterRecursive(t)
  <2>1. lockword' \in LockWord
    BY <1>1, <1>5, MonitorAssumption DEF EnterRecursive, LockWord
  <2> QED BY <1>1, <1>2, <1>5, <2>1, GotoTypes DEF EnterRecursive
<1>6. CASE EnterReserve(t)
  <2>1. lockword' \in LockWord
    BY <1>6, WordTypes, Zenon DEF EnterReserve
  <2>2. pc' \in [Thread -> Label]
    BY <1>1, <1>2, <1>6, GotoTypes, Zenon DEF EnterReserve
  <2>3. depth' \in [Thread -> Nat]
    BY <1>1, <1>6, EnteredTypes, Zenon DEF EnterReserve
  <2> QED BY <1>1, <1>6, <2>1, <2>2, <2>3, Zenon DEF EnterReserve
<1>7. CASE EnterFull(t)
  BY <1>1, <1>2, <1>7, GotoTypes, Zenon DEF EnterFull
<1>8. CASE TryEnter(t)
  <2>1. pc' \in [Thread -> Label]
    BY <1>1, <1>2, <1>8, GotoTypes, Zenon DEF TryEnter
  <2> QED BY <1>1, <1>8, <2>1 DEF TryEnter, RawOwn
<1>9. CASE EnterContended(t)
  BY <1>1, <1>2, <1>9, GotoTypes, Zenon DEF EnterContended
<1>10. CASE objectMonitorInflate(t)
  <2>1. pc' \in [Thread -> Label]
    BY <1>1, <1>2, <1>10, GotoTypes, Zenon DEF objectMonitorInflate, Inflating, AfterInflate
  <2>2. raw' \in [owner : Thread \cup {NoThread}, count : Nat]
    BY <1>1, <1>10 DEF objectMonitorInflate, RawOwn, FlatCount, LockWord
  <2> QED BY <1>1, <1>10, <2>1, <2>2, WordTypes, Zenon DEF objectMonitorInflate
<1>11. CASE CancelHalt(t)
  <2>1. pc' \in [Thread -> Label]
    BY <1>1, <1>2, <1>11, GotoTypes, Zenon DEF CancelHalt
  <2> QED BY <1>1, <1>11, <2>1, Zenon DEF CancelHalt
<1>12. CASE CancelHalted(t)
  BY <1>1, <1>2, <1>12, GotoTypes, Zenon DEF CancelHalted
<1>13. CASE CancelSwap(t)
  <2>1. lockword' \in LockWord
    <3>1. lockword \in LockWord /\ lockword' \in {lockword, Unreserve(lockword)}
      BY <1>1, <1>13, Zenon DEF CancelSwap
    <3>2. Unreserve(lockword) \in LockWord
      BY <3>1, WordTypes, UnreserveTypes, Zenon DEF Unreserve
    <3> QED BY <3>1, <3>2, Zenon
  <2> QED BY <1>1, <1>2, <1>13, <2>1, GotoTypes, Zenon DEF CancelSwap
<1>14. CASE CancelAgain(t)
  BY <1>1, <1>2, <1>14, GotoTypes, Zenon DEF CancelAgain
<1> QED
  BY <1>3, <1>4, <1>5, <1>6, <1>7, <1>8, <1>9, <1>10, <1>11, <1>12, <1>13, <1>14, Zenon

\* Entering with blocking keeps the types.
LEMMA BlockTypes ==
    ASSUME NEW t \in Thread, MonitorInv,
           \/ BlockPin(t) \/ Restart(t) \/ RawEnter(t) \/ LoopInflated(t) \/ LoopRefused(t)
           \/ Reacquire(t) \/ LoopAcquire(t) \/ SetFLC(t) \/ LoopEnter(t) \/ GotFlat(t)
           \/ PassFLC(t) \/ LoopWait(t) \/ Wake(t) \/ Unpin(t)
    PROVE  MonitorTypes'
<1> USE DEF MonitorTypes, lockVars, rawVars, vmVars, Entered, Release, Acquire
<1>1. MonitorTypes
  BY Zenon DEF MonitorInv
<1>2. {"java", "restart", "rawEnter", "loop", "unpin", "reacquire", "flc", "loopEnter", "gotFlat",
       "passFLC", "timedWait"} \subseteq Label
  BY Zenon DEF Label, Pinning, Queueing, HasRaw
<1>3. CASE BlockPin(t)
  BY <1>1, <1>2, <1>3, GotoTypes DEF BlockPin
<1>4. CASE Restart(t)
  BY <1>1, <1>2, <1>4, GotoTypes, Zenon DEF Restart
<1>5. CASE RawEnter(t)
  BY <1>1, <1>2, <1>5, GotoTypes, Zenon DEF RawEnter, RawOwn
<1>6. CASE LoopInflated(t)
  BY <1>1, <1>2, <1>6, GotoTypes DEF LoopInflated
<1>7. CASE LoopRefused(t)
  <2>1. raw' \in [owner : Thread \cup {NoThread}, count : Nat]
    BY <1>7, RawExitTypes, Zenon DEF LoopRefused
  <2> QED BY <1>1, <1>2, <1>7, <2>1, GotoTypes, Zenon DEF LoopRefused
<1>8. CASE Reacquire(t)
  BY <1>1, <1>2, <1>8, GotoTypes, Zenon DEF Reacquire
<1>9. CASE LoopAcquire(t)
  BY <1>1, <1>2, <1>9, GotoTypes, Zenon DEF LoopAcquire
<1>10. CASE SetFLC(t)
  <2>1. lockword' \in LockWord
    BY <1>1, <1>10, Zenon DEF SetFLC, LockWord
  <2> QED BY <1>1, <1>2, <1>10, <2>1, GotoTypes, Zenon DEF SetFLC
<1>11. CASE LoopEnter(t)
  <2>1. lockword' \in LockWord
    BY <1>11, WordTypes, Zenon DEF LoopEnter
  <2>2. pc' \in [Thread -> Label]
    BY <1>1, <1>2, <1>11, GotoTypes, Zenon DEF LoopEnter
  <2>3. depth' \in [Thread -> Nat]
    BY <1>1, <1>11, EnteredTypes, Zenon DEF LoopEnter
  <2> QED BY <1>1, <1>11, <2>1, <2>2, <2>3, Zenon DEF LoopEnter
<1>12. CASE GotFlat(t)
  <2>1. raw' \in [owner : Thread \cup {NoThread}, count : Nat]
    BY <1>12, RawExitTypes, Zenon DEF GotFlat
  <2> QED BY <1>1, <1>2, <1>12, <2>1, GotoTypes, Zenon DEF GotFlat
<1>13. CASE PassFLC(t)
  <2>1. lockword' \in LockWord
    BY <1>1, <1>13, Zenon DEF PassFLC, LockWord
  <2> QED BY <1>1, <1>2, <1>13, <2>1, GotoTypes, Zenon DEF PassFLC
<1>14. CASE LoopWait(t)
  <2>1. raw' \in [owner : Thread \cup {NoThread}, count : Nat]
    BY <1>14, RawExitTypes, Zenon DEF LoopWait
  <2> QED BY <1>1, <1>2, <1>14, <2>1, GotoTypes, Zenon DEF LoopWait
<1>15. CASE Wake(t)
  BY <1>1, <1>2, <1>15, GotoTypes, Zenon DEF Wake
<1>16. CASE Unpin(t)
  BY <1>1, <1>2, <1>16, GotoTypes DEF Unpin
<1> QED
  BY <1>3, <1>4, <1>5, <1>6, <1>7, <1>8, <1>9, <1>10, <1>11, <1>12, <1>13, <1>14, <1>15, <1>16,
      Zenon

\* Exiting, waiting, notifying, halting and running keep the types.
LEMMA ExitTypes ==
    ASSUME NEW t \in Thread, MonitorInv,
           \/ ExitLoad(t) \/ ExitFlat(t) \/ ExitContended(t) \/ ExitDeflate(t) \/ ExitRaw(t)
           \/ WaitLoad(t) \/ WaitPin(t) \/ RawWait(t) \/ WaitOver(t) \/ RawReenter(t)
           \/ WaitAcquire(t) \/ Notify(t) \/ Halt(t) \/ Run(t)
    PROVE  MonitorTypes'
<1> USE DEF MonitorTypes, lockVars, rawVars, vmVars, Load, Release, Acquire
<1>1. MonitorTypes
  BY Zenon DEF MonitorInv
<1>2. {"java", "exitSeen", "inflateExit", "exitDeflated", "waitPin", "inflateWait", "rawWait", "waiting",
       "waitAcquire", "unpin"} \subseteq Label
  BY Zenon DEF Label, Stale, Inflating, Pinning, InWait
<1>3. CASE ExitLoad(t)
  BY <1>1, <1>2, <1>3, GotoTypes, Zenon DEF ExitLoad
<1>4. CASE ExitFlat(t)
  <2>1. lockword' \in LockWord
    <3>1. /\ seen[t] \in LockWord
          /\ lockword' = IF seen[t].count = 0 THEN Unlocked ELSE [seen[t] EXCEPT !.count = @ - 1]
      BY <1>1, <1>4, Zenon DEF ExitFlat
    <3> QED BY <3>1, WordTypes, LessTypes, Zenon
  <2>2. depth' \in [Thread -> Nat]
    BY <1>4, DepthTypes, Zenon DEF ExitFlat
  <2> QED BY <1>1, <1>2, <1>4, <2>1, <2>2, GotoTypes, Zenon DEF ExitFlat
<1>5. CASE ExitContended(t)
  BY <1>1, <1>2, <1>5, GotoTypes, Zenon DEF ExitContended
<1>6. CASE ExitDeflate(t)
  <2>1. depth' \in [Thread -> Nat]
    BY <1>6, DepthTypes, Zenon DEF ExitDeflate
  <2> QED BY <1>1, <1>2, <1>6, <2>1, WordTypes, GotoTypes, Zenon DEF ExitDeflate
<1>7. CASE ExitRaw(t)
  <2>1. raw' \in [owner : Thread \cup {NoThread}, count : Nat]
    BY <1>7, RawExitTypes, Zenon DEF ExitRaw
  <2>2. depth' \in [Thread -> Nat]
    BY <1>1, <1>7, DepthTypes, Zenon DEF ExitRaw
  <2> QED BY <1>1, <1>2, <1>7, <2>1, <2>2, GotoTypes, Zenon DEF ExitRaw
<1>8. CASE WaitLoad(t)
  <2>1. pc' \in [Thread -> Label]
    BY <1>1, <1>2, <1>8, GotoTypes, Zenon DEF WaitLoad
  <2> QED BY <1>1, <1>8, <2>1, Zenon DEF WaitLoad
<1>9. CASE WaitPin(t)
  BY <1>1, <1>2, <1>9, GotoTypes DEF WaitPin
<1>10. CASE RawWait(t)
  BY <1>1, <1>2, <1>10, GotoTypes, Zenon DEF RawWait
<1>11. CASE WaitOver(t)
  BY <1>1, <1>11, Zenon DEF WaitOver
<1>12. CASE RawReenter(t)
  BY <1>1, <1>2, <1>12, GotoTypes, Zenon DEF RawReenter, RawOwn
<1>13. CASE WaitAcquire(t)
  BY <1>1, <1>2, <1>13, GotoTypes, Zenon DEF WaitAcquire
<1>14. CASE Notify(t)
  BY <1>1, <1>14, Zenon DEF Notify
<1>15. CASE Halt(t) \/ Run(t)
  BY <1>1, <1>15, Zenon DEF Halt, Run
<1> QED
  BY <1>3, <1>4, <1>5, <1>6, <1>7, <1>8, <1>9, <1>10, <1>11, <1>12, <1>13, <1>14, <1>15, Zenon

-----------------------------------------------------------------------------
(* The invariant holds. *)

\* MonitorInv holds in the initial state.
LEMMA InitMonitor == Init => MonitorInv
<1> SUFFICES ASSUME Init PROVE MonitorInv
  OBVIOUS
<1>1. MonitorTypes
  <2>1. /\ lockword \in LockWord /\ seen \in [Thread -> LockWord] /\ pc \in [Thread -> Label]
    BY WordTypes, Zenon DEF Init, Label
  <2>2. raw \in [owner : Thread \cup {NoThread}, count : Nat] /\ pinCount \in Int
    BY DEF Init
  <2>3. saved \in [Thread -> Nat] /\ depth \in [Thread -> Nat]
    BY Zenon DEF Init
  <2> QED BY <2>1, <2>2, <2>3, Zenon DEF Init, MonitorTypes
<1>2. WordInv
  BY MonitorAssumption, Zenon DEF Init, WordInv, Unlocked, Reserved, Word
<1>3. WaitSetIsOfOneKind
  BY Zenon DEF Init, WaitSetIsOfOneKind
<1>4. PinsCounted
  <2>1. Pinned = {}
    BY Zenon DEF Init, Pinned, Pinning, Queueing, HasRaw, InWait
  <2> QED BY <2>1, CountsNone, Zenon DEF Init, PinsCounted
<1>5. ASSUME NEW t \in Thread PROVE Known(t)
  <2>1. pc[t] = "java" /\ Away(t)
    BY MonitorAssumption, Zenon DEF Init, Away, Unlocked, Reserved, Word
  <2> QED
    BY <2>1, Zenon DEF Known, HoldInv, FormInv, HaltInv, Stale, Inflating, Cancelling, Queueing,
        HasRaw, InWait
<1> QED BY <1>1, <1>2, <1>3, <1>4, <1>5, Zenon DEF MonitorInv

\* What a thread begins keeps the invariant.
LEMMA BeginKeeps ==
    ASSUME NEW t \in Thread, MonitorInv, EnterFast(t) \/ Begin(t)
    PROVE  MonitorInv'
<1>1. MonitorTypes'
  BY EnterTypes, ExitTypes, Zenon DEF Begin
<1> QED
  BY <1>1, EnterFastKeeps, EnterLoadKeeps, ExitLoadKeeps, WaitLoadKeeps, NotifyKeeps,
      WaitOverKeeps, Zenon DEF Begin

\* What a thread continues keeps the invariant.
LEMMA ContinueKeeps ==
    ASSUME NEW t \in Thread, MonitorInv, Continue(t)
    PROVE  MonitorInv'
<1>1. MonitorTypes'
  BY EnterTypes, BlockTypes, ExitTypes, Zenon DEF Continue
<1> QED
  BY <1>1, EnterRecursiveKeeps, EnterReserveKeeps, EnterFullKeeps, TryEnterKeeps,
      EnterContendedKeeps, InflateKeeps, CancelHaltKeeps, CancelHaltedKeeps, CancelSwapKeeps,
      CancelAgainKeeps, BlockPinKeeps, RestartKeeps, RawEnterKeeps, LoopInflatedKeeps,
      LoopRefusedKeeps, ReacquireKeeps, LoopAcquireKeeps, SetFLCKeeps, LoopEnterKeeps,
      GotFlatKeeps, PassFLCKeeps, LoopWaitKeeps, WakeKeeps, UnpinKeeps, ExitFlatKeeps,
      ExitContendedKeeps, ExitDeflateKeeps, ExitRawKeeps, WaitPinKeeps, RawWaitKeeps,
      RawReenterKeeps, WaitAcquireKeeps, HaltRunKeeps, Zenon DEF Continue

\* A step that leaves everything but the request for exclusive VM access keeps the invariant.
LEMMA StoppingKeeps ==
    ASSUME MonitorInv, stopping' \in BOOLEAN,
           UNCHANGED <<lockVars, rawVars, pc, vmAccess, inspected, depth>>
    PROVE  MonitorInv'
<1> USE DEF lockVars, rawVars
<1>1. MonitorTypes'
  BY Zenon DEF MonitorInv, MonitorTypes
<1>2. WordInv' /\ WaitSetIsOfOneKind'
  BY Zenon DEF MonitorInv, WordInv, WaitSetIsOfOneKind, Unlocked, Reserved, Inflated, Word
<1>3. PinsCounted'
  <2>1. Pinned' = Pinned
    BY Zenon DEF Pinned
  <2>2. Counts(pinCount', Pinned')
    BY <2>1, Zenon DEF MonitorInv, PinsCounted
  <2> QED BY <2>2, PinsNext, Zenon
<1>4. ASSUME NEW t \in Thread PROVE Known(t)'
  <2>1. Known(t)
    BY Zenon DEF MonitorInv
  <2>2. HoldInv(t)'
    BY <2>1, Zenon DEF Known, HoldInv, Away, FlatHeld, RawHeld, RawOnly, SameWord, SawInflated,
        FlatCount
  <2>3. FormInv(t)' /\ HaltInv(t)'
    BY <2>1, Zenon DEF Known, FormInv, HaltInv, Reserved, Word
  <2> QED BY <2>2, <2>3, Zenon DEF Known
<1> QED BY <1>1, <1>2, <1>3, <1>4, Zenon DEF MonitorInv

\* Every step keeps the invariant.
LEMMA NextMonitor == MonitorInv /\ [Next]_vars => MonitorInv'
<1> SUFFICES ASSUME MonitorInv, [Next]_vars PROVE MonitorInv'
  OBVIOUS
<1>1. CASE Stop
  BY <1>1, StoppingKeeps, Zenon DEF Stop
<1>2. CASE Restarted
  BY <1>2, StoppingKeeps, Zenon DEF Restarted
<1>3. CASE UNCHANGED vars
  <2>1. stopping \in BOOLEAN
    BY Zenon DEF MonitorInv, MonitorTypes
  <2> QED BY <1>3, <2>1, StoppingKeeps, Zenon DEF vars, vmVars
<1>4. ASSUME NEW t \in Thread, EnterFast(t) \/ Begin(t) \/ Continue(t) PROVE MonitorInv'
  BY <1>4, BeginKeeps, ContinueKeeps, Zenon
<1> QED BY <1>1, <1>2, <1>3, <1>4, Zenon DEF Next

\* The lock word, the omrthread monitor and what each thread has loaded of them agree with
\* each other at every place of the code.
THEOREM MonitorInvHolds == Spec => []MonitorInv
  BY InitMonitor, NextMonitor, PTL DEF Spec

\* Whatever form the lock has, it records who is in the monitor and how often.
THEOREM NestingHolds == Spec => []NestingIsKept
<1>1. MonitorInv => NestingIsKept
  <2> SUFFICES ASSUME MonitorInv, NEW t \in Thread, pc[t] = "java", depth[t] > 0
               PROVE  \/ lockword.owner = t /\ FlatCount(lockword) = depth[t]
                      \/ lockword.inflated /\ raw = [owner |-> t, count |-> depth[t]]
    BY Zenon DEF NestingIsKept
  <2>1. FlatHeld(t) \/ RawHeld(t)
    BY DEF MonitorInv, Known, HoldInv, Away
  <2>2. raw \in [owner : Thread \cup {NoThread}, count : Nat]
    BY Zenon DEF MonitorInv, MonitorTypes
  <2>3. RawHeld(t) => raw = [owner |-> t, count |-> depth[t]]
    BY <2>2, Zenon DEF RawHeld
  <2> QED BY <2>1, <2>3, Zenon DEF FlatHeld, RawHeld
<1> QED BY <1>1, MonitorInvHolds, PTL

\* The wait set holds threads in Object.wait while the lock is inflated, and threads that
\* wait to enter while it is not.
THEOREM WaitSetHolds == Spec => []WaitSetIsOfOneKind
<1>1. MonitorInv => WaitSetIsOfOneKind
  BY Zenon DEF MonitorInv
<1> QED BY <1>1, MonitorInvHolds, PTL

-----------------------------------------------------------------------------
(* The monitor is a Java monitor. *)

InObjectWait == {t \in Thread : pc[t] = "waiting"}

\* The lock is t's, or nobody's.
Clear(t) ==
    \/ lockword.owner = t
    \/ lockword.owner = NoThread /\ (lockword.inflated => raw.owner \in {NoThread, t})

\* Who is in the monitor owns the lock word, or the omrthread monitor of the inflated lock.
LEMMA OwnerKnown ==
    ASSUME NEW t \in Thread, MonitorInv, depth[t] > 0, pc[t] # "waiting"
    PROVE  lockword.owner = t \/ (lockword.inflated /\ raw.owner = t)
<1>1. HoldInv(t) /\ pc[t] \in Label
  BY Zenon DEF MonitorInv, Known, MonitorTypes
<1>2. ~Away(t) /\ ~RawOnly(t)
  BY DEF Away, RawOnly
<1>3. /\ FlatHeld(t) => lockword.owner = t
      /\ RawHeld(t) => lockword.inflated /\ raw.owner = t
  BY Zenon DEF FlatHeld, RawHeld
<1> QED
  BY <1>1, <1>2, <1>3, Zenon DEF HoldInv, Label, Stale, Pinning, Inflating, Cancelling, Queueing,
      HasRaw, InWait

\* Where the lock is t's or nobody's, t may enter.
LEMMA MayEnter ==
    ASSUME NEW t \in Thread, MonitorInv, pc[t] # "waiting", Clear(t)
    PROVE  Monitor!Owns(t) \/ Monitor!Free
<1>1. ASSUME NEW u \in Thread \ {t} PROVE ~(depth[u] > 0 /\ pc[u] # "waiting")
  BY OwnerKnown, MonitorAssumption, Zenon DEF Clear, MonitorInv, WordInv
<1> QED BY <1>1, Zenon DEF Monitor!Owns, Monitor!Free

\* A step that enters is an Enter of the Java monitor.
LEMMA EntersMonitor ==
    ASSUME NEW t \in Thread, MonitorInv, Clear(t), Others(t), Entered(t),
           pc[t] # "waiting", pc'[t] # "waiting"
    PROVE  Monitor!Enter(t)
<1>1. InObjectWait' = InObjectWait
  BY Zenon DEF InObjectWait, Others
<1> QED BY <1>1, MayEnter, Zenon DEF Monitor!Enter, Entered, InObjectWait

\* A step that exits is an Exit of the Java monitor.
LEMMA ExitsMonitor ==
    ASSUME NEW t \in Thread, Others(t), depth[t] > 0, depth' = [depth EXCEPT ![t] = @ - 1],
           pc[t] # "waiting", pc'[t] # "waiting"
    PROVE  Monitor!Exit(t)
<1>1. InObjectWait' = InObjectWait
  BY Zenon DEF InObjectWait, Others
<1> QED BY <1>1, Zenon DEF Monitor!Exit, Monitor!Owns, InObjectWait

\* A step between two places that are both not Object.wait leaves the Java monitor alone,
\* if it neither enters nor exits.
LEMMA LeavesMonitor ==
    ASSUME NEW t \in Thread, depth' = depth, \A u \in Thread \ {t} : pc'[u] = pc[u],
           pc[t] # "waiting", pc'[t] # "waiting"
    PROVE  UNCHANGED <<depth, InObjectWait>>
<1>1. InObjectWait' = InObjectWait
  BY Zenon DEF InObjectWait
<1> QED BY <1>1, Zenon

\* What comes before entering is not seen by the Java monitor.
LEMMA EnterStutters ==
    ASSUME NEW t \in Thread, MonitorInv,
           \/ EnterLoad(t) \/ EnterFull(t) \/ EnterContended(t) \/ objectMonitorInflate(t)
           \/ CancelHalt(t) \/ CancelHalted(t) \/ CancelSwap(t) \/ CancelAgain(t)
    PROVE  UNCHANGED <<depth, InObjectWait>>
<1> USE DEF Goto, lockVars, rawVars, vmVars
<1>0. pc \in [Thread -> Label]
  BY Zenon DEF MonitorInv, MonitorTypes
<1>1. CASE EnterLoad(t)
  BY <1>0, <1>1, LeavesMonitor, Zenon DEF EnterLoad
<1>2. CASE EnterFull(t)
  BY <1>0, <1>2, LeavesMonitor, Zenon DEF EnterFull
<1>3. CASE EnterContended(t)
  BY <1>0, <1>3, LeavesMonitor, Zenon DEF EnterContended
<1>4. CASE objectMonitorInflate(t)
  BY <1>0, <1>4, LeavesMonitor, Zenon DEF objectMonitorInflate, Inflating, AfterInflate
<1>5. CASE CancelHalt(t)
  BY <1>0, <1>5, LeavesMonitor, Zenon DEF CancelHalt
<1>6. CASE CancelHalted(t)
  BY <1>0, <1>6, LeavesMonitor, Zenon DEF CancelHalted
<1>7. CASE CancelSwap(t)
  BY <1>0, <1>7, LeavesMonitor, Zenon DEF CancelSwap
<1>8. CASE CancelAgain(t)
  BY <1>0, <1>8, LeavesMonitor, Zenon DEF CancelAgain
<1> QED BY <1>1, <1>2, <1>3, <1>4, <1>5, <1>6, <1>7, <1>8, Zenon

\* Blocking is not seen by the Java monitor.
LEMMA BlockStutters ==
    ASSUME NEW t \in Thread, MonitorInv,
           \/ BlockPin(t) \/ Restart(t) \/ RawEnter(t) \/ LoopRefused(t) \/ Reacquire(t)
           \/ LoopAcquire(t) \/ SetFLC(t) \/ GotFlat(t) \/ PassFLC(t) \/ LoopWait(t) \/ Wake(t)
           \/ Unpin(t)
    PROVE  UNCHANGED <<depth, InObjectWait>>
<1> USE DEF Goto, lockVars, rawVars, vmVars
<1>0. pc \in [Thread -> Label]
  BY Zenon DEF MonitorInv, MonitorTypes
<1>1. CASE BlockPin(t)
  BY <1>0, <1>1, LeavesMonitor, Zenon DEF BlockPin
<1>2. CASE Restart(t)
  BY <1>0, <1>2, LeavesMonitor, Zenon DEF Restart
<1>3. CASE RawEnter(t)
  BY <1>0, <1>3, LeavesMonitor, Zenon DEF RawEnter
<1>4. CASE LoopRefused(t)
  BY <1>0, <1>4, LeavesMonitor, Zenon DEF LoopRefused
<1>5. CASE Reacquire(t)
  BY <1>0, <1>5, LeavesMonitor, Zenon DEF Reacquire
<1>6. CASE LoopAcquire(t)
  BY <1>0, <1>6, LeavesMonitor, Zenon DEF LoopAcquire
<1>7. CASE SetFLC(t)
  BY <1>0, <1>7, LeavesMonitor, Zenon DEF SetFLC
<1>8. CASE GotFlat(t)
  BY <1>0, <1>8, LeavesMonitor, Zenon DEF GotFlat
<1>9. CASE PassFLC(t)
  BY <1>0, <1>9, LeavesMonitor, Zenon DEF PassFLC
<1>10. CASE LoopWait(t)
  BY <1>0, <1>10, LeavesMonitor, Zenon DEF LoopWait
<1>11. CASE Wake(t)
  BY <1>0, <1>11, LeavesMonitor, Zenon DEF Wake
<1>12. CASE Unpin(t)
  BY <1>0, <1>12, LeavesMonitor, Zenon DEF Unpin
<1> QED BY <1>1, <1>2, <1>3, <1>4, <1>5, <1>6, <1>7, <1>8, <1>9, <1>10, <1>11, <1>12, Zenon

\* What comes before exiting, the ends of waits, halting and running are not seen by the
\* Java monitor.
LEMMA ExitStutters ==
    ASSUME NEW t \in Thread, MonitorInv,
           \/ ExitLoad(t) \/ ExitContended(t) \/ WaitLoad(t) \/ WaitPin(t) \/ WaitAcquire(t)
           \/ WaitOver(t) \/ Notify(t) \/ Halt(t) \/ Run(t)
    PROVE  UNCHANGED <<depth, InObjectWait>>
<1> USE DEF Goto, lockVars, rawVars, vmVars
<1>0. pc \in [Thread -> Label]
  BY Zenon DEF MonitorInv, MonitorTypes
<1>1. CASE ExitLoad(t)
  BY <1>0, <1>1, LeavesMonitor, Zenon DEF ExitLoad
<1>2. CASE ExitContended(t)
  BY <1>0, <1>2, LeavesMonitor, Zenon DEF ExitContended
<1>3. CASE WaitLoad(t)
  BY <1>0, <1>3, LeavesMonitor, Zenon DEF WaitLoad
<1>4. CASE WaitPin(t)
  BY <1>0, <1>4, LeavesMonitor, Zenon DEF WaitPin
<1>5. CASE WaitAcquire(t)
  BY <1>0, <1>5, LeavesMonitor, Zenon DEF WaitAcquire
<1>6. CASE WaitOver(t)
  BY <1>6, Zenon DEF WaitOver, InObjectWait
<1>7. CASE Notify(t)
  BY <1>7, Zenon DEF Notify, InObjectWait
<1>8. CASE Halt(t)
  BY <1>8, Zenon DEF Halt, InObjectWait
<1>9. CASE Run(t)
  BY <1>9, Zenon DEF Run, InObjectWait
<1> QED BY <1>1, <1>2, <1>3, <1>4, <1>5, <1>6, <1>7, <1>8, <1>9, Zenon

\* The steps that enter are those that take the flat lock, count an entry or get the omrthread
\* monitor of the inflated lock.
LEMMA EnterRefines ==
    ASSUME NEW t \in Thread, MonitorInv,
           \/ EnterFast(t) \/ EnterRecursive(t) \/ EnterReserve(t) \/ LoopInflated(t) \/ LoopEnter(t)
    PROVE  Monitor!Enter(t)
<1> USE DEF Goto, Entered, rawVars, vmVars
<1>1. MonitorTypes /\ WordInv /\ HoldInv(t)
  BY Zenon DEF MonitorInv, Known
<1>2. CASE EnterFast(t)
  <2>1. Clear(t)
    BY <1>2, Zenon DEF EnterFast, Clear, Unlocked, Word
  <2>2. Others(t) /\ Entered(t) /\ pc[t] # "waiting" /\ pc'[t] # "waiting"
    BY <1>1, <1>2, Zenon DEF EnterFast, Others, MonitorTypes
  <2> QED BY <2>1, <2>2, EntersMonitor, Zenon
<1>3. CASE EnterRecursive(t)
  <2>1. Clear(t)
    BY <1>1, <1>3, MonitorAssumption, Zenon DEF EnterRecursive, HoldInv, SameWord, SawInflated,
        Clear
  <2>2. Others(t) /\ Entered(t) /\ pc[t] # "waiting" /\ pc'[t] # "waiting"
    BY <1>1, <1>3, Zenon DEF EnterRecursive, Others, MonitorTypes
  <2> QED BY <2>1, <2>2, EntersMonitor, Zenon
<1>4. CASE EnterReserve(t)
  <2>1. Clear(t)
    BY <1>4, Zenon DEF EnterReserve, Clear, Reserved, Word
  <2>2. Others(t) /\ Entered(t) /\ pc[t] # "waiting" /\ pc'[t] # "waiting"
    BY <1>1, <1>4, Zenon DEF EnterReserve, Others, MonitorTypes
  <2> QED BY <2>1, <2>2, EntersMonitor, Zenon
<1>5. CASE LoopInflated(t)
  <2>1. Clear(t)
    BY <1>1, <1>5, Zenon DEF LoopInflated, WordInv, HoldInv, HasRaw, RawOnly, Clear
  <2>2. Others(t) /\ Entered(t) /\ pc[t] # "waiting" /\ pc'[t] # "waiting"
    BY <1>1, <1>5, Zenon DEF LoopInflated, Others, MonitorTypes, lockVars
  <2> QED BY <2>1, <2>2, EntersMonitor, Zenon
<1>6. CASE LoopEnter(t)
  <2>1. Clear(t)
    BY <1>6, Zenon DEF LoopEnter, Clear, Unlocked, Word
  <2>2. Others(t) /\ Entered(t) /\ pc[t] # "waiting" /\ pc'[t] # "waiting"
    BY <1>1, <1>6, Zenon DEF LoopEnter, Others, MonitorTypes
  <2> QED BY <2>1, <2>2, EntersMonitor, Zenon
<1> QED BY <1>2, <1>3, <1>4, <1>5, <1>6, Zenon

\* Trying to enter the omrthread monitor enters, or goes on to block.
LEMMA TryEnterRefines ==
    ASSUME NEW t \in Thread, MonitorInv, TryEnter(t)
    PROVE  Monitor!Enter(t) \/ UNCHANGED <<depth, InObjectWait>>
<1>1. MonitorTypes /\ WordInv /\ HoldInv(t)
  BY Zenon DEF MonitorInv, Known
<1>2. CASE raw.owner = t \/ (RawFree /\ lockword.inflated)
  <2>1. Clear(t)
    BY <1>1, <1>2, Zenon DEF TryEnter, HoldInv, SameWord, Away, RawHeld, RawFree, WordInv, Clear
  <2>2. Others(t) /\ Entered(t) /\ pc[t] # "waiting" /\ pc'[t] # "waiting"
    BY <1>1, <1>2, Zenon DEF TryEnter, Entered, Goto, Others, MonitorTypes, lockVars
  <2> QED BY <2>1, <2>2, EntersMonitor, Zenon
<1>3. CASE ~(raw.owner = t \/ (RawFree /\ lockword.inflated))
  BY <1>1, <1>3, LeavesMonitor, Zenon DEF TryEnter, Goto, MonitorTypes
<1> QED BY <1>2, <1>3, Zenon

\* The steps that exit are the stores of the decremented word, the deflation and the exit from
\* the omrthread monitor without deflation before.
LEMMA ExitRefines ==
    ASSUME NEW t \in Thread, MonitorInv, ExitFlat(t) \/ ExitDeflate(t) \/ ExitRaw(t)
    PROVE  Monitor!Exit(t) \/ UNCHANGED <<depth, InObjectWait>>
<1> USE DEF Goto, lockVars, rawVars, vmVars
<1>1. MonitorTypes /\ HoldInv(t)
  BY Zenon DEF MonitorInv, Known
<1>2. pc[t] \in {"exitSeen", "exitRaw"} => depth[t] > 0
  BY <1>1, Zenon DEF HoldInv, RawHeld
<1>3. CASE ExitFlat(t)
  <2>1. Others(t)
    BY <1>1, <1>3, Zenon DEF ExitFlat, Others, MonitorTypes
  <2> QED BY <1>1, <1>2, <1>3, <2>1, ExitsMonitor, Zenon DEF ExitFlat, MonitorTypes
<1>4. CASE ExitDeflate(t)
  <2>1. Others(t)
    BY <1>1, <1>4, Zenon DEF ExitDeflate, Others, MonitorTypes
  <2> QED BY <1>1, <1>2, <1>4, <2>1, ExitsMonitor, Zenon DEF ExitDeflate, MonitorTypes
<1>5. CASE ExitRaw(t)
  <2>1. Others(t)
    BY <1>1, <1>5, Zenon DEF ExitRaw, Others, MonitorTypes
  <2>2. CASE pc[t] = "exitDeflated"
    BY <1>1, <1>5, <2>2, LeavesMonitor, Zenon DEF ExitRaw, MonitorTypes
  <2>3. CASE pc[t] # "exitDeflated"
    BY <1>1, <1>2, <1>5, <2>1, <2>3, ExitsMonitor, Zenon DEF ExitRaw, MonitorTypes
  <2> QED BY <2>2, <2>3, Zenon
<1> QED BY <1>3, <1>4, <1>5, Zenon

\* Giving the omrthread monitor up is the Wait of the Java monitor, getting it back its Resume.
LEMMA WaitRefines ==
    ASSUME NEW t \in Thread, MonitorInv, RawWait(t) \/ RawReenter(t)
    PROVE  Monitor!Wait(t) \/ Monitor!Resume(t)
<1>1. MonitorTypes /\ WordInv /\ HoldInv(t) /\ FormInv(t)
  BY Zenon DEF MonitorInv, Known
<1>2. CASE RawWait(t)
  <2>1. depth' = depth /\ pc[t] # "waiting" /\ depth[t] > 0
    BY <1>1, <1>2, Zenon DEF RawWait, HoldInv, RawHeld
  <2>2. InObjectWait' = InObjectWait \cup {t}
    BY <1>1, <1>2, Zenon DEF RawWait, Goto, InObjectWait, MonitorTypes
  <2> QED BY <2>1, <2>2, Zenon DEF Monitor!Wait, Monitor!Owns, InObjectWait
<1>3. CASE RawReenter(t)
  <2>1. depth' = depth /\ pc[t] = "waiting" /\ raw.owner = NoThread /\ inflated
    BY <1>1, <1>3, Zenon DEF RawReenter, RawFree, FormInv, InWait
  <2>2. InObjectWait' = InObjectWait \ {t}
    BY <1>1, <1>3, Zenon DEF RawReenter, Goto, InObjectWait, MonitorTypes
  <2>3. ASSUME NEW u \in Thread PROVE ~(depth[u] > 0 /\ pc[u] # "waiting")
    BY <1>1, <2>1, OwnerKnown, MonitorAssumption, Zenon DEF WordInv
  <2> QED BY <2>1, <2>2, <2>3, Zenon DEF Monitor!Resume, Monitor!Free, Monitor!Owns, InObjectWait
<1> QED BY <1>2, <1>3, Zenon

\* Every step is a step of the Java monitor, or not seen by it.
LEMMA NextRefines ==
    MonitorInv /\ [Next]_vars => [Monitor!Next]_<<depth, {t \in Thread : pc[t] = "waiting"}>>
<1> SUFFICES ASSUME MonitorInv, [Next]_vars PROVE Monitor!Next \/ UNCHANGED <<depth, InObjectWait>>
  BY Zenon DEF InObjectWait
<1>1. CASE Stop \/ Restarted \/ UNCHANGED vars
  BY <1>1, Zenon DEF Stop, Restarted, vars, InObjectWait
<1>2. ASSUME NEW t \in Thread, EnterFast(t) \/ Begin(t)
      PROVE  Monitor!Next \/ UNCHANGED <<depth, InObjectWait>>
  BY <1>2, EnterRefines, EnterStutters, ExitStutters, Zenon DEF Begin, Monitor!Next
<1>3. ASSUME NEW t \in Thread, Continue(t)
      PROVE  Monitor!Next \/ UNCHANGED <<depth, InObjectWait>>
  BY <1>3, EnterRefines, TryEnterRefines, ExitRefines, WaitRefines, EnterStutters, BlockStutters,
      ExitStutters, Zenon DEF Continue, Monitor!Next
<1> QED BY <1>1, <1>2, <1>3, Zenon DEF Next

\* The monitor of the code, with its three forms and the steps between them, implements the
\* Java monitor.
THEOREM MonitorImplemented == Spec => IsJavaMonitor
<1>1. Init => Monitor!Init
  BY Zenon DEF Init, Monitor!Init
<1> QED BY <1>1, NextRefines, MonitorInvHolds, PTL DEF Spec, IsJavaMonitor, Monitor!Spec
=============================================================================
