---------------------------- MODULE AccessProofs ----------------------------
(***************************************************************************)
(* First the type invariant of ExclusiveAccess, which is inductive by      *)
(* itself: one step per action and, under it, one per group of variables   *)
(* that the action changes.  Then AccessEffect, for every action of        *)
(* VMAccess: those that release and acquire VM access, cross the JNI       *)
(* boundary and check for async messages, then those that enter and leave  *)
(* JNI critical regions.                                                   *)
(***************************************************************************)
EXTENDS AccessEffects, TLAPS

USE DEF bufferVars, flagVars, pfmVars, criticalVars, localVars, countVars, stateVars, vmVars,
        expectVars, requestVars

(* setPublicFlags and clearPublicFlags keep flag words what they are. *)
LEMMA FlagsType ==
    ASSUME FlagTypes, NEW t \in Thread, NEW set \in SUBSET Flag, NEW clear
    PROVE  WithFlags(t, set, clear) \in [Thread -> SUBSET Flag]
BY Zenon DEF FlagTypes, WithFlags

(* A fence leaves memory and the store buffers well formed ... *)
LEMMA DrainedType ==
    ASSUME BufferTypes, NEW t \in Thread, Drained(t)
    PROVE  BufferTypes'
BY DEF BufferTypes, Drained, OwnInNative

(* ... and so do a store with a fence ... *)
LEMMA StoreFencedType ==
    ASSUME BufferTypes, NEW t \in Thread, NEW value \in BOOLEAN, StoreFenced(t, value)
    PROVE  BufferTypes'
BY DEF BufferTypes, StoreFenced

(* ... and a plain store to inNative. *)
LEMMA StoreType ==
    ASSUME BufferTypes, NEW t \in Thread, NEW value \in BOOLEAN, Store(t, value)
    PROVE  BufferTypes'
BY DEF BufferTypes, Store

(* The steps by which a thread gets on with a release, an acquire, a crossing of
   the JNI boundary or a JNI critical region keep the type invariant. *)
LEMMA AccessStepTypes ==
    ASSUME TypeOK, NEW t \in Thread, AccessStep(t), UNCHANGED requestVars
    PROVE  TypeOK'
<1> USE DEF TypeOK
<1>1. CASE ClearVMAccess(t)
  <2>1. FlagTypes'
    BY <1>1, FlagsType, Zenon DEF FlagTypes, ClearVMAccess, Flag
  <2>2. BufferTypes'
    BY <1>1, DrainedType, Zenon DEF ClearVMAccess
  <2>3. MonitorTypes'
    BY <1>1, Zenon DEF MonitorTypes, ClearVMAccess, EnterPfm, NotifyPfm
  <2>4. PlaceTypes'
    BY <1>1, Zenon DEF PlaceTypes, ClearVMAccess, Goto, Label, AccessLabel
  <2> QED BY <1>1, <2>1, <2>2, <2>3, <2>4, Zenon DEF TypeOK, CountTypes, RequestTypes,
      ClearVMAccess
<1>2. CASE Respond(t)
  <2>1. FlagTypes'
    BY <1>2, FlagsType, Zenon DEF FlagTypes, Respond, Flag, ReleaseRequired, HaltAny, HaltNoSuspend
  <2>2. MonitorTypes'
    BY <1>2, Zenon DEF MonitorTypes, Respond, ContinueHolding, NotifyEam
  <2>3. PlaceTypes'
    BY <1>2, Zenon DEF PlaceTypes, Respond, ContinueHolding, Goto, Label, AccessLabel, AtRest,
        RequestLabel, ReturnLabel
  <2>4. CountTypes'
    BY <1>2 DEF CountTypes, Respond
  <2> QED BY <1>2, <2>1, <2>2, <2>3, <2>4, Zenon DEF TypeOK, BufferTypes, RequestTypes, Respond
<1>3. CASE GiveUpCritical(t)
  <2>1. FlagTypes'
    BY <1>3, FlagsType, Zenon DEF FlagTypes, GiveUpCritical, Flag, ReleaseRequired, HaltAny,
        HaltNoSuspend
  <2>2. PlaceTypes'
    BY <1>3, Zenon DEF PlaceTypes, GiveUpCritical, Goto, Label, AccessLabel
  <2> QED BY <1>3, <2>1, <2>2, Zenon DEF TypeOK, BufferTypes, MonitorTypes, CountTypes,
      RequestTypes, GiveUpCritical
<1>4. CASE RespondCritical(t)
  <2>1. MonitorTypes'
    BY <1>4, Zenon DEF MonitorTypes, RespondCritical, NotifyEam
  <2>2. PlaceTypes'
    BY <1>4, Zenon DEF PlaceTypes, RespondCritical, Goto, Label, AccessLabel
  <2>3. CountTypes'
    BY <1>4 DEF CountTypes, RespondCritical
  <2> QED BY <1>4, <2>1, <2>2, <2>3, Zenon DEF TypeOK, FlagTypes, BufferTypes, RequestTypes,
      RespondCritical
<1>5. CASE WaitForAccess(t)
  <2>1. MonitorTypes'
    BY <1>5, Zenon DEF MonitorTypes, WaitForAccess, ExitPfm
  <2>2. PlaceTypes'
    BY <1>5, Zenon DEF PlaceTypes, WaitForAccess, Goto, Label, AccessLabel
  <2> QED BY <1>5, <2>1, <2>2, Zenon DEF TypeOK, FlagTypes, BufferTypes, CountTypes, RequestTypes,
      WaitForAccess
<1>6. CASE Wake(t)
  <2>1. MonitorTypes'
    BY <1>6, Zenon DEF MonitorTypes, Wake, EnterPfm
  <2>2. PlaceTypes'
    BY <1>6, Zenon DEF PlaceTypes, Wake, Goto, Label, AccessLabel
  <2> QED BY <1>6, <2>1, <2>2, Zenon DEF TypeOK, FlagTypes, BufferTypes, CountTypes, RequestTypes,
      Wake
<1>7. CASE TakeVMAccess(t)
  <2>1. FlagTypes'
    BY <1>7, FlagsType, Zenon DEF FlagTypes, TakeVMAccess, Flag, Critical
  <2>2. MonitorTypes'
    BY <1>7, Zenon DEF MonitorTypes, TakeVMAccess, ContinueHolding
  <2>3. PlaceTypes'
    BY <1>7, Zenon DEF PlaceTypes, TakeVMAccess, ContinueHolding, Goto, Label, AccessLabel, AtRest,
        RequestLabel, ReturnLabel
  <2> QED BY <1>7, <2>1, <2>2, <2>3, Zenon DEF TypeOK, BufferTypes, CountTypes, RequestTypes,
      TakeVMAccess
<1>8. CASE ExitInline(t)
  <2>1. PlaceTypes'
    BY <1>8, Zenon DEF PlaceTypes, ExitInline, Goto, Label, AccessLabel, AtRest
  <2> QED BY <1>8, <2>1, Zenon DEF TypeOK, FlagTypes, BufferTypes, MonitorTypes, CountTypes,
      RequestTypes, ExitInline
<1>9. CASE ExitOutOfLine(t)
  <2>1. BufferTypes'
    BY <1>9, StoreFencedType, Zenon DEF ExitOutOfLine
  <2>2. PlaceTypes'
    BY <1>9, Zenon DEF PlaceTypes, ExitOutOfLine, Goto, Label, AccessLabel
  <2> QED BY <1>9, <2>1, <2>2, Zenon DEF TypeOK, FlagTypes, MonitorTypes, CountTypes, RequestTypes,
      ExitOutOfLine
<1>10. CASE ExitSlow(t)
  <2>1. FlagTypes'
    BY <1>10, FlagsType, Zenon DEF FlagTypes, ExitSlow, Flag
  <2>2. MonitorTypes'
    BY <1>10, Zenon DEF MonitorTypes, ExitSlow, ContinueHolding, NotifyPfm
  <2>3. PlaceTypes'
    BY <1>10, Zenon DEF PlaceTypes, ExitSlow, ContinueHolding, Goto, Label, AccessLabel, AtRest,
        ReturnLabel
  <2> QED BY <1>10, <2>1, <2>2, <2>3, Zenon DEF TypeOK, BufferTypes, CountTypes, RequestTypes,
      ExitSlow
<1>11. CASE EnterInline(t)
  <2>1. PlaceTypes'
    BY <1>11, Zenon DEF PlaceTypes, EnterInline, Goto, Label, AccessLabel, AtRest
  <2> QED BY <1>11, <2>1, Zenon DEF TypeOK, FlagTypes, BufferTypes, MonitorTypes, CountTypes,
      RequestTypes, EnterInline
<1>12. CASE EnterOutOfLine(t)
  <2>1. BufferTypes'
    BY <1>12, StoreFencedType, Zenon DEF EnterOutOfLine
  <2>2. PlaceTypes'
    BY <1>12, Zenon DEF PlaceTypes, EnterOutOfLine, Goto, Label, AccessLabel
  <2> QED BY <1>12, <2>1, <2>2, Zenon DEF TypeOK, FlagTypes, MonitorTypes, CountTypes,
      RequestTypes, EnterOutOfLine
<1>13. CASE EnterSlow(t)
  <2>1. FlagTypes'
    BY <1>13, FlagsType, Zenon DEF FlagTypes, EnterSlow, EnterHolding, Flag
  <2>2. MonitorTypes'
    BY <1>13, Zenon DEF MonitorTypes, EnterSlow, EnterHolding, ContinueHolding, NotifyPfm
  <2>3. PlaceTypes'
    BY <1>13, Zenon DEF PlaceTypes, EnterSlow, EnterHolding, ContinueHolding, Goto, Label,
        AccessLabel, AtRest, ReturnLabel
  <2> QED BY <1>13, <2>1, <2>2, <2>3, Zenon DEF TypeOK, BufferTypes, CountTypes, RequestTypes,
      EnterSlow, EnterHolding
<1>14. CASE EndAsyncCheck(t)
  <2>1. BufferTypes'
    BY <1>14, DrainedType, Zenon DEF EndAsyncCheck
  <2>2. MonitorTypes'
    BY <1>14, Zenon DEF MonitorTypes, EndAsyncCheck, ContinueHolding
  <2>3. PlaceTypes'
    BY <1>14, Zenon DEF PlaceTypes, EndAsyncCheck, ContinueHolding, Goto, Label, AccessLabel,
        AtRest
  <2> QED BY <1>14, <2>1, <2>2, <2>3, Zenon DEF TypeOK, FlagTypes, CountTypes, RequestTypes,
      EndAsyncCheck
<1>15. CASE EnterCriticalWithAccess(t)
  <2>1. FlagTypes'
    BY <1>15, FlagsType, Zenon DEF FlagTypes, EnterCriticalWithAccess, Flag, Critical,
        ReleaseRequired, HaltAny, HaltNoSuspend
  <2>2. MonitorTypes'
    BY <1>15, Zenon DEF MonitorTypes, EnterCriticalWithAccess, ContinueHolding
  <2>3. PlaceTypes'
    BY <1>15, Zenon DEF PlaceTypes, EnterCriticalWithAccess, ContinueHolding, Goto, Label,
        AccessLabel, AtRest
  <2>4. CountTypes'
    BY <1>15, ThreadAssumption DEF CountTypes, EnterCriticalWithAccess
  <2> QED BY <1>15, <2>1, <2>2, <2>3, <2>4, Zenon DEF TypeOK, BufferTypes, RequestTypes,
      EnterCriticalWithAccess
<1>16. CASE CountCritical(t)
  <2>1. MonitorTypes'
    BY <1>16, Zenon DEF MonitorTypes, CountCritical, ContinueHolding
  <2>2. PlaceTypes'
    BY <1>16, Zenon DEF PlaceTypes, CountCritical, ContinueHolding, Goto, Label, AccessLabel,
        AtRest
  <2>3. CountTypes'
    BY <1>16 DEF CountTypes, CountCritical
  <2> QED BY <1>16, <2>1, <2>2, <2>3, Zenon DEF TypeOK, FlagTypes, BufferTypes, RequestTypes,
      CountCritical
<1>17. CASE EnterCriticalWithoutAccess(t)
  <2>1. FlagTypes'
    BY <1>17, FlagsType, Zenon DEF FlagTypes, EnterCriticalWithoutAccess, Flag, Critical
  <2>2. PlaceTypes'
    BY <1>17, Zenon DEF PlaceTypes, EnterCriticalWithoutAccess, Goto, Label, AccessLabel, AtRest
  <2>3. CountTypes'
    BY <1>17, ThreadAssumption DEF CountTypes, EnterCriticalWithoutAccess
  <2> QED BY <1>17, <2>1, <2>2, <2>3, Zenon DEF TypeOK, BufferTypes, MonitorTypes, RequestTypes,
      EnterCriticalWithoutAccess
<1>18. CASE EnterCriticalThroughVM(t)
  <2>1. FlagTypes'
    BY <1>18, FlagsType, Zenon DEF FlagTypes, EnterCriticalThroughVM, EnterHolding, Flag
  <2>2. BufferTypes'
    BY <1>18, StoreFencedType, Zenon DEF EnterCriticalThroughVM, EnterHolding
  <2>3. MonitorTypes'
    BY <1>18, Zenon DEF MonitorTypes, EnterCriticalThroughVM, EnterHolding, ContinueHolding,
        NotifyPfm
  <2>4. PlaceTypes'
    BY <1>18, Zenon DEF PlaceTypes, EnterCriticalThroughVM, EnterHolding, ContinueHolding, Goto,
        Label, AccessLabel, AtRest, ReturnLabel
  <2> QED BY <1>18, <2>1, <2>2, <2>3, <2>4, Zenon DEF TypeOK, CountTypes, RequestTypes,
      EnterCriticalThroughVM, EnterHolding
<1>19. CASE SetCriticalFlags(t)
  <2>1. FlagTypes'
    BY <1>19, FlagsType, Zenon DEF FlagTypes, SetCriticalFlags, Flag, Critical
  <2>2. BufferTypes'
    BY <1>19, StoreFencedType, Zenon DEF SetCriticalFlags
  <2>3. MonitorTypes'
    BY <1>19, Zenon DEF MonitorTypes, SetCriticalFlags, ContinueHolding, NotifyPfm
  <2>4. PlaceTypes'
    BY <1>19, Zenon DEF PlaceTypes, SetCriticalFlags, ContinueHolding, Goto, Label, AccessLabel,
        AtRest, ReturnLabel
  <2>5. CountTypes'
    BY <1>19, ThreadAssumption DEF CountTypes, SetCriticalFlags
  <2> QED BY <1>19, <2>1, <2>2, <2>3, <2>4, <2>5, Zenon DEF TypeOK, RequestTypes, SetCriticalFlags
<1>20. CASE ExitCriticalSlow(t)
  <2>1. FlagTypes'
    BY <1>20, FlagsType, Zenon DEF FlagTypes, ExitCriticalSlow, Flag, Critical, ReleaseRequired,
        HaltAny, HaltNoSuspend
  <2>2. MonitorTypes'
    BY <1>20, Zenon DEF MonitorTypes, ExitCriticalSlow, ContinueHolding
  <2>3. PlaceTypes'
    BY <1>20, Zenon DEF PlaceTypes, ExitCriticalSlow, ContinueHolding, Goto, Label, AccessLabel,
        AtRest, RequestLabel, ReturnLabel
  <2> QED BY <1>20, <2>1, <2>2, <2>3, Zenon DEF TypeOK, BufferTypes, CountTypes, RequestTypes,
      ExitCriticalSlow
<1>21. CASE ExitCriticalRespond(t)
  <2>1. MonitorTypes'
    BY <1>21, Zenon DEF MonitorTypes, ExitCriticalRespond, ContinueHolding, NotifyEam
  <2>2. PlaceTypes'
    BY <1>21, Zenon DEF PlaceTypes, ExitCriticalRespond, ContinueHolding, Goto, Label, AccessLabel,
        AtRest, RequestLabel, ReturnLabel
  <2>3. CountTypes'
    BY <1>21 DEF CountTypes, ExitCriticalRespond
  <2> QED BY <1>21, <2>1, <2>2, <2>3, Zenon DEF TypeOK, FlagTypes, BufferTypes, RequestTypes,
      ExitCriticalRespond
<1> QED BY <1>1, <1>2, <1>3, <1>4, <1>5, <1>6, <1>7, <1>8, <1>9, <1>10, <1>11, <1>12, <1>13,
    <1>14, <1>15, <1>16, <1>17, <1>18, <1>19, <1>20, <1>21 DEF AccessStep

(* So do the inline paths by which it begins one ... *)
LEMMA AccessBeginTypes ==
    ASSUME TypeOK, NEW t \in Thread, AccessBegin(t), UNCHANGED requestVars
    PROVE  TypeOK'
<1> USE DEF TypeOK
<1>1. CASE ReleaseFast(t)
  <2>1. FlagTypes'
    BY <1>1, FlagsType, Zenon DEF FlagTypes, ReleaseFast, Flag
  <2>2. BufferTypes'
    BY <1>1, DrainedType, Zenon DEF ReleaseFast
  <2>3. PlaceTypes'
    BY <1>1, Zenon DEF PlaceTypes, ReleaseFast, Goto, Label, AccessLabel, AtRest
  <2> QED BY <1>1, <2>1, <2>2, <2>3, Zenon DEF TypeOK, MonitorTypes, CountTypes, RequestTypes,
      ReleaseFast
<1>2. CASE ReleaseSlow(t)
  <2>1. PlaceTypes'
    BY <1>2, Zenon DEF PlaceTypes, ReleaseSlow, Goto, Label, AccessLabel, AtRest, ReturnLabel
  <2> QED BY <1>2, <2>1, Zenon DEF TypeOK, FlagTypes, BufferTypes, MonitorTypes, CountTypes,
      RequestTypes, ReleaseSlow
<1>3. CASE AcquireFast(t)
  <2>1. FlagTypes'
    BY <1>3, FlagsType, Zenon DEF FlagTypes, AcquireFast, Flag
  <2>2. PlaceTypes'
    BY <1>3, Zenon DEF PlaceTypes, AcquireFast, Goto, Label, AccessLabel, AtRest
  <2> QED BY <1>3, <2>1, <2>2, Zenon DEF TypeOK, BufferTypes, MonitorTypes, CountTypes,
      RequestTypes, AcquireFast
<1>4. CASE AcquireSlow(t)
  <2>1. MonitorTypes'
    BY <1>4, Zenon DEF MonitorTypes, AcquireSlow, EnterPfm
  <2>2. PlaceTypes'
    BY <1>4, Zenon DEF PlaceTypes, AcquireSlow, Goto, Label, AccessLabel, AtRest, ReturnLabel
  <2> QED BY <1>4, <2>1, <2>2, Zenon DEF TypeOK, FlagTypes, BufferTypes, CountTypes, RequestTypes,
      AcquireSlow
<1>5. CASE TryAcquire(t)
  <2>1. FlagTypes'
    BY <1>5, FlagsType, Zenon DEF FlagTypes, TryAcquire, Flag
  <2>2. PlaceTypes'
    BY <1>5, Zenon DEF PlaceTypes, TryAcquire, Goto, Label, AccessLabel, AtRest
  <2> QED BY <1>5, <2>1, <2>2, Zenon DEF TypeOK, BufferTypes, MonitorTypes, CountTypes,
      RequestTypes, TryAcquire
<1>6. CASE ExitVMToJNI(t)
  <2>1. BufferTypes'
    BY <1>6, StoreType, Zenon DEF ExitVMToJNI
  <2>2. PlaceTypes'
    BY <1>6, Zenon DEF PlaceTypes, ExitVMToJNI, Goto, Label, AccessLabel
  <2> QED BY <1>6, <2>1, <2>2, Zenon DEF TypeOK, FlagTypes, MonitorTypes, CountTypes, RequestTypes,
      ExitVMToJNI
<1>7. CASE EnterVMFromJNI(t)
  <2>1. BufferTypes'
    BY <1>7, StoreType, Zenon DEF EnterVMFromJNI
  <2>2. PlaceTypes'
    BY <1>7, Zenon DEF PlaceTypes, EnterVMFromJNI, Goto, Label, AccessLabel
  <2> QED BY <1>7, <2>1, <2>2, Zenon DEF TypeOK, FlagTypes, MonitorTypes, CountTypes, RequestTypes,
      EnterVMFromJNI
<1>8. CASE EnterNestedCritical(t)
  <2>1. CountTypes'
    BY <1>8, ThreadAssumption DEF CountTypes, EnterNestedCritical
  <2> QED BY <1>8, <2>1, Zenon DEF TypeOK, FlagTypes, BufferTypes, MonitorTypes, PlaceTypes,
      RequestTypes, EnterNestedCritical
<1>9. CASE EnterCriticalFast(t)
  <2>1. FlagTypes'
    BY <1>9, FlagsType, Zenon DEF FlagTypes, EnterCriticalFast, Flag, Critical
  <2>2. BufferTypes'
    BY <1>9, DrainedType, Zenon DEF EnterCriticalFast
  <2>3. CountTypes'
    BY <1>9, ThreadAssumption DEF CountTypes, EnterCriticalFast
  <2> QED BY <1>9, <2>1, <2>2, <2>3, Zenon DEF TypeOK, MonitorTypes, PlaceTypes, RequestTypes,
      EnterCriticalFast
<1>10. CASE EnterCriticalSlow(t)
  <2>1. BufferTypes'
    BY <1>10, DrainedType, Zenon DEF EnterCriticalSlow
  <2>2. PlaceTypes'
    BY <1>10, Zenon DEF PlaceTypes, EnterCriticalSlow, Goto, Label, AccessLabel, AtRest
  <2> QED BY <1>10, <2>1, <2>2, Zenon DEF TypeOK, FlagTypes, MonitorTypes, CountTypes,
      RequestTypes, EnterCriticalSlow
<1> QED BY <1>1, <1>2, <1>3, <1>4, <1>5, <1>6, <1>7, <1>8, <1>9, <1>10, Zenon DEF AccessBegin

(* ... the async check, exitCriticalRegion, and a store reaching memory. *)
LEMMA AccessDutyTypes ==
    ASSUME TypeOK, NEW t \in Thread, AccessDuty(t) \/ DrainOne(t), UNCHANGED requestVars
    PROVE  TypeOK'
<1> USE DEF TypeOK
<1>1. CASE CheckAsyncMessages(t)
  <2>1. FlagTypes'
    BY <1>1, FlagsType, Zenon DEF FlagTypes, CheckAsyncMessages, Flag
  <2>2. BufferTypes'
    BY <1>1, DrainedType, Zenon DEF CheckAsyncMessages
  <2>3. MonitorTypes'
    BY <1>1, Zenon DEF MonitorTypes, CheckAsyncMessages, ContinueHolding, NotifyPfm
  <2>4. PlaceTypes'
    BY <1>1, Zenon DEF PlaceTypes, CheckAsyncMessages, ContinueHolding, Goto, Label, AccessLabel,
        AtRest, ReturnLabel
  <2> QED BY <1>1, <2>1, <2>2, <2>3, <2>4, Zenon DEF TypeOK, CountTypes, RequestTypes,
      CheckAsyncMessages
<1>2. CASE ExitNestedCritical(t)
  <2>1. CountTypes'
    <3>1. /\ jniCriticalDirectCount[t] \in 0..MaxCriticalNesting /\ jniCriticalDirectCount[t] > 1
          /\ MaxCriticalNesting \in Nat
      BY <1>2, ThreadAssumption, Zenon DEF CountTypes, ExitNestedCritical
    <3>2. jniCriticalDirectCount[t] - 1 \in 0..MaxCriticalNesting
      BY <3>1
    <3>3. jniCriticalDirectCount' =
            [jniCriticalDirectCount EXCEPT ![t] = jniCriticalDirectCount[t] - 1]
      BY <1>2, Zenon DEF ExitNestedCritical
    <3> QED BY <1>2, <3>2, <3>3, Zenon DEF CountTypes, ExitNestedCritical
  <2> QED BY <1>2, <2>1, Zenon DEF TypeOK, FlagTypes, BufferTypes, MonitorTypes, PlaceTypes,
      RequestTypes, ExitNestedCritical
<1>3. CASE ExitCriticalFast(t)
  <2>1. FlagTypes'
    BY <1>3, FlagsType, Zenon DEF FlagTypes, ExitCriticalFast, Flag, Critical
  <2>2. BufferTypes'
    BY <1>3, DrainedType, Zenon DEF ExitCriticalFast
  <2>3. CountTypes'
    BY <1>3, ThreadAssumption DEF CountTypes, ExitCriticalFast
  <2> QED BY <1>3, <2>1, <2>2, <2>3, Zenon DEF TypeOK, MonitorTypes, PlaceTypes, RequestTypes,
      ExitCriticalFast
<1>4. CASE ExitCriticalBegin(t)
  <2>1. BufferTypes'
    BY <1>4, DrainedType, Zenon DEF ExitCriticalBegin
  <2>2. PlaceTypes'
    BY <1>4, Zenon DEF PlaceTypes, ExitCriticalBegin, Goto, Label, AccessLabel, AtRest, ReturnLabel
  <2>3. CountTypes'
    BY <1>4, ThreadAssumption DEF CountTypes, ExitCriticalBegin
  <2> QED BY <1>4, <2>1, <2>2, <2>3, Zenon DEF TypeOK, FlagTypes, MonitorTypes, RequestTypes,
      ExitCriticalBegin
<1>5. CASE DrainOne(t)
  <2>1. BufferTypes'
    BY <1>5 DEF BufferTypes, DrainOne, OwnInNative
  <2> QED BY <1>5, <2>1, Zenon DEF TypeOK, FlagTypes, MonitorTypes, PlaceTypes, CountTypes,
      RequestTypes, DrainOne
<1> QED BY <1>1, <1>2, <1>3, <1>4, <1>5, Zenon DEF AccessDuty, ExitCriticalRegion

(* Every step of acquireExclusiveVMAccess and releaseExclusiveVMAccess keeps the
   type invariant. *)
LEMMA RequestTypesKept ==
    ASSUME TypeOK, NEW t \in Thread, RequestBegin(t) \/ RequestStep(t)
    PROVE  TypeOK'
<1> USE DEF TypeOK
<1>1. CASE AcquireExclusiveNested(t)
  <2>1. CountTypes'
    BY <1>1, RequesterAssumption DEF CountTypes, AcquireExclusiveNested
  <2> QED BY <1>1, <2>1, Zenon DEF TypeOK, FlagTypes, BufferTypes, MonitorTypes, PlaceTypes,
      RequestTypes, AcquireExclusiveNested
<1>2. CASE AcquireExclusiveFirst(t)
  <2>1. FlagTypes'
    <3>1. {"NOT_AT_SAFE_POINT"} \in SUBSET Flag
      BY Zenon DEF Flag
    <3> QED BY <1>2, <3>1, FlagsType, Zenon DEF FlagTypes, AcquireExclusiveFirst
  <2>2. BufferTypes'
    BY <1>2, DrainedType, Zenon DEF AcquireExclusiveFirst
  <2>3. PlaceTypes'
    BY <1>2, Zenon DEF PlaceTypes, AcquireExclusiveFirst, Goto, Label, RequestLabel, ClaimLabel
  <2>4. CountTypes'
    BY <1>2, RequesterAssumption DEF CountTypes, AcquireExclusiveFirst
  <2>5. RequestTypes'
    BY <1>2, Zenon DEF RequestTypes, AcquireExclusiveFirst, XAccess
  <2> QED BY <1>2, <2>1, <2>2, <2>3, <2>4, <2>5, Zenon DEF TypeOK, MonitorTypes,
      AcquireExclusiveFirst
<1>3. CASE AcquireExclusiveQueued(t)
  <2>1. FlagTypes'
    BY <1>3, FlagsType, Zenon DEF FlagTypes, AcquireExclusiveQueued, Flag, ReleaseRequired,
        HaltAny, HaltNoSuspend
  <2>2. BufferTypes'
    BY <1>3, DrainedType, Zenon DEF AcquireExclusiveQueued
  <2>3. MonitorTypes'
    BY <1>3, Zenon DEF MonitorTypes, AcquireExclusiveQueued, EnterPfm, NotifyPfm, NotifyEam
  <2>4. PlaceTypes'
    BY <1>3, Zenon DEF PlaceTypes, AcquireExclusiveQueued, Goto, Label, AccessLabel, AtRest,
        ReturnLabel
  <2>5. CountTypes'
    BY <1>3, RequesterAssumption DEF CountTypes, AcquireExclusiveQueued
  <2>6. RequestTypes'
    BY <1>3 DEF RequestTypes, AcquireExclusiveQueued
  <2> QED BY <1>3, <2>1, <2>2, <2>3, <2>4, <2>5, <2>6, Zenon DEF TypeOK, AcquireExclusiveQueued
<1>4. CASE Granted(t)
  <2>1. FlagTypes'
    BY <1>4, FlagsType, Zenon DEF FlagTypes, Granted, Flag
  <2>2. MonitorTypes'
    BY <1>4, Zenon DEF MonitorTypes, Granted, ExitPfm
  <2>3. PlaceTypes'
    BY <1>4, Zenon DEF PlaceTypes, Granted, Goto, Label, RequestLabel
  <2> QED BY <1>4, <2>1, <2>2, <2>3, Zenon DEF TypeOK, BufferTypes, CountTypes, RequestTypes,
      Granted
<1>5. CASE AcceptHandOff(t)
  <2>1. PlaceTypes'
    BY <1>5, Zenon DEF PlaceTypes, AcceptHandOff, Goto, Label, RequestLabel, ClaimLabel
  <2>2. CountTypes'
    BY <1>5, Zenon DEF CountTypes, AcceptHandOff
  <2>3. RequestTypes'
    BY <1>5, Zenon DEF RequestTypes, AcceptHandOff, XAccess
  <2> QED BY <1>5, <2>1, <2>2, <2>3, Zenon DEF TypeOK, FlagTypes, BufferTypes, MonitorTypes,
      AcceptHandOff
<1>6. CASE PostBegin(t)
  <2>1. MonitorTypes'
    BY <1>6, Zenon DEF MonitorTypes, PostBegin
  <2>2. PlaceTypes'
    BY <1>6, Zenon DEF PlaceTypes, PostBegin, Goto, Label, RequestLabel, ClaimLabel
  <2>3. RequestTypes'
    BY <1>6, Zenon DEF RequestTypes, PostBegin, Others
  <2> QED BY <1>6, <2>1, <2>2, <2>3, Zenon DEF TypeOK, FlagTypes, BufferTypes, CountTypes,
      PostBegin
<1>7. ASSUME NEW u \in Thread, PostHalt(t, u) PROVE TypeOK'
  <2>1. FlagTypes'
    BY <1>7, FlagsType, Zenon DEF FlagTypes, PostHalt, Flag, Halted, ReleaseRequired, HaltAny,
        HaltNoSuspend
  <2>2. CountTypes'
    <3>1. jniCriticalResponsesExpected \in [Thread -> Nat]
      BY Zenon DEF CountTypes
    <3>2. jniCriticalResponsesExpected' =
            [jniCriticalResponsesExpected EXCEPT ![t] =
               @ + (IF Has(u, "JNI_CRITICAL_ACCESS") THEN 1 ELSE 0)]
      BY <1>7, Zenon DEF PostHalt
    <3>3. jniCriticalResponsesExpected[t] \in Nat
      BY <3>1, Zenon
    <3>4. jniCriticalResponsesExpected[t] + (IF Has(u, "JNI_CRITICAL_ACCESS") THEN 1 ELSE 0) \in Nat
      BY <3>3
    <3>5. jniCriticalResponsesExpected' \in [Thread -> Nat]
      BY <3>1, <3>2, <3>4, Zenon
    <3> QED BY <1>7, <3>5, Zenon DEF CountTypes, PostHalt
  <2>3. RequestTypes'
    BY <1>7, Zenon DEF RequestTypes, PostHalt
  <2> QED BY <1>7, <2>1, <2>2, <2>3, Zenon DEF TypeOK, BufferTypes, MonitorTypes, PlaceTypes,
      PostHalt
<1>8. CASE Flush(t)
  <2>1. BufferTypes'
    BY <1>8 DEF BufferTypes, Flush, OwnInNative
  <2>2. PlaceTypes'
    BY <1>8, Zenon DEF PlaceTypes, Flush, Goto, Label, RequestLabel, ClaimLabel
  <2>3. RequestTypes'
    BY <1>8, Zenon DEF RequestTypes, Flush, Others
  <2> QED BY <1>8, <2>1, <2>2, <2>3, Zenon DEF TypeOK, FlagTypes, MonitorTypes, CountTypes, Flush
<1>9. ASSUME NEW u \in Thread, PostCount(t, u) PROVE TypeOK'
  <2>1. FlagTypes'
    BY <1>9, Zenon DEF FlagTypes, PostCount, WithFlags
  <2>2. CountTypes'
    <3>1. responsesExpected \in [Thread -> Nat]
      BY Zenon DEF CountTypes
    <3>2. \/ responsesExpected' = responsesExpected
          \/ responsesExpected' = [responsesExpected EXCEPT ![t] = @ + 1]
      BY <1>9, Zenon DEF PostCount
    <3>3. responsesExpected[t] \in Nat
      BY <3>1, Zenon
    <3>4. responsesExpected[t] + 1 \in Nat
      BY <3>3
    <3>5. responsesExpected' \in [Thread -> Nat]
      BY <3>1, <3>2, <3>4, Zenon
    <3> QED BY <1>9, <3>5, Zenon DEF CountTypes, PostCount
  <2>3. RequestTypes'
    BY <1>9, Zenon DEF RequestTypes, PostCount
  <2> QED BY <1>9, <2>1, <2>2, <2>3, Zenon DEF TypeOK, BufferTypes, MonitorTypes, PlaceTypes,
      PostCount
<1>10. CASE PostEnd(t)
  <2>1. MonitorTypes'
    BY <1>10, Zenon DEF MonitorTypes, PostEnd
  <2>2. PlaceTypes'
    BY <1>10, Zenon DEF PlaceTypes, PostEnd, Goto, Label, RequestLabel, ClaimLabel
  <2> QED BY <1>10, <2>1, <2>2, Zenon DEF TypeOK, FlagTypes, BufferTypes, CountTypes, RequestTypes,
      PostEnd
<1>11. CASE Await(t)
  <2>1. MonitorTypes'
    BY <1>11, Zenon DEF MonitorTypes, Await, AwaitVM, AwaitJNI
  <2>2. PlaceTypes'
    BY <1>11, Zenon DEF PlaceTypes, Await, AwaitVM, AwaitJNI, Goto, Label, RequestLabel,
        ClaimLabel, OwnerLabel
  <2>3. CountTypes'
    BY <1>11 DEF CountTypes, Await, AwaitVM, AwaitJNI
  <2>4. RequestTypes'
    BY <1>11, Zenon DEF RequestTypes, Await, AwaitVM, AwaitJNI, XAccess
  <2> QED BY <1>11, <2>1, <2>2, <2>3, <2>4, Zenon DEF TypeOK, FlagTypes, BufferTypes, Await,
      AwaitVM, AwaitJNI
<1>12. CASE EnterExclusive(t)
  <2>1. MonitorTypes'
    BY <1>12, Zenon DEF MonitorTypes, EnterExclusive
  <2>2. PlaceTypes'
    BY <1>12, Zenon DEF PlaceTypes, EnterExclusive, Goto, Label, RequestLabel, OwnerLabel
  <2> QED BY <1>12, <2>1, <2>2, Zenon DEF TypeOK, FlagTypes, BufferTypes, CountTypes, RequestTypes,
      EnterExclusive
<1>13. CASE ReleaseExclusiveNested(t)
  <2>1. CountTypes'
    BY <1>13, RequesterAssumption DEF CountTypes, ReleaseExclusiveNested
  <2> QED BY <1>13, <2>1, Zenon DEF TypeOK, FlagTypes, BufferTypes, MonitorTypes, PlaceTypes,
      RequestTypes, ReleaseExclusiveNested
<1>14. CASE HandOff(t)
  <2>1. FlagTypes'
    BY <1>14, Zenon DEF FlagTypes, HandOff, Flag, Halted, ReleaseRequired, HaltAny, HaltNoSuspend
  <2>2. PlaceTypes'
    BY <1>14, Zenon DEF PlaceTypes, HandOff, Goto, Label, RequestLabel
  <2>3. CountTypes'
    <3>1. exclusiveCount \in [Thread -> 0..MaxExclusiveDepth] /\ 0 \in 0..MaxExclusiveDepth
      BY RequesterAssumption DEF CountTypes
    <3>2. exclusiveCount' = [exclusiveCount EXCEPT ![t] = 0]
      BY <1>14, Zenon DEF HandOff
    <3>3. exclusiveCount' \in [Thread -> 0..MaxExclusiveDepth]
      BY <3>1, <3>2, Zenon
    <3>4. jniCriticalResponseCount' \in {0, -1}
      BY <1>14, Zenon DEF HandOff
    <3>5. jniCriticalResponseCount' \in Int
      BY <3>4
    <3> QED BY <1>14, <3>3, <3>5, Zenon DEF CountTypes, HandOff
  <2>4. RequestTypes'
    <3>1. exclusiveVMAccessQueue \in Seq(Thread) /\ exclusiveVMAccessQueue # <<>>
      BY <1>14, Zenon DEF RequestTypes, HandOff
    <3>2. Head(exclusiveVMAccessQueue) \in Thread /\ Tail(exclusiveVMAccessQueue) \in Seq(Thread)
      BY <3>1
    <3> QED BY <1>14, <3>2, Zenon DEF RequestTypes, HandOff, XAccess
  <2> QED BY <1>14, <2>1, <2>2, <2>3, <2>4, Zenon DEF TypeOK, BufferTypes, MonitorTypes, HandOff
<1>15. CASE ReleaseExclusive(t)
  <2>1. FlagTypes'
    BY <1>15, Zenon DEF FlagTypes, ReleaseExclusive, Flag, Halted, ReleaseRequired, HaltAny,
        HaltNoSuspend
  <2>2. MonitorTypes'
    BY <1>15, Zenon DEF MonitorTypes, ReleaseExclusive
  <2>3. PlaceTypes'
    BY <1>15, Zenon DEF PlaceTypes, ReleaseExclusive, Goto, Label, RequestLabel
  <2>4. CountTypes'
    <3>1. exclusiveCount \in [Thread -> 0..MaxExclusiveDepth] /\ 0 \in 0..MaxExclusiveDepth
      BY RequesterAssumption DEF CountTypes
    <3>2. exclusiveCount' = [exclusiveCount EXCEPT ![t] = 0]
      BY <1>15, Zenon DEF ReleaseExclusive
    <3>3. exclusiveCount' \in [Thread -> 0..MaxExclusiveDepth]
      BY <3>1, <3>2, Zenon
    <3> QED BY <1>15, <3>3, Zenon DEF CountTypes, ReleaseExclusive
  <2>5. RequestTypes'
    BY <1>15, Zenon DEF RequestTypes, ReleaseExclusive, Others, XAccess
  <2> QED BY <1>15, <2>1, <2>2, <2>3, <2>4, <2>5, Zenon DEF TypeOK, BufferTypes, ReleaseExclusive
<1>16. ASSUME NEW u \in Thread, Notify(t, u) PROVE TypeOK'
  <2>1. MonitorTypes'
    BY <1>16, Zenon DEF MonitorTypes, Notify, NotifyPfm
  <2>2. RequestTypes'
    BY <1>16, Zenon DEF RequestTypes, Notify
  <2> QED BY <1>16, <2>1, <2>2, Zenon DEF TypeOK, FlagTypes, BufferTypes, PlaceTypes, CountTypes,
      Notify
<1>17. CASE NotifyEnd(t)
  <2>1. MonitorTypes'
    BY <1>17, Zenon DEF MonitorTypes, NotifyEnd
  <2>2. PlaceTypes'
    BY <1>17, Zenon DEF PlaceTypes, NotifyEnd, Goto, Label, AccessLabel, AtRest
  <2> QED BY <1>17, <2>1, <2>2, Zenon DEF TypeOK, FlagTypes, BufferTypes, CountTypes, RequestTypes,
      NotifyEnd
<1> QED BY <1>1, <1>2, <1>3, <1>4, <1>5, <1>6, <1>7, <1>8, <1>9, <1>10, <1>11, <1>12, <1>13,
    <1>14, <1>15, <1>16, <1>17 DEF RequestBegin, RequestStep

(* So do the creation and the death of a thread. *)
LEMMA LifecycleTypes ==
    ASSUME TypeOK, NEW t \in Thread, Lifecycle(t)
    PROVE  TypeOK'
<1> USE DEF TypeOK
<1>1. CASE AllocateVMThread(t)
  <2>1. FlagTypes'
    BY <1>1, FlagsType, Zenon DEF FlagTypes, AllocateVMThread, Flag, ReleaseRequired, HaltAny,
        HaltNoSuspend
  <2>2. PlaceTypes'
    BY <1>1, Zenon DEF PlaceTypes, AllocateVMThread, Goto, Label, AccessLabel, AtRest
  <2>3. RequestTypes'
    BY <1>1, Zenon DEF RequestTypes, AllocateVMThread
  <2> QED BY <1>1, <2>1, <2>2, <2>3, Zenon DEF TypeOK, BufferTypes, MonitorTypes, CountTypes,
      AllocateVMThread
<1>2. CASE DeallocateWait(t)
  <2>1. MonitorTypes'
    BY <1>2, Zenon DEF MonitorTypes, DeallocateWait
  <2>2. PlaceTypes'
    BY <1>2, Zenon DEF PlaceTypes, DeallocateWait, Goto, Label, DeathLabel
  <2> QED BY <1>2, <2>1, <2>2, Zenon DEF TypeOK, FlagTypes, BufferTypes, CountTypes, RequestTypes,
      DeallocateWait
<1>3. CASE DeallocateVMThread(t)
  <2>1. FlagTypes'
    BY <1>3, Zenon DEF FlagTypes, DeallocateVMThread, Flag, ReleaseRequired, HaltAny, HaltNoSuspend
  <2>2. PlaceTypes'
    BY <1>3, Zenon DEF PlaceTypes, DeallocateVMThread, Goto, Label, DeathLabel
  <2>3. RequestTypes'
    BY <1>3, Zenon DEF RequestTypes, DeallocateVMThread
  <2> QED BY <1>3, <2>1, <2>2, <2>3, Zenon DEF TypeOK, BufferTypes, MonitorTypes, CountTypes,
      DeallocateVMThread
<1> QED BY <1>1, <1>2, <1>3, Zenon DEF Lifecycle

(* The counters and flags of VM access start as values of their types. *)
LEMMA InitTypes == Init => TypeOK
<1> SUFFICES ASSUME Init PROVE TypeOK
  OBVIOUS
<1>1. FlagTypes /\ BufferTypes
  BY DEF Init, FlagTypes, BufferTypes
<1>2. MonitorTypes
  BY ThreadAssumption, Zenon DEF Init, MonitorTypes
<1>3. PlaceTypes
  <2>1. "dead" \in Label /\ "released" \in Label /\ "vm" \in ReturnLabel
    BY Zenon DEF Label, AccessLabel, AtRest, DeathLabel, ReturnLabel
  <2> QED BY <2>1, Zenon DEF Init, PlaceTypes
<1>4. CountTypes
  <2>1. 0 \in 0..MaxCriticalNesting /\ 0 \in 0..MaxExclusiveDepth /\ 0 \in Nat /\ 0 \in Int
    BY RequesterAssumption, ThreadAssumption
  <2> QED BY <2>1, Zenon DEF Init, CountTypes
<1>5. RequestTypes
  BY DEF Init, RequestTypes, XAccess
<1> QED BY <1>1, <1>2, <1>3, <1>4, <1>5, Zenon DEF TypeOK

(* TypeOK is inductive. *)
LEMMA NextTypes == TypeOK /\ [Next]_vars => TypeOK'
<1> SUFFICES ASSUME TypeOK, [Next]_vars PROVE TypeOK'
  OBVIOUS
<1>1. ASSUME NEW t \in Thread, ThreadNext(t) \/ (DrainOne(t) /\ UNCHANGED requestVars)
      PROVE  TypeOK'
  BY <1>1, AccessStepTypes, AccessBeginTypes, AccessDutyTypes, RequestTypesKept, LifecycleTypes, Zenon
     DEF ThreadNext, Access
<1>2. CASE UNCHANGED vars
  BY <1>2, Zenon DEF vars, TypeOK, FlagTypes, BufferTypes, MonitorTypes, PlaceTypes, CountTypes,
     RequestTypes
<1> QED BY <1>1, <1>2, Zenon DEF Next

(* In every run of VM access, with any number of threads, the flag words,
   monitors, counters and the queue of acquireExclusiveVMAccess hold values of
   their kind; in particular no nesting count drops below zero. *)
THEOREM TypeCorrect == Spec => []TypeOK
BY InitTypes, NextTypes, PTL DEF Spec

-----------------------------------------------------------------------------
(* Every action of VMAccess has the effects of AccessEffect. *)

USE DEF bufferVars, flagVars, pfmVars, criticalVars, localVars, countVars, stateVars, vmVars,
        expectVars, requestVars,
        Goto, EnterPfm, ExitPfm, WithFlags, Has, HasAny, HaltMask,
        Critical, ReleaseRequired, OutOfLine, HaltAny, HaltNoSuspend,
        OnlyVMAccess, MustRelease, MustRespond, MustHaltAtSafePoint,
        Acquiring, ClaimLabel, OwnerLabel

(* The free monitor's owner is no thread. *)
LEMMA NoThreadIsFree == NoThread \notin Thread
BY ThreadAssumption, Zenon

(* A fence does not change what a thread reads back of its own inNative ... *)
LEMMA DrainedOwn ==
    ASSUME BufferTypes, NEW t \in Thread, Drained(t)
    PROVE  OwnInNative(t)' = OwnInNative(t) /\ storeBuffer'[t] = <<>>
BY Zenon DEF BufferTypes, Drained, OwnInNative

(* The newest of several pending stores stays the newest when the oldest is gone. *)
LEMMA TailLast ==
    ASSUME NEW S, NEW s \in Seq(S), s # <<>>, Len(s) # 1
    PROVE  Tail(s) # <<>> /\ Tail(s)[Len(Tail(s))] = s[Len(s)]
<1>1. Len(s) \in Nat \ {0}
  OBVIOUS
<1>2. /\ Tail(s) \in Seq(S) /\ Len(Tail(s)) = Len(s) - 1
      /\ \A i \in 1..Len(Tail(s)) : Tail(s)[i] = s[i + 1]
  OBVIOUS
<1>3. Len(Tail(s)) \in 1..Len(Tail(s)) /\ Len(Tail(s)) # 0 /\ Len(Tail(s)) + 1 = Len(s)
  BY <1>1, <1>2
<1>4. ASSUME Tail(s) = <<>> PROVE FALSE
  <2>1. Len(<<>>) = 0
    OBVIOUS
  <2> QED BY <1>3, <1>4, <2>1, Zenon
<1> QED BY <1>2, <1>3, <1>4, Zenon

(* ... nor does a pending store that reaches memory. *)
LEMMA DrainOneOwn ==
    ASSUME BufferTypes, NEW t \in Thread, DrainOne(t)
    PROVE  OwnInNative(t)' = OwnInNative(t)
<1> DEFINE s == storeBuffer[t]
<1>1. s \in Seq(BOOLEAN) /\ s # <<>> /\ storeBuffer'[t] = Tail(s) /\ inNative'[t] = Head(s)
  BY Zenon DEF BufferTypes, DrainOne
<1>2. CASE Len(s) = 1
  BY <1>1, <1>2 DEF OwnInNative
<1>3. CASE Len(s) # 1
  <2>1. Tail(s) # <<>> /\ Tail(s)[Len(Tail(s))] = s[Len(s)]
    BY <1>1, <1>3, TailLast, Zenon
  <2> QED BY <1>1, <2>1, Zenon DEF OwnInNative
<1> QED BY <1>2, <1>3, Zenon

(* After the plain store to inNative at the JNI boundary the thread reads it back. *)
LEMMA StoreOwn ==
    ASSUME BufferTypes, NEW t \in Thread, NEW value \in BOOLEAN, Store(t, value)
    PROVE  OwnInNative(t)' = value
<1> DEFINE s == storeBuffer[t]
<1>1. s \in Seq(BOOLEAN) /\ storeBuffer'[t] = Append(s, value)
  BY Zenon DEF BufferTypes, Store
<1>2. Append(s, value) # <<>> /\ Append(s, value)[Len(Append(s, value))] = value
  BY <1>1
<1> QED BY <1>1, <1>2, Zenon DEF OwnInNative

(* After a store and a fence the thread reads the store back and holds none back. *)
LEMMA StoreFencedOwn ==
    ASSUME BufferTypes, NEW t \in Thread, NEW value \in BOOLEAN, StoreFenced(t, value)
    PROVE  OwnInNative(t)' = value /\ storeBuffer'[t] = <<>>
BY Zenon DEF BufferTypes, StoreFenced, OwnInNative

(* An operation that goes on at label moves its own thread only, and holds
   publicFlagsMutex exactly where the label says so. *)
LEMMA Continued ==
    ASSUME TypeOK, NEW t \in Thread, NEW label, ContinueHolding(t, label)
    PROVE  /\ pc'[t] = label
           /\ pfm'[t] = IF label \in Holding THEN t ELSE NoThread
           /\ \A u \in Thread \ {t} : pc'[u] = pc[u] /\ pfm'[u] = pfm[u]
BY Zenon DEF ContinueHolding, Goto, TypeOK, PlaceTypes, MonitorTypes

(* The effect of ClearVMAccess: the out-of-line release gives up VM access
   under publicFlagsMutex. *)
LEMMA ClearVMAccessEffect ==
    ASSUME TypeOK, TypeOK', NEW t \in Thread, Local(t), QueueInv(t),
           ClearVMAccess(t), UNCHANGED requestVars
    PROVE  AccessEffect(t)
<1> USE DEF TypeOK, Local, FlagTypes, PlaceTypes
<1>1. Frame(t)
  BY ZenonT(40) DEF Frame, ClearVMAccess, Drained, BufferTypes, MonitorTypes
<1>2. Kept(t) /\ StaysOut(t)
  BY DrainedOwn, Zenon DEF Kept, StaysOut, Unengaged, RequestLabel, Handed, Queued, QueueInv,
      RunsInVM, PcInv, AccessInv, ClearVMAccess
<1>3. Responds(t) /\ RespondsCritical(t)
  BY Zenon DEF Responds, RespondsCritical, Responder, CriticalResponder, RunsInVM, PcInv,
      AccessInv, CriticalInv, HaltInv, CountTypes, ClearVMAccess
<1>4. PcInv(t)' /\ AccessInv(t)'
  BY NoThreadIsFree, Zenon DEF PcInv, AccessInv, RunsInVM, DeathLabel, Holding, MonitorTypes,
      ClearVMAccess
<1>5. NativeInv(t)'
  BY DrainedOwn, Zenon DEF NativeInv, NativeCode, PcInv, ClearVMAccess
<1>6. CriticalInv(t)' /\ HaltInv(t)'
  BY <1>2, Zenon DEF CriticalInv, HaltInv, Kept, Unengaged, RequestLabel, Engaged, PcInv,
      ClearVMAccess
<1> QED BY <1>1, <1>2, <1>3, <1>4, <1>5, <1>6, Zenon DEF AccessEffect, Local

(* The effect of Respond: the out-of-line release responds to the requester
   that counted this thread. *)
LEMMA RespondEffect ==
    ASSUME TypeOK, TypeOK', NEW t \in Thread, Local(t), QueueInv(t),
           Respond(t), UNCHANGED requestVars
    PROVE  AccessEffect(t)
<1> USE DEF TypeOK, Local, FlagTypes, PlaceTypes
<1>1. Frame(t)
  BY Continued, Zenon DEF Frame, Respond, MonitorTypes
<1>2. Kept(t)
  BY Zenon DEF Kept, Unengaged, RequestLabel, Handed, Queued, QueueInv, PcInv, Respond,
      ContinueHolding
<1>3. StaysOut(t)
  BY Zenon DEF StaysOut, RunsInVM, PcInv, AccessInv, Respond, ContinueHolding
<1>4. Responds(t)
  BY DEF Responds, Responder, RunsInVM, PcInv, AccessInv, CountTypes, Respond,
      ContinueHolding
<1>5. RespondsCritical(t)
  BY Zenon DEF RespondsCritical, CriticalResponder, RunsInVM, PcInv, CriticalInv, HaltInv,
      CountTypes, Respond, ContinueHolding
<1>6. PcInv(t)'
  BY NoThreadIsFree, Zenon DEF PcInv, Holding, MonitorTypes, Respond, ContinueHolding
<1>7. NativeInv(t)'
  BY Zenon DEF NativeInv, NativeCode, PcInv, Respond, OwnInNative, ContinueHolding
<1>8. AccessInv(t)'
  BY Zenon DEF AccessInv, RunsInVM, DeathLabel, PcInv, Respond, ContinueHolding
<1>9. CriticalInv(t)'
  BY Zenon DEF CriticalInv, PcInv, HaltInv, Respond, ContinueHolding
<1>10. HaltInv(t)'
  BY <1>2, Zenon DEF HaltInv, Kept, Unengaged, RequestLabel, Engaged, PcInv, Respond,
      ContinueHolding
<1> QED BY <1>1, <1>2, <1>3, <1>4, <1>5, <1>6, <1>7, <1>8, <1>9, <1>10, Zenon DEF AccessEffect,
    Local

(* The effect of GiveUpCritical: an acquire gives up JNI critical access before
   it may wait. *)
LEMMA GiveUpCriticalEffect ==
    ASSUME TypeOK, TypeOK', NEW t \in Thread, Local(t), QueueInv(t),
           GiveUpCritical(t), UNCHANGED requestVars
    PROVE  AccessEffect(t)
<1> USE DEF TypeOK, Local, FlagTypes, PlaceTypes
<1>1. Frame(t)
  BY Zenon DEF Frame, GiveUpCritical
<1>2. Kept(t) /\ StaysOut(t)
  BY Zenon DEF Kept, StaysOut, Unengaged, RequestLabel, Handed, Queued, QueueInv, RunsInVM, PcInv,
      AccessInv, GiveUpCritical
<1>3. Responds(t) /\ RespondsCritical(t)
  BY Zenon DEF Responds, RespondsCritical, Responder, CriticalResponder, RunsInVM, PcInv,
      AccessInv, CriticalInv, HaltInv, CountTypes, GiveUpCritical
<1>4. PcInv(t)' /\ AccessInv(t)'
  BY NoThreadIsFree, Zenon DEF PcInv, AccessInv, RunsInVM, DeathLabel, Holding, MonitorTypes,
      GiveUpCritical
<1>5. NativeInv(t)'
  BY Zenon DEF NativeInv, NativeCode, PcInv, GiveUpCritical, OwnInNative
<1>6. CriticalInv(t)' /\ HaltInv(t)'
  BY <1>2, Zenon DEF CriticalInv, HaltInv, Kept, Unengaged, RequestLabel, Engaged, PcInv,
      GiveUpCritical
<1> QED BY <1>1, <1>2, <1>3, <1>4, <1>5, <1>6, Zenon DEF AccessEffect, Local

(* The effect of RespondCritical: an acquire responds for the JNI critical
   access it gave up. *)
LEMMA RespondCriticalEffect ==
    ASSUME TypeOK, TypeOK', NEW t \in Thread, Local(t), QueueInv(t),
           RespondCritical(t), UNCHANGED requestVars
    PROVE  AccessEffect(t)
<1> USE DEF TypeOK, Local, FlagTypes, PlaceTypes
<1>1. Frame(t)
  BY Zenon DEF Frame, RespondCritical
<1>2. Kept(t) /\ StaysOut(t)
  BY Zenon DEF Kept, StaysOut, Unengaged, RequestLabel, Handed, Queued, QueueInv, RunsInVM, PcInv,
      AccessInv, RespondCritical
<1>3. Responds(t) /\ RespondsCritical(t)
  BY Zenon DEF Responds, RespondsCritical, Responder, CriticalResponder, RunsInVM, PcInv,
      AccessInv, CriticalInv, HaltInv, CountTypes, RespondCritical
<1>4. PcInv(t)' /\ AccessInv(t)'
  BY NoThreadIsFree, Zenon DEF PcInv, AccessInv, RunsInVM, DeathLabel, Holding, MonitorTypes,
      RespondCritical
<1>5. NativeInv(t)'
  BY Zenon DEF NativeInv, NativeCode, PcInv, RespondCritical, OwnInNative
<1>6. CriticalInv(t)' /\ HaltInv(t)'
  BY <1>2, Zenon DEF CriticalInv, HaltInv, Kept, Unengaged, RequestLabel, Engaged, PcInv,
      RespondCritical
<1> QED BY <1>1, <1>2, <1>3, <1>4, <1>5, <1>6, Zenon DEF AccessEffect, Local

(* The effect of WaitForAccess: an acquire waits on publicFlagsMutex while a
   halt flag is set. *)
LEMMA WaitForAccessEffect ==
    ASSUME TypeOK, TypeOK', NEW t \in Thread, Local(t), QueueInv(t),
           WaitForAccess(t), UNCHANGED requestVars
    PROVE  AccessEffect(t)
<1> USE DEF TypeOK, Local, FlagTypes, PlaceTypes
<1>1. Frame(t)
  BY Zenon DEF Frame, WaitForAccess, MonitorTypes
<1>2. Kept(t) /\ StaysOut(t)
  BY Zenon DEF Kept, StaysOut, Unengaged, RequestLabel, Handed, Queued, QueueInv, RunsInVM, PcInv,
      AccessInv, WaitForAccess
<1>3. Responds(t) /\ RespondsCritical(t)
  BY Zenon DEF Responds, RespondsCritical, Responder, CriticalResponder, RunsInVM, PcInv,
      AccessInv, CriticalInv, HaltInv, CountTypes, WaitForAccess
<1>4. PcInv(t)' /\ AccessInv(t)'
  BY NoThreadIsFree DEF PcInv, AccessInv, RunsInVM, DeathLabel, Holding, MonitorTypes,
      WaitForAccess
<1>5. NativeInv(t)'
  BY Zenon DEF NativeInv, NativeCode, PcInv, WaitForAccess, OwnInNative
<1>6. CriticalInv(t)' /\ HaltInv(t)'
  BY <1>2, Zenon DEF CriticalInv, HaltInv, Kept, Unengaged, RequestLabel, Engaged, PcInv,
      WaitForAccess
<1> QED BY <1>1, <1>2, <1>3, <1>4, <1>5, <1>6, Zenon DEF AccessEffect, Local

(* The effect of Wake: an acquire wakes up and owns publicFlagsMutex again. *)
LEMMA WakeEffect ==
    ASSUME TypeOK, TypeOK', NEW t \in Thread, Local(t), QueueInv(t),
           Wake(t), UNCHANGED requestVars
    PROVE  AccessEffect(t)
<1> USE DEF TypeOK, Local, FlagTypes, PlaceTypes
<1>1. Frame(t)
  BY DEF Frame, Wake, MonitorTypes
<1>2. Kept(t) /\ StaysOut(t)
  BY Zenon DEF Kept, StaysOut, Unengaged, RequestLabel, Handed, Queued, QueueInv, RunsInVM, PcInv,
      AccessInv, Wake
<1>3. Responds(t) /\ RespondsCritical(t)
  BY Zenon DEF Responds, RespondsCritical, Responder, CriticalResponder, RunsInVM, PcInv,
      AccessInv, CriticalInv, HaltInv, CountTypes, Wake
<1>4. PcInv(t)' /\ AccessInv(t)'
  BY NoThreadIsFree, Zenon DEF PcInv, AccessInv, RunsInVM, DeathLabel, Holding, MonitorTypes,
      Wake
<1>5. NativeInv(t)'
  BY Zenon DEF NativeInv, NativeCode, PcInv, Wake, OwnInNative
<1>6. CriticalInv(t)' /\ HaltInv(t)'
  BY <1>2, Zenon DEF CriticalInv, HaltInv, Kept, Unengaged, RequestLabel, Engaged, PcInv, Wake
<1> QED BY <1>1, <1>2, <1>3, <1>4, <1>5, <1>6, Zenon DEF AccessEffect, Local

(* The effect of TakeVMAccess: an acquire takes VM access when no halt flag of
   its mask is set. *)
LEMMA TakeVMAccessEffect ==
    ASSUME TypeOK, TypeOK', NEW t \in Thread, Local(t), QueueInv(t),
           TakeVMAccess(t), UNCHANGED requestVars
    PROVE  AccessEffect(t)
<1> USE DEF TypeOK, Local, FlagTypes, PlaceTypes
<1>1. Frame(t)
  BY Continued, ZenonT(40) DEF Frame, TakeVMAccess, MonitorTypes
<1>2. Kept(t)
  BY Zenon DEF Kept, Unengaged, RequestLabel, Handed, Queued, QueueInv, PcInv, TakeVMAccess,
      ContinueHolding
<1>3. StaysOut(t)
  BY Zenon DEF StaysOut, RunsInVM, PcInv, AccessInv, TakeVMAccess, ContinueHolding
<1>4. Responds(t)
  BY Zenon DEF Responds, Responder, RunsInVM, PcInv, AccessInv, CountTypes, TakeVMAccess,
      ContinueHolding
<1>5. RespondsCritical(t)
  BY Zenon DEF RespondsCritical, CriticalResponder, RunsInVM, PcInv, CriticalInv, HaltInv,
      CountTypes, TakeVMAccess, ContinueHolding
<1>6. PcInv(t)'
  BY NoThreadIsFree, ZenonT(40) DEF PcInv, Holding, MonitorTypes, TakeVMAccess, ContinueHolding
<1>7. NativeInv(t)'
  BY Zenon DEF NativeInv, NativeCode, PcInv, TakeVMAccess, OwnInNative, ContinueHolding
<1>8. AccessInv(t)'
  BY Zenon DEF AccessInv, RunsInVM, DeathLabel, PcInv, TakeVMAccess, ContinueHolding
<1>9. CriticalInv(t)'
  BY Zenon DEF CriticalInv, PcInv, HaltInv, TakeVMAccess, ContinueHolding
<1>10. HaltInv(t)'
  BY <1>2, Zenon DEF HaltInv, Kept, Unengaged, RequestLabel, Engaged, PcInv, TakeVMAccess,
      ContinueHolding
<1> QED BY <1>1, <1>2, <1>3, <1>4, <1>5, <1>6, <1>7, <1>8, <1>9, <1>10, Zenon DEF AccessEffect,
    Local

(* The effect of ExitInline: inlineExitVMToJNI finds no flag but VM access. *)
LEMMA ExitInlineEffect ==
    ASSUME TypeOK, TypeOK', NEW t \in Thread, Local(t), QueueInv(t),
           ExitInline(t), UNCHANGED requestVars
    PROVE  AccessEffect(t)
<1> USE DEF TypeOK, Local, FlagTypes, PlaceTypes
<1>1. Frame(t)
  BY Zenon DEF Frame, ExitInline
<1>2. Kept(t) /\ StaysOut(t)
  BY Zenon DEF Kept, StaysOut, Unengaged, RequestLabel, Handed, Queued, QueueInv, RunsInVM, PcInv,
      AccessInv, ExitInline
<1>3. Responds(t) /\ RespondsCritical(t)
  BY Zenon DEF Responds, RespondsCritical, Responder, CriticalResponder, RunsInVM, PcInv,
      AccessInv, CriticalInv, HaltInv, CountTypes, ExitInline
<1>4. PcInv(t)' /\ AccessInv(t)'
  BY NoThreadIsFree, Zenon DEF PcInv, AccessInv, RunsInVM, DeathLabel, Holding, MonitorTypes,
      ExitInline
<1>5. NativeInv(t)'
  BY Zenon DEF NativeInv, NativeCode, PcInv, ExitInline, OwnInNative
<1>6. CriticalInv(t)' /\ HaltInv(t)'
  BY <1>2, Zenon DEF CriticalInv, HaltInv, Kept, Unengaged, RequestLabel, Engaged, PcInv,
      ExitInline
<1> QED BY <1>1, <1>2, <1>3, <1>4, <1>5, <1>6, Zenon DEF AccessEffect, Local

(* The effect of ExitOutOfLine: inlineExitVMToJNI finds a flag and calls
   internalExitVMToJNI. *)
LEMMA ExitOutOfLineEffect ==
    ASSUME TypeOK, TypeOK', NEW t \in Thread, Local(t), QueueInv(t),
           ExitOutOfLine(t), UNCHANGED requestVars
    PROVE  AccessEffect(t)
<1> USE DEF TypeOK, Local, FlagTypes, PlaceTypes
<1>1. Frame(t)
  BY Zenon DEF Frame, ExitOutOfLine, StoreFenced, BufferTypes
<1>2. Kept(t) /\ StaysOut(t)
  BY StoreFencedOwn, Zenon DEF Kept, StaysOut, Unengaged, RequestLabel, Handed, Queued, QueueInv,
      RunsInVM, PcInv, AccessInv, ExitOutOfLine
<1>3. Responds(t) /\ RespondsCritical(t)
  BY Zenon DEF Responds, RespondsCritical, Responder, CriticalResponder, RunsInVM, PcInv,
      AccessInv, CriticalInv, HaltInv, CountTypes, ExitOutOfLine
<1>4. PcInv(t)' /\ AccessInv(t)'
  BY NoThreadIsFree, Zenon DEF PcInv, AccessInv, RunsInVM, DeathLabel, Holding, MonitorTypes,
      ExitOutOfLine
<1>5. NativeInv(t)'
  BY StoreFencedOwn, Zenon DEF NativeInv, NativeCode, PcInv, ExitOutOfLine
<1>6. CriticalInv(t)' /\ HaltInv(t)'
  BY <1>2, Zenon DEF CriticalInv, HaltInv, Kept, Unengaged, RequestLabel, Engaged, PcInv,
      ExitOutOfLine
<1> QED BY <1>1, <1>2, <1>3, <1>4, <1>5, <1>6, Zenon DEF AccessEffect, Local

(* The effect of ExitSlow: internalExitVMToJNI releases VM access if it was
   asked to. *)
LEMMA ExitSlowEffect ==
    ASSUME TypeOK, TypeOK', NEW t \in Thread, Local(t), QueueInv(t),
           ExitSlow(t), UNCHANGED requestVars
    PROVE  AccessEffect(t)
<1> USE DEF TypeOK, Local, FlagTypes, PlaceTypes
<1>1. Frame(t)
  BY Continued, Zenon DEF Frame, ExitSlow, MonitorTypes
<1>2. Kept(t) /\ StaysOut(t)
  BY Zenon DEF Kept, StaysOut, Unengaged, RequestLabel, Handed, Queued, QueueInv, RunsInVM, PcInv,
      AccessInv, ExitSlow, ContinueHolding
<1>3. Responds(t) /\ RespondsCritical(t)
  BY Zenon DEF Responds, RespondsCritical, Responder, CriticalResponder, RunsInVM, PcInv,
      AccessInv, CriticalInv, HaltInv, CountTypes, ExitSlow, ContinueHolding
<1>4. PcInv(t)' /\ AccessInv(t)'
  BY NoThreadIsFree, ZenonT(40) DEF PcInv, AccessInv, RunsInVM, DeathLabel, Holding, MonitorTypes,
      ExitSlow, ContinueHolding
<1>5. NativeInv(t)'
  BY Zenon DEF NativeInv, NativeCode, PcInv, ExitSlow, OwnInNative, ContinueHolding
<1>6. CriticalInv(t)' /\ HaltInv(t)'
  BY <1>2, Zenon DEF CriticalInv, HaltInv, Kept, Unengaged, RequestLabel, Engaged, PcInv, ExitSlow,
      ContinueHolding
<1> QED BY <1>1, <1>2, <1>3, <1>4, <1>5, <1>6, Zenon DEF AccessEffect, Local

(* The effect of EnterInline: inlineEnterVMFromJNI finds no flag but VM access.
   *)
LEMMA EnterInlineEffect ==
    ASSUME TypeOK, TypeOK', NEW t \in Thread, Local(t), QueueInv(t),
           EnterInline(t), UNCHANGED requestVars
    PROVE  AccessEffect(t)
<1> USE DEF TypeOK, Local, FlagTypes, PlaceTypes
<1>1. Frame(t)
  BY Zenon DEF Frame, EnterInline
<1>2. Kept(t) /\ StaysOut(t)
  BY Zenon DEF Kept, StaysOut, Unengaged, RequestLabel, Handed, Queued, QueueInv, RunsInVM, PcInv,
      AccessInv, EnterInline
<1>3. Responds(t) /\ RespondsCritical(t)
  BY Zenon DEF Responds, RespondsCritical, Responder, CriticalResponder, RunsInVM, PcInv,
      AccessInv, CriticalInv, HaltInv, CountTypes, EnterInline
<1>4. PcInv(t)' /\ AccessInv(t)'
  BY NoThreadIsFree, Zenon DEF PcInv, AccessInv, RunsInVM, DeathLabel, Holding, MonitorTypes,
      EnterInline
<1>5. NativeInv(t)'
  BY Zenon DEF NativeInv, NativeCode, PcInv, EnterInline, OwnInNative
<1>6. CriticalInv(t)' /\ HaltInv(t)'
  BY <1>2, Zenon DEF CriticalInv, HaltInv, Kept, Unengaged, RequestLabel, Engaged, PcInv,
      EnterInline
<1> QED BY <1>1, <1>2, <1>3, <1>4, <1>5, <1>6, Zenon DEF AccessEffect, Local

(* The effect of EnterOutOfLine: inlineEnterVMFromJNI finds a flag and calls
   internalEnterVMFromJNI. *)
LEMMA EnterOutOfLineEffect ==
    ASSUME TypeOK, TypeOK', NEW t \in Thread, Local(t), QueueInv(t),
           EnterOutOfLine(t), UNCHANGED requestVars
    PROVE  AccessEffect(t)
<1> USE DEF TypeOK, Local, FlagTypes, PlaceTypes
<1>1. Frame(t)
  BY Zenon DEF Frame, EnterOutOfLine, StoreFenced, BufferTypes
<1>2. Kept(t) /\ StaysOut(t)
  BY StoreFencedOwn, Zenon DEF Kept, StaysOut, Unengaged, RequestLabel, Handed, Queued, QueueInv,
      RunsInVM, PcInv, AccessInv, EnterOutOfLine
<1>3. Responds(t) /\ RespondsCritical(t)
  BY Zenon DEF Responds, RespondsCritical, Responder, CriticalResponder, RunsInVM, PcInv,
      AccessInv, CriticalInv, HaltInv, CountTypes, EnterOutOfLine
<1>4. PcInv(t)' /\ AccessInv(t)'
  BY NoThreadIsFree, Zenon DEF PcInv, AccessInv, RunsInVM, DeathLabel, Holding, MonitorTypes,
      EnterOutOfLine
<1>5. NativeInv(t)'
  BY StoreFencedOwn, Zenon DEF NativeInv, NativeCode, PcInv, EnterOutOfLine
<1>6. CriticalInv(t)' /\ HaltInv(t)'
  BY <1>2, Zenon DEF CriticalInv, HaltInv, Kept, Unengaged, RequestLabel, Engaged, PcInv,
      EnterOutOfLine
<1> QED BY <1>1, <1>2, <1>3, <1>4, <1>5, <1>6, Zenon DEF AccessEffect, Local

(* The effect of EnterSlow: internalEnterVMFromJNI releases and acquires VM
   access as the flags ask. *)
LEMMA EnterSlowEffect ==
    ASSUME TypeOK, TypeOK', NEW t \in Thread, Local(t), QueueInv(t),
           EnterSlow(t), UNCHANGED requestVars
    PROVE  AccessEffect(t)
<1> USE DEF TypeOK, Local, FlagTypes, PlaceTypes
<1>1. Frame(t)
  BY Continued, Zenon DEF Frame, EnterSlow, EnterHolding, MonitorTypes
<1>2. Kept(t) /\ StaysOut(t)
  BY Zenon DEF Kept, StaysOut, Unengaged, RequestLabel, Handed, Queued, QueueInv, RunsInVM, PcInv,
      AccessInv, EnterSlow, EnterHolding, ContinueHolding
<1>3. Responds(t) /\ RespondsCritical(t)
  BY Zenon DEF Responds, RespondsCritical, Responder, CriticalResponder, RunsInVM, PcInv,
      AccessInv, CriticalInv, HaltInv, CountTypes, EnterSlow, EnterHolding, ContinueHolding
<1>4. PcInv(t)' /\ AccessInv(t)'
  BY NoThreadIsFree DEF PcInv, AccessInv, RunsInVM, DeathLabel, Holding, MonitorTypes,
      EnterSlow, EnterHolding, ContinueHolding
<1>5. NativeInv(t)'
  BY Zenon DEF NativeInv, NativeCode, PcInv, EnterSlow, EnterHolding, OwnInNative, ContinueHolding
<1>6. CriticalInv(t)' /\ HaltInv(t)'
  BY <1>2, Zenon DEF CriticalInv, HaltInv, Kept, Unengaged, RequestLabel, Engaged, PcInv,
      EnterSlow, EnterHolding, ContinueHolding
<1> QED BY <1>1, <1>2, <1>3, <1>4, <1>5, <1>6, Zenon DEF AccessEffect, Local

(* The effect of EndAsyncCheck: javaCheckAsyncMessages finds no halt request
   left. *)
LEMMA EndAsyncCheckEffect ==
    ASSUME TypeOK, TypeOK', NEW t \in Thread, Local(t), QueueInv(t),
           EndAsyncCheck(t), UNCHANGED requestVars
    PROVE  AccessEffect(t)
<1> USE DEF TypeOK, Local, FlagTypes, PlaceTypes
<1>1. Frame(t)
  BY Continued, ZenonT(40) DEF Frame, EndAsyncCheck, Drained, BufferTypes, MonitorTypes
<1>2. Kept(t) /\ StaysOut(t)
  BY DrainedOwn, Zenon DEF Kept, StaysOut, Unengaged, RequestLabel, Handed, Queued, QueueInv,
      RunsInVM, PcInv, AccessInv, EndAsyncCheck, ContinueHolding
<1>3. Responds(t) /\ RespondsCritical(t)
  BY Zenon DEF Responds, RespondsCritical, Responder, CriticalResponder, RunsInVM, PcInv,
      AccessInv, CriticalInv, HaltInv, CountTypes, EndAsyncCheck, ContinueHolding
<1>4. PcInv(t)' /\ AccessInv(t)'
  BY NoThreadIsFree, Zenon DEF PcInv, AccessInv, RunsInVM, DeathLabel, Holding, MonitorTypes,
      EndAsyncCheck, ContinueHolding
<1>5. NativeInv(t)'
  BY DrainedOwn, Zenon DEF NativeInv, NativeCode, PcInv, EndAsyncCheck, ContinueHolding
<1>6. CriticalInv(t)' /\ HaltInv(t)'
  BY <1>2, Zenon DEF CriticalInv, HaltInv, Kept, Unengaged, RequestLabel, Engaged, PcInv,
      EndAsyncCheck, ContinueHolding
<1> QED BY <1>1, <1>2, <1>3, <1>4, <1>5, <1>6, Zenon DEF AccessEffect, Local

(* The effect of ReleaseFast: the compare-and-swap of inlineReleaseVMAccess. *)
LEMMA ReleaseFastEffect ==
    ASSUME TypeOK, TypeOK', NEW t \in Thread, Local(t), QueueInv(t),
           ReleaseFast(t), UNCHANGED requestVars
    PROVE  AccessEffect(t)
<1> USE DEF TypeOK, Local, FlagTypes, PlaceTypes
<1>1. Frame(t)
  BY Zenon DEF Frame, ReleaseFast, Drained, BufferTypes
<1>2. Kept(t) /\ StaysOut(t)
  BY DrainedOwn, Zenon DEF Kept, StaysOut, Unengaged, RequestLabel, Handed, Queued, QueueInv,
      RunsInVM, PcInv, AccessInv, ReleaseFast
<1>3. Responds(t) /\ RespondsCritical(t)
  BY Zenon DEF Responds, RespondsCritical, Responder, CriticalResponder, RunsInVM, PcInv,
      AccessInv, CriticalInv, HaltInv, CountTypes, ReleaseFast
<1>4. PcInv(t)' /\ AccessInv(t)'
  BY NoThreadIsFree, Zenon DEF PcInv, AccessInv, RunsInVM, DeathLabel, Holding, MonitorTypes,
      ReleaseFast
<1>5. NativeInv(t)'
  BY DrainedOwn, Zenon DEF NativeInv, NativeCode, PcInv, ReleaseFast
<1>6. CriticalInv(t)' /\ HaltInv(t)'
  BY <1>2, Zenon DEF CriticalInv, HaltInv, Kept, Unengaged, RequestLabel, Engaged, PcInv,
      ReleaseFast
<1> QED BY <1>1, <1>2, <1>3, <1>4, <1>5, <1>6, Zenon DEF AccessEffect, Local

(* The effect of ReleaseSlow: inlineReleaseVMAccess finds a halt request and
   goes out of line. *)
LEMMA ReleaseSlowEffect ==
    ASSUME TypeOK, TypeOK', NEW t \in Thread, Local(t), QueueInv(t),
           ReleaseSlow(t), UNCHANGED requestVars
    PROVE  AccessEffect(t)
<1> USE DEF TypeOK, Local, FlagTypes, PlaceTypes
<1>1. Frame(t)
  BY Zenon DEF Frame, ReleaseSlow
<1>2. Kept(t) /\ StaysOut(t)
  BY Zenon DEF Kept, StaysOut, Unengaged, RequestLabel, Handed, Queued, QueueInv, RunsInVM, PcInv,
      AccessInv, ReleaseSlow
<1>3. Responds(t) /\ RespondsCritical(t)
  BY Zenon DEF Responds, RespondsCritical, Responder, CriticalResponder, RunsInVM, PcInv,
      AccessInv, CriticalInv, HaltInv, CountTypes, ReleaseSlow
<1>4. PcInv(t)' /\ AccessInv(t)'
  BY NoThreadIsFree, Zenon DEF PcInv, AccessInv, RunsInVM, DeathLabel, Holding, MonitorTypes,
      ReleaseSlow
<1>5. NativeInv(t)'
  BY Zenon DEF NativeInv, NativeCode, PcInv, ReleaseSlow, OwnInNative
<1>6. CriticalInv(t)' /\ HaltInv(t)'
  BY <1>2, Zenon DEF CriticalInv, HaltInv, Kept, Unengaged, RequestLabel, Engaged, PcInv,
      ReleaseSlow
<1> QED BY <1>1, <1>2, <1>3, <1>4, <1>5, <1>6, Zenon DEF AccessEffect, Local

(* The effect of AcquireFast: the compare-and-swap of
   inlineAcquireVMAccessExhaustiveCheck. *)
LEMMA AcquireFastEffect ==
    ASSUME TypeOK, TypeOK', NEW t \in Thread, Local(t), QueueInv(t),
           AcquireFast(t), UNCHANGED requestVars
    PROVE  AccessEffect(t)
<1> USE DEF TypeOK, Local, FlagTypes, PlaceTypes
<1>1. Frame(t)
  BY Zenon DEF Frame, AcquireFast
<1>2. Kept(t) /\ StaysOut(t)
  BY Zenon DEF Kept, StaysOut, Unengaged, RequestLabel, Handed, Queued, QueueInv, RunsInVM, PcInv,
      AccessInv, AcquireFast
<1>3. Responds(t) /\ RespondsCritical(t)
  BY Zenon DEF Responds, RespondsCritical, Responder, CriticalResponder, RunsInVM, PcInv,
      AccessInv, CriticalInv, HaltInv, CountTypes, AcquireFast
<1>4. PcInv(t)' /\ AccessInv(t)'
  BY NoThreadIsFree, Zenon DEF PcInv, AccessInv, RunsInVM, DeathLabel, Holding, MonitorTypes,
      AcquireFast
<1>5. NativeInv(t)'
  BY Zenon DEF NativeInv, NativeCode, PcInv, AcquireFast, OwnInNative
<1>6. CriticalInv(t)' /\ HaltInv(t)'
  BY <1>2, Zenon DEF CriticalInv, HaltInv, Kept, Unengaged, RequestLabel, Engaged, PcInv,
      AcquireFast
<1> QED BY <1>1, <1>2, <1>3, <1>4, <1>5, <1>6, Zenon DEF AccessEffect, Local

(* The effect of AcquireSlow: an inline acquire enters publicFlagsMutex to go
   out of line. *)
LEMMA AcquireSlowEffect ==
    ASSUME TypeOK, TypeOK', NEW t \in Thread, Local(t), QueueInv(t),
           AcquireSlow(t), UNCHANGED requestVars
    PROVE  AccessEffect(t)
<1> USE DEF TypeOK, Local, FlagTypes, PlaceTypes
<1>1. Frame(t)
  BY ZenonT(40) DEF Frame, AcquireSlow, MonitorTypes
<1>2. Kept(t) /\ StaysOut(t)
  BY Zenon DEF Kept, StaysOut, Unengaged, RequestLabel, Handed, Queued, QueueInv, RunsInVM, PcInv,
      AccessInv, AcquireSlow
<1>3. Responds(t) /\ RespondsCritical(t)
  BY Zenon DEF Responds, RespondsCritical, Responder, CriticalResponder, RunsInVM, PcInv,
      AccessInv, CriticalInv, HaltInv, CountTypes, AcquireSlow
<1>4. PcInv(t)' /\ AccessInv(t)'
  BY NoThreadIsFree, Zenon DEF PcInv, AccessInv, RunsInVM, DeathLabel, Holding, MonitorTypes,
      AcquireSlow
<1>5. NativeInv(t)'
  BY Zenon DEF NativeInv, NativeCode, PcInv, AcquireSlow, OwnInNative
<1>6. CriticalInv(t)' /\ HaltInv(t)'
  BY <1>2, Zenon DEF CriticalInv, HaltInv, Kept, Unengaged, RequestLabel, Engaged, PcInv,
      AcquireSlow
<1> QED BY <1>1, <1>2, <1>3, <1>4, <1>5, <1>6, Zenon DEF AccessEffect, Local

(* The effect of TryAcquire: internalTryAcquireVMAccess succeeds out of line.
   *)
LEMMA TryAcquireEffect ==
    ASSUME TypeOK, TypeOK', NEW t \in Thread, Local(t), QueueInv(t),
           TryAcquire(t), UNCHANGED requestVars
    PROVE  AccessEffect(t)
<1> USE DEF TypeOK, Local, FlagTypes, PlaceTypes
<1>1. Frame(t)
  BY Zenon DEF Frame, TryAcquire
<1>2. Kept(t) /\ StaysOut(t)
  BY Zenon DEF Kept, StaysOut, Unengaged, RequestLabel, Handed, Queued, QueueInv, RunsInVM, PcInv,
      AccessInv, TryAcquire
<1>3. Responds(t) /\ RespondsCritical(t)
  BY Zenon DEF Responds, RespondsCritical, Responder, CriticalResponder, RunsInVM, PcInv,
      AccessInv, CriticalInv, HaltInv, CountTypes, TryAcquire
<1>4. PcInv(t)' /\ AccessInv(t)'
  BY NoThreadIsFree, Zenon DEF PcInv, AccessInv, RunsInVM, DeathLabel, Holding, MonitorTypes,
      TryAcquire
<1>5. NativeInv(t)'
  BY Zenon DEF NativeInv, NativeCode, PcInv, TryAcquire, OwnInNative
<1>6. CriticalInv(t)' /\ HaltInv(t)'
  BY <1>2, Zenon DEF CriticalInv, HaltInv, Kept, Unengaged, RequestLabel, Engaged, PcInv,
      TryAcquire
<1> QED BY <1>1, <1>2, <1>3, <1>4, <1>5, <1>6, Zenon DEF AccessEffect, Local

(* The effect of ExitVMToJNI: inlineExitVMToJNI stores TRUE to inNative. *)
LEMMA ExitVMToJNIEffect ==
    ASSUME TypeOK, TypeOK', NEW t \in Thread, Local(t), QueueInv(t),
           ExitVMToJNI(t), UNCHANGED requestVars
    PROVE  AccessEffect(t)
<1> USE DEF TypeOK, Local, FlagTypes, PlaceTypes
<1>1. Frame(t)
  BY Zenon DEF Frame, ExitVMToJNI, Store, BufferTypes
<1>2. Kept(t) /\ StaysOut(t)
  BY StoreOwn, Zenon DEF Kept, StaysOut, Unengaged, RequestLabel, Handed, Queued, QueueInv,
      RunsInVM, PcInv, AccessInv, ExitVMToJNI
<1>3. Responds(t) /\ RespondsCritical(t)
  BY Zenon DEF Responds, RespondsCritical, Responder, CriticalResponder, RunsInVM, PcInv,
      AccessInv, CriticalInv, HaltInv, CountTypes, ExitVMToJNI
<1>4. PcInv(t)' /\ AccessInv(t)'
  BY NoThreadIsFree, Zenon DEF PcInv, AccessInv, RunsInVM, DeathLabel, Holding, MonitorTypes,
      ExitVMToJNI
<1>5. NativeInv(t)'
  BY StoreOwn, Zenon DEF NativeInv, NativeCode, PcInv, ExitVMToJNI
<1>6. CriticalInv(t)' /\ HaltInv(t)'
  BY <1>2, Zenon DEF CriticalInv, HaltInv, Kept, Unengaged, RequestLabel, Engaged, PcInv,
      ExitVMToJNI
<1> QED BY <1>1, <1>2, <1>3, <1>4, <1>5, <1>6, Zenon DEF AccessEffect, Local

(* The effect of EnterVMFromJNI: inlineEnterVMFromJNI stores FALSE to inNative.
   *)
LEMMA EnterVMFromJNIEffect ==
    ASSUME TypeOK, TypeOK', NEW t \in Thread, Local(t), QueueInv(t),
           EnterVMFromJNI(t), UNCHANGED requestVars
    PROVE  AccessEffect(t)
<1> USE DEF TypeOK, Local, FlagTypes, PlaceTypes
<1>1. Frame(t)
  BY Zenon DEF Frame, EnterVMFromJNI, Store, BufferTypes
<1>2. Kept(t) /\ StaysOut(t)
  BY StoreOwn, Zenon DEF Kept, StaysOut, Unengaged, RequestLabel, Handed, Queued, QueueInv,
      RunsInVM, PcInv, AccessInv, EnterVMFromJNI
<1>3. Responds(t) /\ RespondsCritical(t)
  BY Zenon DEF Responds, RespondsCritical, Responder, CriticalResponder, RunsInVM, PcInv,
      AccessInv, CriticalInv, HaltInv, CountTypes, EnterVMFromJNI
<1>4. PcInv(t)' /\ AccessInv(t)'
  BY NoThreadIsFree, Zenon DEF PcInv, AccessInv, RunsInVM, DeathLabel, Holding, MonitorTypes,
      EnterVMFromJNI
<1>5. NativeInv(t)'
  BY StoreOwn, Zenon DEF NativeInv, NativeCode, PcInv, EnterVMFromJNI
<1>6. CriticalInv(t)' /\ HaltInv(t)'
  BY <1>2, Zenon DEF CriticalInv, HaltInv, Kept, Unengaged, RequestLabel, Engaged, PcInv,
      EnterVMFromJNI
<1> QED BY <1>1, <1>2, <1>3, <1>4, <1>5, <1>6, Zenon DEF AccessEffect, Local

(* The effect of CheckAsyncMessages: javaCheckAsyncMessages sees a halt request
   and releases VM access. *)
LEMMA CheckAsyncMessagesEffect ==
    ASSUME TypeOK, TypeOK', NEW t \in Thread, Local(t), QueueInv(t),
           CheckAsyncMessages(t), UNCHANGED requestVars
    PROVE  AccessEffect(t)
<1> USE DEF TypeOK, Local, FlagTypes, PlaceTypes
<1>1. Frame(t)
  <2>1. \A u \in Thread \ {t} : pc'[u] = pc[u] /\ pfm'[u] = pfm[u]
    BY Continued, Zenon DEF CheckAsyncMessages
  <2> QED BY <2>1, Zenon DEF Frame, CheckAsyncMessages, Drained, BufferTypes
<1>2. Kept(t)
  BY Zenon DEF Kept, Unengaged, RequestLabel, Handed, Queued, QueueInv, PcInv, CheckAsyncMessages,
      ContinueHolding
<1>3. StaysOut(t)
  BY DrainedOwn, Zenon DEF StaysOut, RunsInVM, PcInv, AccessInv, CheckAsyncMessages,
      ContinueHolding
<1>4. Responds(t)
  BY Zenon DEF Responds, Responder, RunsInVM, PcInv, AccessInv, CountTypes, CheckAsyncMessages,
      ContinueHolding
<1>5. RespondsCritical(t)
  BY Zenon DEF RespondsCritical, CriticalResponder, RunsInVM, PcInv, CriticalInv, HaltInv,
      CountTypes, CheckAsyncMessages, ContinueHolding
<1>6. PcInv(t)'
  BY NoThreadIsFree, Zenon DEF PcInv, Holding, MonitorTypes, CheckAsyncMessages, ContinueHolding
<1>7. NativeInv(t)'
  BY DrainedOwn, Zenon DEF NativeInv, NativeCode, PcInv, CheckAsyncMessages, ContinueHolding
<1>8. AccessInv(t)'
  BY Zenon DEF AccessInv, RunsInVM, DeathLabel, PcInv, CheckAsyncMessages, ContinueHolding
<1>9. CriticalInv(t)'
  BY Zenon DEF CriticalInv, PcInv, HaltInv, CheckAsyncMessages, ContinueHolding
<1>10. HaltInv(t)'
  BY <1>2, Zenon DEF HaltInv, Kept, Unengaged, RequestLabel, Engaged, PcInv, CheckAsyncMessages,
      ContinueHolding
<1> QED BY <1>1, <1>2, <1>3, <1>4, <1>5, <1>6, <1>7, <1>8, <1>9, <1>10, Zenon DEF AccessEffect,
    Local

(* The effect of DrainOne: a processor writes its oldest pending store of
   inNative to memory. *)
LEMMA DrainOneEffect ==
    ASSUME TypeOK, TypeOK', NEW t \in Thread, Local(t), QueueInv(t),
           DrainOne(t), UNCHANGED requestVars
    PROVE  AccessEffect(t)
<1> USE DEF TypeOK, Local, FlagTypes, PlaceTypes
<1>1. Frame(t)
  BY Zenon DEF Frame, DrainOne, BufferTypes
<1>2. Kept(t) /\ StaysOut(t)
  BY DrainOneOwn, Zenon DEF Kept, StaysOut, Unengaged, RequestLabel, Handed, Queued, QueueInv,
      RunsInVM, PcInv, AccessInv, DrainOne
<1>3. Responds(t) /\ RespondsCritical(t)
  BY Zenon DEF Responds, RespondsCritical, Responder, CriticalResponder, RunsInVM, PcInv,
      AccessInv, CriticalInv, HaltInv, CountTypes, DrainOne
<1>4. PcInv(t)' /\ AccessInv(t)'
  BY NoThreadIsFree, Zenon DEF PcInv, AccessInv, RunsInVM, DeathLabel, Holding, MonitorTypes,
      DrainOne
<1>5. NativeInv(t)'
  BY DrainOneOwn, Zenon DEF NativeInv, NativeCode, PcInv, DrainOne
<1>6. CriticalInv(t)' /\ HaltInv(t)'
  BY <1>2, Zenon DEF CriticalInv, HaltInv, Kept, Unengaged, RequestLabel, Engaged, PcInv, DrainOne
<1> QED BY <1>1, <1>2, <1>3, <1>4, <1>5, <1>6, Zenon DEF AccessEffect, Local

(* The effect of EnterCriticalWithAccess: enterCriticalRegion with VM access
   sets the flags under publicFlagsMutex. *)
LEMMA EnterCriticalWithAccessEffect ==
    ASSUME TypeOK, TypeOK', NEW t \in Thread, Local(t), QueueInv(t),
           EnterCriticalWithAccess(t), UNCHANGED requestVars
    PROVE  AccessEffect(t)
<1> USE DEF TypeOK, Local, FlagTypes, PlaceTypes
<1>1. Frame(t)
  BY Continued, Zenon DEF Frame, EnterCriticalWithAccess, MonitorTypes
<1>2. Kept(t)
  BY Zenon DEF Kept, Unengaged, RequestLabel, Handed, Queued, QueueInv, PcInv,
      EnterCriticalWithAccess, ContinueHolding
<1>3. StaysOut(t)
  BY Zenon DEF StaysOut, RunsInVM, PcInv, AccessInv, EnterCriticalWithAccess, ContinueHolding
<1>4. Responds(t)
  BY Zenon DEF Responds, Responder, RunsInVM, PcInv, AccessInv, CountTypes,
      EnterCriticalWithAccess, ContinueHolding
<1>5. RespondsCritical(t)
  BY Zenon DEF RespondsCritical, CriticalResponder, RunsInVM, PcInv, CriticalInv, HaltInv,
      CountTypes, EnterCriticalWithAccess, ContinueHolding
<1>6. PcInv(t)'
  BY NoThreadIsFree, Zenon DEF PcInv, Holding, MonitorTypes, EnterCriticalWithAccess,
      ContinueHolding
<1>7. NativeInv(t)'
  BY Zenon DEF NativeInv, NativeCode, PcInv, EnterCriticalWithAccess, OwnInNative, ContinueHolding
<1>8. AccessInv(t)'
  BY Zenon DEF AccessInv, RunsInVM, DeathLabel, PcInv, EnterCriticalWithAccess, ContinueHolding
<1>9. CriticalInv(t)'
  BY Zenon DEF CriticalInv, PcInv, HaltInv, EnterCriticalWithAccess, ContinueHolding
<1>10. HaltInv(t)'
  BY <1>2, Zenon DEF HaltInv, Kept, Unengaged, RequestLabel, Engaged, PcInv,
      EnterCriticalWithAccess, ContinueHolding
<1> QED BY <1>1, <1>2, <1>3, <1>4, <1>5, <1>6, <1>7, <1>8, <1>9, <1>10, Zenon DEF AccessEffect,
    Local

(* The effect of CountCritical: enterCriticalRegion of a thread asked to halt
   adds itself to the responses. *)
LEMMA CountCriticalEffect ==
    ASSUME TypeOK, TypeOK', NEW t \in Thread, Local(t), QueueInv(t),
           CountCritical(t), UNCHANGED requestVars
    PROVE  AccessEffect(t)
<1> USE DEF TypeOK, Local, FlagTypes, PlaceTypes
<1>1. Frame(t)
  BY Continued, Zenon DEF Frame, CountCritical, MonitorTypes
<1>2. Kept(t) /\ StaysOut(t)
  BY Zenon DEF Kept, StaysOut, Unengaged, RequestLabel, Handed, Queued, QueueInv, RunsInVM, PcInv,
      AccessInv, CountCritical, ContinueHolding
<1>3. Responds(t) /\ RespondsCritical(t)
  BY Zenon DEF Responds, RespondsCritical, Responder, CriticalResponder, RunsInVM, PcInv,
      AccessInv, CriticalInv, HaltInv, CountTypes, CountCritical, ContinueHolding
<1>4. PcInv(t)' /\ AccessInv(t)'
  BY NoThreadIsFree, Zenon DEF PcInv, AccessInv, RunsInVM, DeathLabel, Holding, MonitorTypes,
      CountCritical, ContinueHolding
<1>5. NativeInv(t)'
  BY Zenon DEF NativeInv, NativeCode, PcInv, CountCritical, OwnInNative, ContinueHolding
<1>6. CriticalInv(t)' /\ HaltInv(t)'
  BY <1>2, Zenon DEF CriticalInv, HaltInv, Kept, Unengaged, RequestLabel, Engaged, PcInv,
      CountCritical, ContinueHolding
<1> QED BY <1>1, <1>2, <1>3, <1>4, <1>5, <1>6, Zenon DEF AccessEffect, Local

(* The effect of EnterCriticalWithoutAccess: enterCriticalRegion from native
   with no flag set. *)
LEMMA EnterCriticalWithoutAccessEffect ==
    ASSUME TypeOK, TypeOK', NEW t \in Thread, Local(t), QueueInv(t),
           EnterCriticalWithoutAccess(t), UNCHANGED requestVars
    PROVE  AccessEffect(t)
<1> USE DEF TypeOK, Local, FlagTypes, PlaceTypes
<1>1. Frame(t)
  BY Zenon DEF Frame, EnterCriticalWithoutAccess
<1>2. Kept(t) /\ StaysOut(t)
  BY Zenon DEF Kept, StaysOut, Unengaged, RequestLabel, Handed, Queued, QueueInv, RunsInVM, PcInv,
      AccessInv, EnterCriticalWithoutAccess
<1>3. Responds(t) /\ RespondsCritical(t)
  BY Zenon DEF Responds, RespondsCritical, Responder, CriticalResponder, RunsInVM, PcInv,
      AccessInv, CriticalInv, HaltInv, CountTypes, EnterCriticalWithoutAccess
<1>4. PcInv(t)' /\ AccessInv(t)'
  BY NoThreadIsFree, Zenon DEF PcInv, AccessInv, RunsInVM, DeathLabel, Holding, MonitorTypes,
      EnterCriticalWithoutAccess
<1>5. NativeInv(t)'
  BY Zenon DEF NativeInv, NativeCode, PcInv, EnterCriticalWithoutAccess, OwnInNative
<1>6. CriticalInv(t)' /\ HaltInv(t)'
  BY <1>2, Zenon DEF CriticalInv, HaltInv, Kept, Unengaged, RequestLabel, Engaged, PcInv,
      EnterCriticalWithoutAccess
<1> QED BY <1>1, <1>2, <1>3, <1>4, <1>5, <1>6, Zenon DEF AccessEffect, Local

(* The effect of EnterCriticalThroughVM: enterCriticalRegion from native enters
   the VM first. *)
LEMMA EnterCriticalThroughVMEffect ==
    ASSUME TypeOK, TypeOK', NEW t \in Thread, Local(t), QueueInv(t),
           EnterCriticalThroughVM(t), UNCHANGED requestVars
    PROVE  AccessEffect(t)
<1> USE DEF TypeOK, Local, FlagTypes, PlaceTypes
<1>1. Frame(t)
  BY Continued DEF Frame, EnterCriticalThroughVM, EnterHolding, StoreFenced, BufferTypes,
      MonitorTypes
<1>2. Kept(t)
  BY Zenon DEF Kept, Unengaged, RequestLabel, Handed, Queued, QueueInv, PcInv,
      EnterCriticalThroughVM, EnterHolding, ContinueHolding
<1>3. StaysOut(t)
  BY StoreFencedOwn, Zenon DEF StaysOut, RunsInVM, PcInv, AccessInv, EnterCriticalThroughVM,
      EnterHolding, ContinueHolding
<1>4. Responds(t)
  BY Zenon DEF Responds, Responder, RunsInVM, PcInv, AccessInv, CountTypes,
      EnterCriticalThroughVM, EnterHolding, ContinueHolding
<1>5. RespondsCritical(t)
  BY Zenon DEF RespondsCritical, CriticalResponder, RunsInVM, PcInv, CriticalInv, HaltInv,
      CountTypes, EnterCriticalThroughVM, EnterHolding, ContinueHolding
<1>6. PcInv(t)'
  BY NoThreadIsFree, ZenonT(40) DEF PcInv, Holding, MonitorTypes, EnterCriticalThroughVM,
      EnterHolding, ContinueHolding
<1>7. NativeInv(t)'
  BY StoreFencedOwn, Zenon DEF NativeInv, NativeCode, PcInv, EnterCriticalThroughVM, EnterHolding,
      ContinueHolding
<1>8. AccessInv(t)'
  BY Zenon DEF AccessInv, RunsInVM, DeathLabel, PcInv, EnterCriticalThroughVM, EnterHolding,
      ContinueHolding
<1>9. CriticalInv(t)'
  BY Zenon DEF CriticalInv, PcInv, HaltInv, EnterCriticalThroughVM, EnterHolding, ContinueHolding
<1>10. HaltInv(t)'
  BY <1>2, Zenon DEF HaltInv, Kept, Unengaged, RequestLabel, Engaged, PcInv,
      EnterCriticalThroughVM, EnterHolding, ContinueHolding
<1> QED BY <1>1, <1>2, <1>3, <1>4, <1>5, <1>6, <1>7, <1>8, <1>9, <1>10, Zenon DEF AccessEffect,
    Local

(* The effect of SetCriticalFlags: enterCriticalRegion sets its flags and
   returns to native. *)
LEMMA SetCriticalFlagsEffect ==
    ASSUME TypeOK, TypeOK', NEW t \in Thread, Local(t), QueueInv(t),
           SetCriticalFlags(t), UNCHANGED requestVars
    PROVE  AccessEffect(t)
<1> USE DEF TypeOK, Local, FlagTypes, PlaceTypes
<1>1. Frame(t)
  BY Continued DEF Frame, SetCriticalFlags, StoreFenced, BufferTypes, MonitorTypes
<1>2. Kept(t)
  BY Zenon DEF Kept, Unengaged, RequestLabel, Handed, Queued, QueueInv, PcInv, SetCriticalFlags,
      ContinueHolding
<1>3. StaysOut(t)
  BY StoreFencedOwn, Zenon DEF StaysOut, RunsInVM, PcInv, AccessInv, SetCriticalFlags,
      ContinueHolding
<1>4. Responds(t)
  BY Zenon DEF Responds, Responder, RunsInVM, PcInv, AccessInv, CountTypes, SetCriticalFlags,
      ContinueHolding
<1>5. RespondsCritical(t)
  BY Zenon DEF RespondsCritical, CriticalResponder, RunsInVM, PcInv, CriticalInv, HaltInv,
      CountTypes, SetCriticalFlags, ContinueHolding
<1>6. PcInv(t)'
  <2>1. /\ pc[t] = "critical" /\ ret'[t] = "native" /\ linked' = linked
        /\ vmThreadListMutex' = vmThreadListMutex
        /\ \/ pc'[t] = "respond" /\ pfm'[t] = t
           \/ pc'[t] = "native" /\ pfm'[t] = NoThread
    <3>1. \E label \in {"respond", "native"} : ContinueHolding(t, label)
      BY Zenon DEF SetCriticalFlags
    <3>2. /\ pc[t] = "critical" /\ ret'[t] = "native" /\ linked' = linked
          /\ vmThreadListMutex' = vmThreadListMutex
      BY Zenon DEF SetCriticalFlags
    <3> QED BY <3>1, <3>2, Continued, Zenon DEF Holding
  <2> QED BY <2>1, NoThreadIsFree, Zenon DEF PcInv, Holding
<1>7. NativeInv(t)'
  BY StoreFencedOwn, Zenon DEF NativeInv, NativeCode, PcInv, SetCriticalFlags, ContinueHolding
<1>8. AccessInv(t)'
  BY Zenon DEF AccessInv, RunsInVM, DeathLabel, PcInv, SetCriticalFlags, ContinueHolding
<1>9. CriticalInv(t)'
  BY Zenon DEF CriticalInv, PcInv, HaltInv, SetCriticalFlags, ContinueHolding
<1>10. HaltInv(t)'
  BY <1>2, Zenon DEF HaltInv, Kept, Unengaged, RequestLabel, Engaged, PcInv, SetCriticalFlags,
      ContinueHolding
<1> QED BY <1>1, <1>2, <1>3, <1>4, <1>5, <1>6, <1>7, <1>8, <1>9, <1>10, Zenon DEF AccessEffect,
    Local

(* The effect of ExitCriticalSlow: exitCriticalRegion clears the flags under
   publicFlagsMutex. *)
LEMMA ExitCriticalSlowEffect ==
    ASSUME TypeOK, TypeOK', NEW t \in Thread, Local(t), QueueInv(t),
           ExitCriticalSlow(t), UNCHANGED requestVars
    PROVE  AccessEffect(t)
<1> USE DEF TypeOK, Local, FlagTypes, PlaceTypes
<1>1. Frame(t)
  BY Continued, Zenon DEF Frame, ExitCriticalSlow, MonitorTypes
<1>2. Kept(t)
  BY Zenon DEF Kept, Unengaged, RequestLabel, Handed, Queued, QueueInv, PcInv, ExitCriticalSlow,
      ContinueHolding
<1>3. StaysOut(t)
  BY Zenon DEF StaysOut, RunsInVM, PcInv, AccessInv, ExitCriticalSlow, ContinueHolding
<1>4. Responds(t)
  BY Zenon DEF Responds, Responder, RunsInVM, PcInv, AccessInv, CountTypes, ExitCriticalSlow,
      ContinueHolding
<1>5. RespondsCritical(t)
  BY Zenon DEF RespondsCritical, CriticalResponder, RunsInVM, PcInv, CriticalInv, HaltInv,
      CountTypes, ExitCriticalSlow, ContinueHolding
<1>6. PcInv(t)'
  BY NoThreadIsFree, Zenon DEF PcInv, Holding, MonitorTypes, ExitCriticalSlow, ContinueHolding
<1>7. NativeInv(t)'
  BY Zenon DEF NativeInv, NativeCode, PcInv, ExitCriticalSlow, OwnInNative, ContinueHolding
<1>8. AccessInv(t)'
  BY Zenon DEF AccessInv, RunsInVM, DeathLabel, PcInv, ExitCriticalSlow, ContinueHolding
<1>9. CriticalInv(t)'
  BY Zenon DEF CriticalInv, PcInv, HaltInv, ExitCriticalSlow, ContinueHolding
<1>10. HaltInv(t)'
  BY <1>2, Zenon DEF HaltInv, Kept, Unengaged, RequestLabel, Engaged, PcInv, ExitCriticalSlow,
      ContinueHolding
<1> QED BY <1>1, <1>2, <1>3, <1>4, <1>5, <1>6, <1>7, <1>8, <1>9, <1>10, Zenon DEF AccessEffect,
    Local

(* The effect of ExitCriticalRespond: exitCriticalRegion responds to the
   requester that waits for it. *)
LEMMA ExitCriticalRespondEffect ==
    ASSUME TypeOK, TypeOK', NEW t \in Thread, Local(t), QueueInv(t),
           ExitCriticalRespond(t), UNCHANGED requestVars
    PROVE  AccessEffect(t)
<1> USE DEF TypeOK, Local, FlagTypes, PlaceTypes
<1>1. Frame(t)
  BY Continued, Zenon DEF Frame, ExitCriticalRespond, MonitorTypes
<1>2. Kept(t)
  BY Zenon DEF Kept, Unengaged, RequestLabel, Handed, Queued, QueueInv, PcInv,
      ExitCriticalRespond, ContinueHolding
<1>3. StaysOut(t)
  BY Zenon DEF StaysOut, RunsInVM, PcInv, AccessInv, ExitCriticalRespond, ContinueHolding
<1>4. Responds(t)
  BY Zenon DEF Responds, Responder, RunsInVM, PcInv, AccessInv, CountTypes, ExitCriticalRespond,
      ContinueHolding
<1>5. RespondsCritical(t)
  BY Zenon DEF RespondsCritical, CriticalResponder, RunsInVM, PcInv, CriticalInv, HaltInv,
      CountTypes, ExitCriticalRespond, ContinueHolding
<1>6. PcInv(t)'
  BY NoThreadIsFree, Zenon DEF PcInv, Holding, MonitorTypes, ExitCriticalRespond, ContinueHolding
<1>7. NativeInv(t)'
  BY Zenon DEF NativeInv, NativeCode, PcInv, ExitCriticalRespond, OwnInNative, ContinueHolding
<1>8. AccessInv(t)'
  BY Zenon DEF AccessInv, RunsInVM, DeathLabel, PcInv, ExitCriticalRespond, ContinueHolding
<1>9. CriticalInv(t)'
  BY Zenon DEF CriticalInv, PcInv, HaltInv, ExitCriticalRespond, ContinueHolding
<1>10. HaltInv(t)'
  BY <1>2, Zenon DEF HaltInv, Kept, Unengaged, RequestLabel, Engaged, PcInv, ExitCriticalRespond,
      ContinueHolding
<1> QED BY <1>1, <1>2, <1>3, <1>4, <1>5, <1>6, <1>7, <1>8, <1>9, <1>10, Zenon DEF AccessEffect,
    Local

(* The effect of EnterNestedCritical: enterCriticalRegion of a nested region
   counts only. *)
LEMMA EnterNestedCriticalEffect ==
    ASSUME TypeOK, TypeOK', NEW t \in Thread, Local(t), QueueInv(t),
           EnterNestedCritical(t), UNCHANGED requestVars
    PROVE  AccessEffect(t)
<1> USE DEF TypeOK, Local, FlagTypes, PlaceTypes
<1>1. Frame(t)
  BY Zenon DEF Frame, EnterNestedCritical
<1>2. Kept(t) /\ StaysOut(t)
  BY Zenon DEF Kept, StaysOut, Unengaged, RequestLabel, Handed, Queued, QueueInv, RunsInVM, PcInv,
      AccessInv, EnterNestedCritical
<1>3. Responds(t) /\ RespondsCritical(t)
  BY Zenon DEF Responds, RespondsCritical, Responder, CriticalResponder, RunsInVM, PcInv,
      AccessInv, CriticalInv, HaltInv, CountTypes, EnterNestedCritical
<1>4. PcInv(t)' /\ AccessInv(t)'
  BY NoThreadIsFree, Zenon DEF PcInv, AccessInv, RunsInVM, DeathLabel, Holding, MonitorTypes,
      EnterNestedCritical
<1>5. NativeInv(t)'
  BY Zenon DEF NativeInv, NativeCode, PcInv, EnterNestedCritical, OwnInNative
<1>6. CriticalInv(t)' /\ HaltInv(t)'
  BY <1>2, Zenon DEF CriticalInv, HaltInv, Kept, Unengaged, RequestLabel, Engaged, PcInv,
      EnterNestedCritical
<1> QED BY <1>1, <1>2, <1>3, <1>4, <1>5, <1>6, Zenon DEF AccessEffect, Local

(* The effect of EnterCriticalFast: the compare-and-swap of
   enterCriticalRegion. *)
LEMMA EnterCriticalFastEffect ==
    ASSUME TypeOK, TypeOK', NEW t \in Thread, Local(t), QueueInv(t),
           EnterCriticalFast(t), UNCHANGED requestVars
    PROVE  AccessEffect(t)
<1> USE DEF TypeOK, Local, FlagTypes, PlaceTypes
<1>1. Frame(t)
  BY Zenon DEF Frame, EnterCriticalFast, Drained, BufferTypes
<1>2. Kept(t) /\ StaysOut(t)
  BY DrainedOwn, Zenon DEF Kept, StaysOut, Unengaged, RequestLabel, Handed, Queued, QueueInv,
      RunsInVM, PcInv, AccessInv, EnterCriticalFast
<1>3. Responds(t) /\ RespondsCritical(t)
  BY Zenon DEF Responds, RespondsCritical, Responder, CriticalResponder, RunsInVM, PcInv,
      AccessInv, CriticalInv, HaltInv, CountTypes, EnterCriticalFast
<1>4. PcInv(t)' /\ AccessInv(t)'
  BY NoThreadIsFree, Zenon DEF PcInv, AccessInv, RunsInVM, DeathLabel, Holding, MonitorTypes,
      EnterCriticalFast
<1>5. NativeInv(t)'
  BY DrainedOwn, Zenon DEF NativeInv, NativeCode, PcInv, EnterCriticalFast
<1>6. CriticalInv(t)' /\ HaltInv(t)'
  BY <1>2, Zenon DEF CriticalInv, HaltInv, Kept, Unengaged, RequestLabel, Engaged, PcInv,
      EnterCriticalFast
<1> QED BY <1>1, <1>2, <1>3, <1>4, <1>5, <1>6, Zenon DEF AccessEffect, Local

(* The effect of EnterCriticalSlow: enterCriticalRegion finds flags and goes to
   publicFlagsMutex. *)
LEMMA EnterCriticalSlowEffect ==
    ASSUME TypeOK, TypeOK', NEW t \in Thread, Local(t), QueueInv(t),
           EnterCriticalSlow(t), UNCHANGED requestVars
    PROVE  AccessEffect(t)
<1> USE DEF TypeOK, Local, FlagTypes, PlaceTypes
<1>1. Frame(t)
  BY Zenon DEF Frame, EnterCriticalSlow, Drained, BufferTypes
<1>2. Kept(t) /\ StaysOut(t)
  BY DrainedOwn, Zenon DEF Kept, StaysOut, Unengaged, RequestLabel, Handed, Queued, QueueInv,
      RunsInVM, PcInv, AccessInv, EnterCriticalSlow
<1>3. Responds(t) /\ RespondsCritical(t)
  BY Zenon DEF Responds, RespondsCritical, Responder, CriticalResponder, RunsInVM, PcInv,
      AccessInv, CriticalInv, HaltInv, CountTypes, EnterCriticalSlow
<1>4. PcInv(t)' /\ AccessInv(t)'
  BY NoThreadIsFree, Zenon DEF PcInv, AccessInv, RunsInVM, DeathLabel, Holding, MonitorTypes,
      EnterCriticalSlow
<1>5. NativeInv(t)'
  BY DrainedOwn, Zenon DEF NativeInv, NativeCode, PcInv, EnterCriticalSlow
<1>6. CriticalInv(t)' /\ HaltInv(t)'
  BY <1>2, Zenon DEF CriticalInv, HaltInv, Kept, Unengaged, RequestLabel, Engaged, PcInv,
      EnterCriticalSlow
<1> QED BY <1>1, <1>2, <1>3, <1>4, <1>5, <1>6, Zenon DEF AccessEffect, Local

(* The effect of ExitNestedCritical: exitCriticalRegion of a nested region
   counts only. *)
LEMMA ExitNestedCriticalEffect ==
    ASSUME TypeOK, TypeOK', NEW t \in Thread, Local(t), QueueInv(t),
           ExitNestedCritical(t), UNCHANGED requestVars
    PROVE  AccessEffect(t)
<1> USE DEF TypeOK, Local, FlagTypes, PlaceTypes
<1>1. Frame(t)
  BY Zenon DEF Frame, ExitNestedCritical
<1>2. Kept(t) /\ StaysOut(t)
  BY Zenon DEF Kept, StaysOut, Unengaged, RequestLabel, Handed, Queued, QueueInv, RunsInVM, PcInv,
      AccessInv, ExitNestedCritical
<1>3. Responds(t) /\ RespondsCritical(t)
  BY Zenon DEF Responds, RespondsCritical, Responder, CriticalResponder, RunsInVM, PcInv,
      AccessInv, CriticalInv, HaltInv, CountTypes, ExitNestedCritical
<1>4. PcInv(t)' /\ AccessInv(t)'
  BY NoThreadIsFree, Zenon DEF PcInv, AccessInv, RunsInVM, DeathLabel, Holding, MonitorTypes,
      ExitNestedCritical
<1>5. NativeInv(t)'
  BY Zenon DEF NativeInv, NativeCode, PcInv, ExitNestedCritical, OwnInNative
<1>6. CriticalInv(t)' /\ HaltInv(t)'
  BY <1>2, Zenon DEF CriticalInv, HaltInv, Kept, Unengaged, RequestLabel, Engaged, PcInv,
      ExitNestedCritical
<1> QED BY <1>1, <1>2, <1>3, <1>4, <1>5, <1>6, Zenon DEF AccessEffect, Local

(* The effect of ExitCriticalFast: the compare-and-swap of exitCriticalRegion.
   *)
LEMMA ExitCriticalFastEffect ==
    ASSUME TypeOK, TypeOK', NEW t \in Thread, Local(t), QueueInv(t),
           ExitCriticalFast(t), UNCHANGED requestVars
    PROVE  AccessEffect(t)
<1> USE DEF TypeOK, Local, FlagTypes, PlaceTypes
<1>1. Frame(t)
  BY Zenon DEF Frame, ExitCriticalFast, Drained, BufferTypes
<1>2. Kept(t) /\ StaysOut(t)
  BY DrainedOwn, Zenon DEF Kept, StaysOut, Unengaged, RequestLabel, Handed, Queued, QueueInv,
      RunsInVM, PcInv, AccessInv, ExitCriticalFast
<1>3. Responds(t) /\ RespondsCritical(t)
  BY Zenon DEF Responds, RespondsCritical, Responder, CriticalResponder, RunsInVM, PcInv,
      AccessInv, CriticalInv, HaltInv, CountTypes, ExitCriticalFast
<1>4. PcInv(t)' /\ AccessInv(t)'
  BY NoThreadIsFree, Zenon DEF PcInv, AccessInv, RunsInVM, DeathLabel, Holding, MonitorTypes,
      ExitCriticalFast
<1>5. NativeInv(t)'
  BY DrainedOwn, Zenon DEF NativeInv, NativeCode, PcInv, ExitCriticalFast
<1>6. CriticalInv(t)' /\ HaltInv(t)'
  BY <1>2, Zenon DEF CriticalInv, HaltInv, Kept, Unengaged, RequestLabel, Engaged, PcInv,
      ExitCriticalFast
<1> QED BY <1>1, <1>2, <1>3, <1>4, <1>5, <1>6, Zenon DEF AccessEffect, Local

(* The effect of ExitCriticalBegin: exitCriticalRegion finds flags and goes to
   publicFlagsMutex. *)
LEMMA ExitCriticalBeginEffect ==
    ASSUME TypeOK, TypeOK', NEW t \in Thread, Local(t), QueueInv(t),
           ExitCriticalBegin(t), UNCHANGED requestVars
    PROVE  AccessEffect(t)
<1> USE DEF TypeOK, Local, FlagTypes, PlaceTypes
<1>1. Frame(t)
  BY Zenon DEF Frame, ExitCriticalBegin, Drained, BufferTypes
<1>2. Kept(t) /\ StaysOut(t)
  BY DrainedOwn, Zenon DEF Kept, StaysOut, Unengaged, RequestLabel, Handed, Queued, QueueInv,
      RunsInVM, PcInv, AccessInv, ExitCriticalBegin
<1>3. Responds(t) /\ RespondsCritical(t)
  BY Zenon DEF Responds, RespondsCritical, Responder, CriticalResponder, RunsInVM, PcInv,
      AccessInv, CriticalInv, HaltInv, CountTypes, ExitCriticalBegin
<1>4. PcInv(t)' /\ AccessInv(t)'
  BY NoThreadIsFree, Zenon DEF PcInv, AccessInv, RunsInVM, DeathLabel, Holding, MonitorTypes,
      ExitCriticalBegin
<1>5. NativeInv(t)'
  BY DrainedOwn, Zenon DEF NativeInv, NativeCode, PcInv, ExitCriticalBegin
<1>6. CriticalInv(t)' /\ HaltInv(t)'
  BY <1>2, Zenon DEF CriticalInv, HaltInv, Kept, Unengaged, RequestLabel, Engaged, PcInv,
      ExitCriticalBegin
<1> QED BY <1>1, <1>2, <1>3, <1>4, <1>5, <1>6, Zenon DEF AccessEffect, Local

=============================================================================
