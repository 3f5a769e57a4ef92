----------------------------- MODULE AsyncProofs -----------------------------
(***************************************************************************)
(* Hookable asynchronous events, for any number of threads, keys and       *)
(* handlers: AsyncInv is inductive, and from it follow that no             *)
(* unregistered handler runs, that handlers get their own data and events, *)
(* and that no event is lost.                                              *)
(***************************************************************************)
EXTENDS AsyncInvariant, WellFoundedInduction, TLAPS

-----------------------------------------------------------------------------
(* The two choices of the model. *)

\* A set of keys that is not empty has a least one.
LEMMA LeastExists ==
    ASSUME NEW S \in SUBSET Nat, S # {}
    PROVE  \E k \in S : \A j \in S : k <= j
<1>1. PICK k \in S : \A j \in S : ~(<<j, k>> \in OpToRel(<, Nat))
  BY NatLessThanWellFounded, WFMin, Zenon
<1>2. ASSUME NEW j \in S PROVE k <= j
  <2>1. ~(j < k)
    BY <1>1, <1>2, Zenon DEF OpToRel
  <2> QED BY <2>1
<1> QED BY <1>2, Zenon

\* The key that is dispatched is one of those fetched.
LEMMA FirstIn ==
    ASSUME NEW t, fetched[t] \in SUBSET Key, fetched[t] # {}
    PROVE  First(t) \in fetched[t]
<1>1. fetched[t] \in SUBSET Nat
  BY AsyncAssumption DEF Key
<1>2. \E k \in fetched[t] : \A j \in fetched[t] : k <= j
  BY <1>1, LeastExists, Zenon
<1> QED BY <1>2, Zenon DEF First

\* The thread that is signalled is one of those to be signalled.
LEMMA CurrentIn ==
    ASSUME NEW t, todo[t] # {}
    PROVE  Current(t) \in todo[t]
  BY Zenon DEF Current

\* The choices depend on nothing but the sets they are made from.
LEMMA SameCurrent ==
    ASSUME NEW t, todo'[t] = todo[t]
    PROVE  Current(t)' = Current(t)
  BY Zenon DEF Current

\* See SameCurrent.
LEMMA SameFirst ==
    ASSUME NEW t, fetched'[t] = fetched[t]
    PROVE  First(t)' = First(t)
  BY Zenon DEF First

\* MaxHandlers, the key of the handlers that are not registered, is no key.
LEMMA NoKey == MaxHandlers \notin Key
  BY AsyncAssumption DEF Key

\* A handler that is registered has a key.
LEMMA KeyOf ==
    ASSUME AsyncTypes, NEW h \in Handler, Registered(h)
    PROVE  keyOf[h] \in Key
  BY Zenon DEF AsyncTypes, Registered

\* The handler an event is meant for has the record of its key.
LEMMA MeantRecord ==
    ASSUME AsyncTypes, RecordInv, NEW t \in Thread, NEW k \in Key, Meant(t, k)
    PROVE  /\ meant[t][k] \in Handler /\ Registered(meant[t][k])
           /\ record[k] = [handler |-> meant[t][k], data |-> meant[t][k]]
<1>1. meant[t][k] \in Handler /\ keyOf[meant[t][k]] = k
  BY Zenon DEF Meant
<1>2. Registered(meant[t][k])
  BY <1>1, NoKey, Zenon DEF Registered
<1> QED BY <1>1, <1>2, Zenon DEF RecordInv

-----------------------------------------------------------------------------
(* What a step leaves alone. *)

\* The handlers that are registered stay so, under their keys.
KeysKept == \A h \in Handler : Registered(h) => keyOf'[h] = keyOf[h]

\* The variables that are a thread's own.
Own(u) ==
    /\ pc'[u] = pc[u] /\ fetched'[u] = fetched[u] /\ arg'[u] = arg[u]
    /\ called'[u] = called[u] /\ todo'[u] = todo[u]

\* A thread that takes no step keeps its part of the invariant.
LEMMA ThreadFramed ==
    ASSUME NEW u \in Thread, AsyncTypes, ThreadInv(u), KeysKept, Own(u),
           u \in vmAccess => u \in vmAccess', u \in released' <=> u \in released,
           flags'[u] \subseteq flags[u], meant'[u] = meant[u]
    PROVE  ThreadInv(u)'
<1> USE DEF Own
<1>1. AccessInv(u)'
  BY Zenon DEF ThreadInv, AccessInv
<1>2. SignalInv(u)'
  BY Zenon DEF ThreadInv, SignalInv, KeysKept, Registered
<1>3. \A k \in Key : Meant(u, k) => Meant(u, k)'
  BY NoKey, Zenon DEF Meant, KeysKept, Registered
<1>4. FlagInv(u)'
  BY <1>3, Zenon DEF ThreadInv, FlagInv, AsyncTypes
<1>5. First(u)' = First(u)
  BY SameFirst, Zenon
<1>6. CallInv(u)'
  BY <1>5, Zenon DEF ThreadInv, CallInv, KeysKept, Registered, Empty
<1> QED BY <1>1, <1>2, <1>4, <1>6, Zenon DEF ThreadInv

\* The records stay as they are where registration is not concerned.
LEMMA RecordFramed ==
    ASSUME RecordInv, UNCHANGED <<record, mutex, keyOf>>
    PROVE  RecordInv' /\ KeysKept
  BY Zenon DEF RecordInv, KeysKept, Registered

\* Events stay seen where a step of t sets no flag, and takes t from its mark or from its
\* fetch only when the mark is set or the flags are fetched.
LEMMA SeenFramed ==
    ASSUME NEW t \in Thread, EventsAreSeen, \A u \in Thread : flags'[u] \subseteq flags[u],
           meant' = meant, \A u \in mark : u \in mark' \/ pc'[u] = "fetch", \A u \in Thread \ {t} : Own(u),
           pc[t] = "mark" => Current(t) \in mark', pc[t] = "fetch" => flags'[t] = {}
    PROVE  EventsAreSeen'
<1> SUFFICES ASSUME NEW u \in Thread, Pressing(u)' # {}
             PROVE  \/ u \in mark' \/ pc'[u] = "fetch"
                    \/ \E w \in Thread : pc'[w] = "mark" /\ Current(w)' = u
  BY Zenon DEF EventsAreSeen
<1>1. Pressing(u) # {} /\ flags'[u] # {}
  BY Zenon DEF Pressing
<1>2. CASE u \in mark
  BY <1>2, Zenon
<1>3. CASE pc[u] = "fetch"
  BY <1>1, <1>3, Zenon DEF Own
<1>4. ASSUME NEW w \in Thread, pc[w] = "mark", Current(w) = u
      PROVE  u \in mark' \/ (pc'[w] = "mark" /\ Current(w)' = u)
  <2>1. CASE w = t
    BY <1>4, <2>1, Zenon
  <2>2. CASE w # t
    <3>1. Own(w)
      BY <2>2, Zenon
    <3> QED BY <1>4, <3>1, SameCurrent, Zenon DEF Own
  <2> QED BY <2>1, <2>2, Zenon
<1> QED BY <1>1, <1>2, <1>3, <1>4, Zenon DEF EventsAreSeen

\* Events stay seen where neither flags nor marks nor places change.
LEMMA SeenUnchanged ==
    ASSUME EventsAreSeen, UNCHANGED <<flags, mark, pc, todo, meant>>
    PROVE  EventsAreSeen'
<1>1. \A w \in Thread : Current(w)' = Current(w)
  BY SameCurrent, Zenon
<1> QED BY <1>1, Zenon DEF EventsAreSeen, Pressing

-----------------------------------------------------------------------------
(* Steps of one thread that register nothing. *)

\* What a step of t leaves alone of the others.
Elsewhere(t) ==
    /\ UNCHANGED <<record, mutex, keyOf>>
    /\ \A u \in Thread \ {t} : /\ Own(u)
                               /\ u \in vmAccess => u \in vmAccess'
                               /\ u \in released' <=> u \in released

\* A step of t that changes no other thread's flags keeps the invariant if t keeps its part
\* and events stay seen.
LEMMA StepKeeps ==
    ASSUME NEW t \in Thread, AsyncInv, AsyncTypes', EventsAreSeen', ThreadInv(t)', Elsewhere(t),
           \A u \in Thread \ {t} : flags'[u] \subseteq flags[u] /\ meant'[u] = meant[u]
    PROVE  AsyncInv'
<1>1. RecordInv' /\ KeysKept
  BY RecordFramed, Zenon DEF AsyncInv, Elsewhere
<1>2. ASSUME NEW u \in Thread \ {t} PROVE ThreadInv(u)'
  BY <1>1, ThreadFramed, Zenon DEF AsyncInv, Elsewhere
<1> QED BY <1>1, <1>2, Zenon DEF AsyncInv

-----------------------------------------------------------------------------
(* Types. *)

\* Registering and unregistering keep the types.
LEMMA RegistrationTypes ==
    ASSUME AsyncInv, NEW h \in Handler, Register(h) \/ RegisterData(h) \/ \E t \in Thread : Unregister(t, h)
    PROVE  AsyncTypes'
<1>1. AsyncTypes
  BY Zenon DEF AsyncInv
<1>2. CASE Register(h)
  <2>1. PICK k \in Key : record' = [record EXCEPT ![k].handler = h]
    BY <1>2, Zenon DEF Register
  <2>2. record' \in [Key -> Call]
    BY <1>1, <2>1, ZenonT(30) DEF AsyncTypes, Call, SomeHandler
  <2> QED BY <1>1, <1>2, <2>2, Zenon DEF AsyncTypes, Register, SomeHandler
<1>3. CASE RegisterData(h)
  <2>1. PICK k \in Key : record' = [record EXCEPT ![k].data = h] /\ keyOf' = [keyOf EXCEPT ![h] = k]
    BY <1>3, Zenon DEF RegisterData
  <2>2. record' \in [Key -> Call] /\ keyOf' \in [Handler -> Key \cup {MaxHandlers}]
    BY <1>1, <2>1, ZenonT(30) DEF AsyncTypes, Call, SomeHandler
  <2> QED BY <1>1, <1>3, <2>2, Zenon DEF AsyncTypes, RegisterData, SomeHandler
<1>4. ASSUME NEW t \in Thread, Unregister(t, h) PROVE AsyncTypes'
  <2>1. Empty \in Call
    BY Zenon DEF Empty, Call, SomeHandler
  <2>2. record' \in [Key -> Call] /\ keyOf' \in [Handler -> Key \cup {MaxHandlers}]
    BY <1>1, <1>4, <2>1, Zenon DEF AsyncTypes, Unregister
  <2>3. flags' \in [Thread -> SUBSET Key]
    BY <1>1, <1>4, Zenon DEF AsyncTypes, Unregister
  <2> QED BY <1>1, <1>4, <2>2, <2>3, Zenon DEF AsyncTypes, Unregister
<1> QED BY <1>2, <1>3, <1>4, Zenon

\* Whom a thread signals or cancels the event for, and of which key.
LEMMA Signalled ==
    ASSUME AsyncInv, NEW t \in Thread, pc[t] \in Signalling
    PROVE  /\ Current(t) \in todo[t] /\ Current(t) \in Thread
           /\ arg[t] \in Handler /\ Registered(arg[t]) /\ keyOf[arg[t]] \in Key
<1>1. AsyncTypes /\ SignalInv(t)
  BY Zenon DEF AsyncInv, ThreadInv
<1>2. arg[t] \in Handler /\ Registered(arg[t]) /\ todo[t] # {} /\ todo[t] \subseteq Thread
  BY <1>1, Zenon DEF SignalInv, AsyncTypes
<1> QED BY <1>1, <1>2, CurrentIn, KeyOf, Zenon

\* Signalling and cancelling keep the types.
LEMMA SignalTypes ==
    ASSUME AsyncInv, NEW t \in Thread,
           \/ SetFlag(t) \/ SetFlagOnly(t) \/ indicateAsyncMessagePending(t) \/ clearAsyncEventFlags(t)
           \/ \E U \in Target, h \in Handler :
                 Signal(t, U, h) \/ SignalWithoutInterrupt(t, U, h) \/ Cancel(t, U, h)
    PROVE  AsyncTypes'
<1>1. AsyncTypes /\ {"run", "signal", "mark", "quiet", "cancel"} \subseteq Label /\ NoHandler \in SomeHandler
      /\ Handler \subseteq SomeHandler
  BY Zenon DEF AsyncInv, Label, Signalling, SomeHandler
<1>2. CASE SetFlag(t) \/ SetFlagOnly(t)
  <2>1. Current(t) \in Thread /\ arg[t] \in Handler /\ keyOf[arg[t]] \in Key
    BY <1>2, Signalled, Zenon DEF SetFlag, SetFlagOnly, Signalling
  <2>2. /\ flags' = [flags EXCEPT ![Current(t)] = @ \cup {keyOf[arg[t]]}]
        /\ meant' = [meant EXCEPT ![Current(t)][keyOf[arg[t]]] = arg[t]]
    BY <1>2, Zenon DEF SetFlag, SetFlagOnly
  <2>3. flags' \in [Thread -> SUBSET Key] /\ meant' \in [Thread -> [Key -> SomeHandler]]
    BY <1>1, <2>1, <2>2, Zenon DEF AsyncTypes
  <2>4. CASE SetFlag(t)
    BY <1>1, <2>3, <2>4, Zenon DEF AsyncTypes, SetFlag, Goto
  <2>5. CASE SetFlagOnly(t)
    BY <1>1, <2>3, <2>5, Zenon DEF AsyncTypes, SetFlagOnly, Goto
  <2> QED BY <1>2, <2>4, <2>5, Zenon
<1>3. CASE indicateAsyncMessagePending(t)
  <2>1. Current(t) \in Thread
    BY <1>3, Signalled, Zenon DEF indicateAsyncMessagePending, Signalling
  <2> QED BY <1>1, <1>3, <2>1, Zenon DEF AsyncTypes, indicateAsyncMessagePending, Goto
<1>4. CASE clearAsyncEventFlags(t)
  BY <1>1, <1>4, Zenon DEF AsyncTypes, clearAsyncEventFlags, Goto
<1>5. ASSUME NEW U \in Target, NEW h \in Handler,
             Signal(t, U, h) \/ SignalWithoutInterrupt(t, U, h) \/ Cancel(t, U, h)
      PROVE  AsyncTypes'
  <2>1. U \subseteq Thread
    BY Zenon DEF Target
  <2>2. PICK l \in {"signal", "quiet", "cancel"} : Begin(t, U, h, l)
    BY <1>5, Zenon DEF Signal, SignalWithoutInterrupt, Cancel
  <2>3. todo' \in [Thread -> SUBSET Thread]
    BY <1>1, <2>1, <2>2, Zenon DEF AsyncTypes, Begin
  <2>4. arg' \in [Thread -> SomeHandler] /\ pc' \in [Thread -> Label]
    BY <1>1, <2>2, Zenon DEF AsyncTypes, Begin, Goto
  <2> QED BY <1>1, <2>2, <2>3, <2>4, Zenon DEF AsyncTypes, Begin
<1> QED BY <1>2, <1>3, <1>4, <1>5, Zenon

\* Fetching and dispatching, and giving VM access up and taking it back, keep the types.
LEMMA DispatchTypes ==
    ASSUME AsyncInv, NEW t \in Thread,
           \/ CheckAsync(t) \/ Fetch(t) \/ DispatchLoad(t) \/ DispatchCall(t)
           \/ HandlerReleases(t) \/ HandlerReturns(t) \/ Dispatched(t)
           \/ ReleaseAccess(t) \/ AcquireAccess(t)
    PROVE  AsyncTypes'
<1>1. AsyncTypes /\ {"run", "fetch", "dispatch", "call", "handler"} \subseteq Label
      /\ NoHandler \in SomeHandler /\ Empty \in Call
  BY Zenon DEF AsyncInv, Label, Dispatching, SomeHandler, Empty, Call
<1>2. CASE CheckAsync(t)
  BY <1>1, <1>2, Zenon DEF AsyncTypes, CheckAsync, Goto
<1>3. CASE Fetch(t)
  BY <1>1, <1>3, Zenon DEF AsyncTypes, Fetch, Goto
<1>4. CASE DispatchLoad(t)
  <2>1. First(t) \in Key
    BY <1>1, <1>4, FirstIn, Zenon DEF AsyncTypes, DispatchLoad
  <2>2. record[First(t)].handler \in SomeHandler
    BY <1>1, <2>1, Zenon DEF AsyncTypes, Call
  <2>3. arg' \in [Thread -> SomeHandler]
    BY <1>1, <1>4, <2>2, Zenon DEF AsyncTypes, DispatchLoad
  <2>4. fetched' \in [Thread -> SUBSET Key]
    BY <1>1, <1>4 DEF AsyncTypes, DispatchLoad
  <2> QED BY <1>1, <1>4, <2>3, <2>4 DEF AsyncTypes, DispatchLoad, Goto
<1>5. CASE DispatchCall(t)
  <2>1. First(t) \in Key
    <3>1. fetched[t] # {} /\ fetched[t] \in SUBSET Key
      BY <1>1, <1>5, Zenon DEF AsyncInv, ThreadInv, CallInv, DispatchCall, AsyncTypes
    <3> QED BY <3>1, FirstIn, Zenon
  <2>2. [handler |-> arg[t], data |-> record[First(t)].data] \in Call
    BY <1>1, <2>1, Zenon DEF AsyncTypes, Call
  <2> QED BY <1>1, <1>5, <2>2, Zenon DEF AsyncTypes, DispatchCall, Goto
<1>6. CASE HandlerReleases(t)
  BY <1>1, <1>6, Zenon DEF AsyncTypes, HandlerReleases
<1>7. CASE HandlerReturns(t)
  BY <1>1, <1>7, Zenon DEF AsyncTypes, HandlerReturns, Goto
<1>8. CASE Dispatched(t)
  BY <1>1, <1>8, Zenon DEF AsyncTypes, Dispatched, Goto
<1>9. CASE ReleaseAccess(t) \/ AcquireAccess(t)
  BY <1>1, <1>9, Zenon DEF AsyncTypes, ReleaseAccess, AcquireAccess
<1> QED BY <1>2, <1>3, <1>4, <1>5, <1>6, <1>7, <1>8, <1>9, Zenon

-----------------------------------------------------------------------------
(* Registering and unregistering. *)

\* A handler put into a free record is being registered, and has no other record.
LEMMA RegisterKeeps ==
    ASSUME AsyncInv, AsyncTypes', NEW h \in Handler, Register(h)
    PROVE  AsyncInv'
<1>1. PICK k \in Key : record[k].handler = NoHandler /\ record' = [record EXCEPT ![k].handler = h]
  BY Zenon DEF Register
<1>2. /\ mutex = NoHandler /\ mutex' = h /\ ~Registered(h) /\ h # NoHandler /\ NoHandler \notin Handler
      /\ UNCHANGED <<keyOf, flags, mark, vmAccess, pc, fetched, arg, called, todo, meant, released>>
  BY AsyncAssumption, Zenon DEF Register
<1>3. AsyncTypes /\ RecordInv /\ EventsAreSeen
  BY Zenon DEF AsyncInv
<1>4. /\ \A j \in Key \ {k} : record'[j] = record[j]
      /\ record'[k].handler = h
  BY <1>1, <1>3 DEF AsyncTypes, Call
<1>5. \A g \in Handler : Registered(g)' <=> Registered(g)
  BY <1>2, Zenon DEF Registered
<1>6. \A g \in Handler : Registered(g) => keyOf[g] \in Key \ {k}
  <2> SUFFICES ASSUME NEW g \in Handler, Registered(g) PROVE keyOf[g] \in Key \ {k}
    OBVIOUS
  <2>1. keyOf[g] \in Key /\ record[keyOf[g]] = [handler |-> g, data |-> g]
    BY <1>3, KeyOf, Zenon DEF RecordInv
  <2> QED BY <1>1, <1>2, <2>1
<1>7. \A j \in Key : record[j].handler # h
  BY <1>2, <1>3, Zenon DEF RecordInv
<1>8. RecordInv'
  <2>1. \A g \in Handler : Registered(g)' => record'[keyOf'[g]] = [handler |-> g, data |-> g]
    BY <1>2, <1>3, <1>4, <1>5, <1>6, Zenon DEF RecordInv
  <2>2. ASSUME NEW j \in Key, record'[j].handler # NoHandler
        PROVE  \/ /\ keyOf'[record'[j].handler] # MaxHandlers
                  /\ keyOf'[record'[j].handler] = j
               \/ record'[j].handler = mutex'
    <3>1. CASE j = k
      BY <1>2, <1>4, <3>1, Zenon
    <3>2. CASE j # k
      <4>1. record'[j] = record[j]
        BY <1>4, <3>2, Zenon
      <4>2. Registered(record[j].handler) /\ keyOf[record[j].handler] = j
        BY <1>2, <1>3, <2>2, <4>1, Zenon DEF RecordInv
      <4> QED BY <1>2, <4>1, <4>2, Zenon DEF Registered
    <3> QED BY <3>1, <3>2, Zenon
  <2>3. keyOf'[mutex'] = MaxHandlers
    BY <1>2, Zenon DEF Registered
  <2>4. \A i \in Key : record'[i].handler = mutex' => i = k
    BY <1>2, <1>4, <1>7, Zenon
  <2> QED BY <2>1, <2>2, <2>3, <2>4, Zenon DEF RecordInv, Registered
<1>9. ASSUME NEW u \in Thread PROVE ThreadInv(u)'
  <2>1. ThreadInv(u) /\ KeysKept /\ Own(u)
    BY <1>2, Zenon DEF AsyncInv, KeysKept, Own
  <2> QED BY <1>2, <1>3, <2>1, ThreadFramed, Zenon
<1>10. EventsAreSeen'
  BY <1>2, <1>3, SeenUnchanged, Zenon
<1> QED BY <1>8, <1>9, <1>10, Zenon DEF AsyncInv

\* A handler whose data is stored is registered under the key of its record.
LEMMA RegisterDataKeeps ==
    ASSUME AsyncInv, AsyncTypes', NEW h \in Handler, RegisterData(h)
    PROVE  AsyncInv'
<1>1. PICK k \in Key : /\ record[k].handler = h /\ record' = [record EXCEPT ![k].data = h]
                       /\ keyOf' = [keyOf EXCEPT ![h] = k]
  BY Zenon DEF RegisterData
<1>2. /\ mutex = h /\ mutex' = NoHandler /\ h # NoHandler
      /\ UNCHANGED <<flags, mark, vmAccess, pc, fetched, arg, called, todo, meant, released>>
  BY AsyncAssumption, Zenon DEF RegisterData
<1>3. AsyncTypes /\ RecordInv /\ EventsAreSeen
  BY Zenon DEF AsyncInv
<1>4. /\ \A j \in Key \ {k} : record'[j] = record[j] /\ record[j].handler # h
      /\ record'[k] = [handler |-> h, data |-> h]
  <2>1. \A j \in Key \ {k} : record'[j] = record[j]
    BY <1>1, <1>3, Zenon DEF AsyncTypes
  <2>2. \A j \in Key \ {k} : record[j].handler # h
    BY <1>1, <1>2, <1>3, Zenon DEF RecordInv
  <2>3. record'[k] = [handler |-> h, data |-> h]
    BY <1>1, <1>3 DEF AsyncTypes, Call
  <2> QED BY <2>1, <2>2, <2>3, Zenon
<1>5. /\ ~Registered(h) /\ keyOf'[h] = k /\ Registered(h)'
      /\ \A g \in Handler \ {h} : keyOf'[g] = keyOf[g]
  BY <1>1, <1>2, <1>3, NoKey, Zenon DEF AsyncTypes, RecordInv, Registered
<1>6. KeysKept
  BY <1>5, Zenon DEF KeysKept
<1>7. RecordInv'
  <2>1. ASSUME NEW g \in Handler, Registered(g)' PROVE record'[keyOf'[g]] = [handler |-> g, data |-> g]
    <3>1. CASE g = h
      BY <1>4, <1>5, <3>1, Zenon
    <3>2. CASE g # h
      <4>1. Registered(g) /\ keyOf'[g] = keyOf[g] /\ keyOf[g] \in Key
        BY <1>3, <1>5, <2>1, <3>2, KeyOf, Zenon DEF Registered
      <4>2. record[keyOf[g]] = [handler |-> g, data |-> g]
        BY <1>3, <4>1, Zenon DEF RecordInv
      <4>3. keyOf[g] # k
        BY <1>1, <3>2, <4>2
      <4> QED BY <1>4, <4>1, <4>2, <4>3, Zenon
    <3> QED BY <3>1, <3>2, Zenon
  <2>2. ASSUME NEW j \in Key, record'[j].handler # NoHandler
        PROVE  keyOf'[record'[j].handler] # MaxHandlers /\ keyOf'[record'[j].handler] = j
    <3>1. CASE j = k
      BY <1>4, <1>5, <3>1, NoKey
    <3>2. CASE j # k
      <4>1. record'[j] = record[j] /\ record[j].handler # h /\ record[j].handler \in Handler
        BY <1>3, <1>4, <2>2, <3>2, Zenon DEF AsyncTypes, Call, SomeHandler
      <4>2. Registered(record[j].handler) /\ keyOf[record[j].handler] = j
        BY <1>2, <1>3, <2>2, <4>1, Zenon DEF RecordInv
      <4> QED BY <1>5, <4>1, <4>2, Zenon DEF Registered
    <3> QED BY <3>1, <3>2, Zenon
  <2> QED BY <1>2, <2>1, <2>2, Zenon DEF RecordInv, Registered
<1>8. ASSUME NEW u \in Thread PROVE ThreadInv(u)'
  <2>1. ThreadInv(u) /\ Own(u)
    BY <1>2, Zenon DEF AsyncInv, Own
  <2> QED BY <1>2, <1>3, <1>6, <2>1, ThreadFramed, Zenon
<1>9. EventsAreSeen'
  BY <1>2, <1>3, SeenUnchanged, Zenon
<1> QED BY <1>7, <1>8, <1>9, Zenon DEF AsyncInv
\* A thread without VM access has no event of the handler in its hands, unless it gave
\* VM access up in a handler; so a handler can be unregistered.
LEMMA UnregisterKeeps ==
    ASSUME AsyncInv, AsyncTypes', NEW t \in Thread, NEW h \in Handler, Unregister(t, h)
    PROVE  AsyncInv'
<1>1. /\ pc[t] = "run" /\ vmAccess = {t} /\ Registered(h)
      /\ flags' = [u \in Thread |-> flags[u] \ {keyOf[h]}]
      /\ record' = [record EXCEPT ![keyOf[h]] = Empty]
      /\ keyOf' = [keyOf EXCEPT ![h] = MaxHandlers]
      /\ UNCHANGED <<mutex, mark, vmAccess, pc, fetched, arg, called, todo, meant, released>>
  BY Zenon DEF Unregister, Running
<1>2. AsyncTypes /\ RecordInv /\ EventsAreSeen
  BY Zenon DEF AsyncInv
<1>3. keyOf[h] \in Key /\ record[keyOf[h]] = [handler |-> h, data |-> h]
  BY <1>1, <1>2, KeyOf, Zenon DEF RecordInv
<1>4. /\ keyOf'[h] = MaxHandlers /\ \A g \in Handler \ {h} : keyOf'[g] = keyOf[g]
      /\ record'[keyOf[h]] = Empty /\ \A j \in Key \ {keyOf[h]} : record'[j] = record[j]
  BY <1>1, <1>2, <1>3, Zenon DEF AsyncTypes
<1>5. RecordInv'
  <2>1. ASSUME NEW g \in Handler, Registered(g)' PROVE record'[keyOf'[g]] = [handler |-> g, data |-> g]
    <3>1. g # h
      BY <1>4, <2>1, Zenon DEF Registered
    <3>2. Registered(g) /\ keyOf'[g] = keyOf[g]
      BY <1>4, <2>1, <3>1, Zenon DEF Registered
    <3>3. keyOf[g] \in Key /\ record[keyOf[g]] = [handler |-> g, data |-> g]
      BY <1>2, <3>2, KeyOf, Zenon DEF RecordInv
    <3>4. keyOf[g] # keyOf[h]
      BY <1>3, <3>1, <3>3
    <3> QED BY <1>4, <3>2, <3>3, <3>4, Zenon
  <2>2. ASSUME NEW j \in Key, record'[j].handler # NoHandler
        PROVE  \/ /\ keyOf'[record'[j].handler] # MaxHandlers
                  /\ keyOf'[record'[j].handler] = j
               \/ record'[j].handler = mutex'
    <3>1. j # keyOf[h] /\ record'[j] = record[j]
      BY <1>4, <2>2 DEF Empty
    <3>2. record[j].handler \in Handler
      BY <1>2, <2>2, <3>1, Zenon DEF AsyncTypes, Call, SomeHandler
    <3>3. (Registered(record[j].handler) /\ keyOf[record[j].handler] = j) \/ record[j].handler = mutex
      BY <1>2, <2>2, <3>1, Zenon DEF RecordInv
    <3> QED BY <1>1, <1>4, <3>1, <3>2, <3>3, Zenon DEF Registered
  <2>3. ASSUME mutex' # NoHandler
        PROVE  keyOf'[mutex'] = MaxHandlers
    <3>1. mutex # NoHandler /\ mutex \in Handler /\ ~Registered(mutex)
      BY <1>1, <1>2, <2>3, Zenon DEF AsyncTypes, SomeHandler, RecordInv
    <3> QED BY <1>1, <1>4, <3>1, Zenon DEF Registered
  <2>4. ASSUME mutex' # NoHandler, NEW i \in Key, NEW j \in Key,
               record'[i].handler = mutex', record'[j].handler = mutex'
        PROVE  i = j
    <3>1. mutex # NoHandler /\ record[i].handler = mutex /\ record[j].handler = mutex
      BY <1>1, <1>4, <2>4 DEF Empty
    <3> QED BY <1>2, <3>1, Zenon DEF RecordInv
  <2> QED BY <2>1, <2>2, <2>3, <2>4, Zenon DEF RecordInv, Registered
<1>6. ASSUME NEW u \in Thread PROVE ThreadInv(u)'
  <2>1. AccessInv(u) /\ SignalInv(u) /\ FlagInv(u) /\ CallInv(u)
    BY Zenon DEF AsyncInv, ThreadInv
  <2>2. pc[u] = "run" \/ (pc[u] = "handler" /\ u \in released)
    BY <1>1, <2>1, Zenon DEF AccessInv
  <2>3. AccessInv(u)' /\ SignalInv(u)'
    BY <1>1, <2>1, <2>2, Zenon DEF AccessInv, SignalInv, Signalling
  <2>4. ASSUME NEW k \in flags'[u] PROVE Meant(u, k)'
    <3>1. k \in flags[u] /\ k # keyOf[h]
      BY <1>1, Zenon
    <3>2. Meant(u, k)
      BY <2>1, <3>1, Zenon DEF FlagInv
    <3> QED BY <1>1, <1>4, <3>1, <3>2, Zenon DEF Meant
  <2>5. FlagInv(u)'
    BY <1>1, <2>1, <2>2, <2>4, Zenon DEF FlagInv, Dispatching
  <2>6. CallInv(u)'
    BY <1>1, <2>1, <2>2, Zenon DEF CallInv, Empty
  <2> QED BY <2>3, <2>5, <2>6, Zenon DEF ThreadInv
<1>7. EventsAreSeen'
  <2>1. \A u \in Thread : flags'[u] \subseteq flags[u]
    BY <1>1, Zenon
  <2>2. \A u \in Thread \ {t} : Own(u)
    BY <1>1, Zenon DEF Own
  <2> QED BY <1>1, <1>2, <2>1, <2>2, SeenFramed, Zenon
<1> QED BY <1>5, <1>6, <1>7, Zenon DEF AsyncInv

-----------------------------------------------------------------------------
(* Signalling and cancelling. *)

\* A thread begins to signal a handler that is registered, or to cancel its event.
LEMMA BeginKeeps ==
    ASSUME AsyncInv, AsyncTypes', NEW t \in Thread, NEW U \in Target, NEW h \in Handler,
           Signal(t, U, h) \/ SignalWithoutInterrupt(t, U, h) \/ Cancel(t, U, h)
    PROVE  AsyncInv'
<1>1. PICK l \in {"signal", "quiet", "cancel"} : Begin(t, U, h, l) /\ (l = "quiet" => h \in Quiet)
  BY Zenon DEF Signal, SignalWithoutInterrupt, Cancel
<1>2. /\ pc[t] = "run" /\ t \in vmAccess /\ Registered(h)
      /\ todo' = [todo EXCEPT ![t] = U] /\ arg' = [arg EXCEPT ![t] = h] /\ pc' = [pc EXCEPT ![t] = l]
      /\ UNCHANGED <<record, mutex, keyOf, flags, mark, vmAccess, fetched, called, meant, released>>
  BY <1>1, Zenon DEF Begin, Running, Goto
<1>3. AsyncTypes /\ EventsAreSeen /\ SignalInv(t) /\ FlagInv(t) /\ CallInv(t)
  BY Zenon DEF AsyncInv, ThreadInv
<1>4. todo'[t] = U /\ arg'[t] = h /\ pc'[t] = l /\ \A u \in Thread \ {t} : Own(u)
  BY <1>2, <1>3 DEF AsyncTypes, Own
<1>5. U # {}
  BY Zenon DEF Target
<1>6. AccessInv(t)' /\ SignalInv(t)'
  BY <1>1, <1>2, <1>4, <1>5, Zenon DEF AccessInv, SignalInv, Registered
<1>7. FlagInv(t)'
  BY <1>2, <1>3, Zenon DEF FlagInv, Meant, Dispatching
<1>8. CallInv(t)'
  BY <1>2, <1>3, <1>4, Zenon DEF CallInv, Empty
<1>9. EventsAreSeen'
  BY <1>2, <1>3, <1>4, SeenFramed, Zenon
<1>10. Elsewhere(t)
  BY <1>2, <1>4, Zenon DEF Elsewhere
<1> QED BY <1>2, <1>6, <1>7, <1>8, <1>9, <1>10, StepKeeps, Zenon DEF ThreadInv
\* What setAsyncEventFlags does to the flags of v.
Flagged(v, h) ==
    /\ flags' = [flags EXCEPT ![v] = @ \cup {keyOf[h]}]
    /\ meant' = [meant EXCEPT ![v][keyOf[h]] = h]

\* Which flags it changes, and for whom they are meant.
LEMMA FlaggedOne ==
    ASSUME AsyncTypes, NEW v \in Thread, NEW h \in Handler, keyOf[h] \in Key, Flagged(v, h)
    PROVE  /\ \A u \in Thread \ {v} : flags'[u] = flags[u] /\ meant'[u] = meant[u]
           /\ flags'[v] = flags[v] \cup {keyOf[h]} /\ meant'[v][keyOf[h]] = h
           /\ \A j \in Key \ {keyOf[h]} : meant'[v][j] = meant[v][j]
  BY DEF AsyncTypes, Flagged

\* The flag of a registered handler is set; where the event was meant for a registered handler
\* before, it is the same one, because the key is that of one handler.
LEMMA FlaggedKeeps ==
    ASSUME AsyncInv, AsyncTypes', NEW t \in Thread, NEW v \in Thread, NEW h \in Handler, Registered(h),
           Flagged(v, h), UNCHANGED <<record, mutex, keyOf, vmAccess, fetched, called, released>>,
           pc[t] \in Signalling, pc'[t] \in Signalling \cup {"run"},
           \A u \in Thread \ {t} : pc'[u] = pc[u] /\ arg'[u] = arg[u] /\ todo'[u] = todo[u],
           SignalInv(t)', EventsAreSeen'
    PROVE  AsyncInv'
<1>1. AsyncTypes /\ RecordInv
  BY Zenon DEF AsyncInv
<1>2. PICK k \in Key : k = keyOf[h]
  BY <1>1, KeyOf, Zenon
<1>3. record' = record /\ keyOf' = keyOf /\ fetched' = fetched /\ released' = released
      /\ vmAccess' = vmAccess /\ called' = called
  OBVIOUS
<1>4. /\ \A u \in Thread \ {v} : flags'[u] = flags[u] /\ meant'[u] = meant[u]
      /\ flags'[v] = flags[v] \cup {k}
      /\ meant'[v][k] = h /\ \A j \in Key \ {k} : meant'[v][j] = meant[v][j]
  BY <1>1, <1>2, FlaggedOne, Zenon
<1>5. record[k] = [handler |-> h, data |-> h]
  BY <1>1, <1>2, Zenon DEF RecordInv
<1>6. ASSUME NEW u \in Thread, NEW j \in Key, Meant(u, j)
      PROVE  meant'[u][j] = meant[u][j] /\ Meant(u, j)'
  <2>1. meant'[u][j] = meant[u][j]
    <3>1. CASE u = v /\ j = k
      <4>1. record[j] = [handler |-> meant[u][j], data |-> meant[u][j]]
        BY <1>1, <1>6, MeantRecord, Zenon
      <4> QED BY <1>4, <1>5, <3>1, <4>1
    <3>2. CASE ~(u = v /\ j = k)
      BY <1>4, <3>2, Zenon
    <3> QED BY <3>1, <3>2, Zenon
  <2> QED BY <1>3, <1>6, <2>1, Zenon DEF Meant
<1>7. Meant(v, k)'
  BY <1>2, <1>3, <1>4, Zenon DEF Meant
<1>8. RecordInv' /\ KeysKept
  BY <1>1, RecordFramed, Zenon
<1>9. ASSUME NEW u \in Thread PROVE ThreadInv(u)'
  <2>1. AccessInv(u) /\ SignalInv(u) /\ FlagInv(u) /\ CallInv(u)
    BY Zenon DEF AsyncInv, ThreadInv
  <2>2. AccessInv(u)'
    BY <1>3, <2>1, Zenon DEF AccessInv, Signalling
  <2>3. SignalInv(u)'
    BY <1>3, <2>1, Zenon DEF SignalInv, Registered
  <2>4. flags[u] \subseteq Key /\ fetched[u] \subseteq Key
    BY <1>1, Zenon DEF AsyncTypes
  <2>5. \A j \in flags'[u] : Meant(u, j)'
    BY <1>4, <1>6, <1>7, <2>1, <2>4, Zenon DEF FlagInv
  <2>6. u \notin released => \A j \in fetched[u] : Meant(u, j)'
    BY <1>6, <2>1, <2>4, Zenon DEF FlagInv
  <2>7. FlagInv(u)'
    BY <1>3, <2>1, <2>5, <2>6, Zenon DEF FlagInv, Dispatching, Signalling
  <2>8. pc[u] = "call" /\ u \notin released => meant'[u][First(u)] = meant[u][First(u)]
    <3> SUFFICES ASSUME pc[u] = "call", u \notin released
                 PROVE  meant'[u][First(u)] = meant[u][First(u)]
      OBVIOUS
    <3>1. First(u) \in fetched[u]
      BY <2>1, <2>4, FirstIn, Zenon DEF CallInv
    <3> QED BY <1>6, <2>1, <2>4, <3>1, Zenon DEF FlagInv
  <2>9. First(u)' = First(u)
    BY <1>3, SameFirst, Zenon
  <2>10. CallInv(u)'
    BY <1>3, <2>1, <2>8, <2>9, Zenon DEF CallInv, Registered, Empty, Signalling
  <2> QED BY <2>2, <2>3, <2>7, <2>10, Zenon DEF ThreadInv
<1> QED BY <1>8, <1>9, Zenon DEF AsyncInv

\* A signal with interrupt: the thread that is flagged is the one about to be marked.
LEMMA SetFlagKeeps ==
    ASSUME AsyncInv, AsyncTypes', NEW t \in Thread, SetFlag(t)
    PROVE  AsyncInv'
<1>1. PICK v \in Thread, h \in Handler : v = Current(t) /\ h = arg[t] /\ Registered(h) /\ keyOf[h] \in Key
  BY Signalled, Zenon DEF SetFlag, Signalling
<1>2. AsyncTypes /\ EventsAreSeen /\ SignalInv(t)
  BY Zenon DEF AsyncInv, ThreadInv
<1>3. /\ pc[t] = "signal" /\ Flagged(v, h) /\ pc' = [pc EXCEPT ![t] = "mark"]
      /\ UNCHANGED <<record, mutex, keyOf, mark, vmAccess, fetched, arg, called, todo, released>>
  BY <1>1, Zenon DEF SetFlag, Goto, Flagged
<1>4. \A u \in Thread \ {v} : flags'[u] = flags[u] /\ meant'[u] = meant[u]
  BY <1>1, <1>2, <1>3, FlaggedOne, Zenon
<1>5. pc'[t] = "mark" /\ \A u \in Thread \ {t} : pc'[u] = pc[u]
  BY <1>2, <1>3, Zenon DEF AsyncTypes
<1>6. SignalInv(t)'
  BY <1>2, <1>3, <1>5, Zenon DEF SignalInv, Signalling, Registered
<1>7. EventsAreSeen'
  <2> SUFFICES ASSUME NEW u \in Thread, Pressing(u)' # {}
               PROVE  \/ u \in mark' \/ pc'[u] = "fetch"
                      \/ \E w \in Thread : pc'[w] = "mark" /\ Current(w)' = u
    BY Zenon DEF EventsAreSeen
  <2>1. \A w \in Thread : Current(w)' = Current(w)
    BY <1>3, SameCurrent, Zenon
  <2>2. CASE u = v
    BY <1>1, <1>5, <2>1, <2>2, Zenon
  <2>3. CASE u # v
    <3>1. Pressing(u) # {}
      BY <1>4, <2>3, Zenon DEF Pressing
    <3> QED BY <1>2, <1>3, <1>5, <2>1, <3>1, Zenon DEF EventsAreSeen
  <2> QED BY <2>2, <2>3, Zenon
<1> QED BY <1>1, <1>3, <1>5, <1>6, <1>7, FlaggedKeeps, Zenon DEF Signalling

\* What remains to be signalled, or cancelled, once one thread is done.
Rest(t, l) ==
    /\ todo' = [todo EXCEPT ![t] = @ \ {Current(t)}]
    /\ arg' = [arg EXCEPT ![t] = IF todo[t] = {Current(t)} THEN NoHandler ELSE @]
    /\ Goto(t, IF todo[t] = {Current(t)} THEN "run" ELSE l)
    /\ UNCHANGED <<record, mutex, keyOf, vmAccess, fetched, called, released>>

\* What the thread signals, or cancels, next is still registered.
LEMMA RestSignals ==
    ASSUME AsyncInv, NEW t \in Thread, NEW l \in Signalling, pc[t] \in Signalling, Rest(t, l),
           l = "quiet" => pc[t] = "quiet"
    PROVE  SignalInv(t)'
<1>1. AsyncTypes /\ SignalInv(t) /\ keyOf' = keyOf
  BY Zenon DEF AsyncInv, ThreadInv, Rest
<1>2. CASE todo[t] = {Current(t)}
  <2>1. pc'[t] = "run"
    BY <1>1, <1>2, Zenon DEF AsyncTypes, Rest, Goto
  <2> QED BY <2>1, Zenon DEF SignalInv, Signalling
<1>3. CASE todo[t] # {Current(t)}
  <2>1. arg'[t] = arg[t] /\ todo'[t] = todo[t] \ {Current(t)} /\ pc'[t] = l
    BY <1>1, <1>3, Zenon DEF AsyncTypes, Rest, Goto
  <2>2. todo[t] # {} /\ Current(t) \in todo[t] /\ arg[t] \in Handler /\ Registered(arg[t])
    BY <1>1, CurrentIn, Zenon DEF SignalInv
  <2>3. todo'[t] # {}
    BY <1>3, <2>1, <2>2, Zenon
  <2> QED BY <1>1, <2>1, <2>2, <2>3, Zenon DEF SignalInv, Registered
<1> QED BY <1>2, <1>3, Zenon

\* A thread that is done with one of the threads goes on to the next.
LEMMA RestKeeps ==
    ASSUME AsyncInv, AsyncTypes', NEW t \in Thread, NEW l \in Signalling, pc[t] \in Signalling,
           Rest(t, l), l = "quiet" => pc[t] = "quiet", meant' = meant, EventsAreSeen',
           \A u \in Thread : flags'[u] \subseteq flags[u]
    PROVE  AsyncInv'
<1>1. AsyncTypes /\ AccessInv(t) /\ SignalInv(t) /\ FlagInv(t) /\ CallInv(t)
  BY Zenon DEF AsyncInv, ThreadInv
<1>2. \A u \in Thread \ {t} : Own(u)
  BY <1>1 DEF AsyncTypes, Rest, Goto, Own
<1>3. \/ pc'[t] = "run"
      \/ pc'[t] = l /\ todo[t] # {Current(t)} /\ arg'[t] = arg[t] /\ todo'[t] = todo[t] \ {Current(t)}
  BY <1>1, Zenon DEF AsyncTypes, Rest, Goto
<1>4. t \in vmAccess' /\ keyOf' = keyOf /\ fetched' = fetched /\ called' = called /\ meant' = meant
      /\ released' = released
  BY <1>1, Zenon DEF AccessInv, Rest, Signalling
<1>5. AccessInv(t)'
  BY <1>4, Zenon DEF AccessInv
<1>6. SignalInv(t)'
  BY RestSignals, Zenon
<1>7. FlagInv(t)'
  BY <1>1, <1>4, Zenon DEF FlagInv, Meant, Signalling, Dispatching
<1>8. CallInv(t)'
  BY <1>1, <1>3, <1>4, Zenon DEF CallInv, Signalling, Empty
<1>9. Elsewhere(t)
  BY <1>2, Zenon DEF Elsewhere, Rest
<1> QED BY <1>4, <1>5, <1>6, <1>7, <1>8, <1>9, StepKeeps, Zenon DEF ThreadInv

\* A signal without interrupt: the flag is that of a handler that need not be seen at once.
LEMMA SetFlagOnlyKeeps ==
    ASSUME AsyncInv, AsyncTypes', NEW t \in Thread, SetFlagOnly(t)
    PROVE  AsyncInv'
<1>1. PICK v \in Thread, h \in Handler : v = Current(t) /\ h = arg[t] /\ Registered(h) /\ keyOf[h] \in Key
  BY Signalled, Zenon DEF SetFlagOnly, Signalling
<1>2. AsyncTypes /\ EventsAreSeen /\ SignalInv(t)
  BY Zenon DEF AsyncInv, ThreadInv
<1>3. pc[t] = "quiet" /\ Flagged(v, h) /\ mark' = mark /\ Rest(t, "quiet")
  BY <1>1, Zenon DEF SetFlagOnly, Flagged, Rest
<1>4. /\ \A u \in Thread \ {v} : flags'[u] = flags[u] /\ meant'[u] = meant[u]
      /\ flags'[v] = flags[v] \cup {keyOf[h]} /\ meant'[v][keyOf[h]] = h
      /\ \A j \in Key \ {keyOf[h]} : meant'[v][j] = meant[v][j]
  BY <1>1, <1>2, <1>3, FlaggedOne, Zenon
<1>5. /\ pc'[t] \in {"run", "quiet"}
      /\ \A u \in Thread \ {t} : pc'[u] = pc[u] /\ arg'[u] = arg[u] /\ todo'[u] = todo[u]
  BY <1>2, <1>3 DEF AsyncTypes, Rest, Goto
<1>6. SignalInv(t)'
  BY <1>3, RestSignals, Zenon DEF Signalling
<1>7. EventsAreSeen'
  <2> SUFFICES ASSUME NEW u \in Thread, Pressing(u)' # {}
               PROVE  \/ u \in mark' \/ pc'[u] = "fetch"
                      \/ \E w \in Thread : pc'[w] = "mark" /\ Current(w)' = u
    BY Zenon DEF EventsAreSeen
  <2>1. h \in Quiet /\ flags[v] \subseteq Key
    BY <1>1, <1>2, <1>3, Zenon DEF SignalInv, Signalling, AsyncTypes
  <2>2. PICK j \in flags'[u] : meant'[u][j] \notin Quiet
    BY Zenon DEF Pressing
  <2>3. j \in flags[u] /\ meant[u][j] \notin Quiet
    BY <1>4, <2>1, <2>2, Zenon
  <2>4. Pressing(u) # {}
    BY <2>3, Zenon DEF Pressing
  <2>5. \A w \in Thread \ {t} : Current(w)' = Current(w)
    BY <1>5, SameCurrent, Zenon
  <2> QED BY <1>2, <1>3, <1>5, <2>4, <2>5, Zenon DEF EventsAreSeen
<1>8. UNCHANGED <<record, mutex, keyOf, vmAccess, fetched, called, released>>
  BY <1>3, Zenon DEF Rest
<1> QED BY <1>1, <1>3, <1>5, <1>6, <1>7, <1>8, FlaggedKeeps, Zenon DEF Signalling

\* The mark of the signalled thread is set, so its flags are seen.
LEMMA IndicateKeeps ==
    ASSUME AsyncInv, AsyncTypes', NEW t \in Thread, indicateAsyncMessagePending(t)
    PROVE  AsyncInv'
<1>1. /\ pc[t] = "mark" /\ mark' = mark \cup {Current(t)} /\ flags' = flags /\ meant' = meant /\ Rest(t, "signal")
  BY Zenon DEF indicateAsyncMessagePending, Rest
<1>2. AsyncTypes /\ EventsAreSeen
  BY Zenon DEF AsyncInv
<1>3. \A u \in Thread \ {t} : Own(u)
  BY <1>1, <1>2 DEF AsyncTypes, Rest, Goto, Own
<1>4. EventsAreSeen'
  BY <1>1, <1>2, <1>3, SeenFramed, Zenon
<1> QED BY <1>1, <1>4, RestKeeps, Zenon DEF Signalling

\* Cancelling clears a flag.
LEMMA ClearKeeps ==
    ASSUME AsyncInv, AsyncTypes', NEW t \in Thread, clearAsyncEventFlags(t)
    PROVE  AsyncInv'
<1>1. /\ pc[t] = "cancel" /\ flags' = [flags EXCEPT ![Current(t)] = @ \ {keyOf[arg[t]]}]
      /\ mark' = mark /\ meant' = meant /\ Rest(t, "cancel")
  BY Zenon DEF clearAsyncEventFlags, Rest
<1>2. AsyncTypes /\ EventsAreSeen
  BY Zenon DEF AsyncInv
<1>3. \A u \in Thread \ {t} : Own(u)
  BY <1>1, <1>2 DEF AsyncTypes, Rest, Goto, Own
<1>4. \A u \in Thread : flags'[u] \subseteq flags[u]
  BY <1>1, <1>2, Zenon DEF AsyncTypes
<1>5. EventsAreSeen'
  BY <1>1, <1>2, <1>3, <1>4, SeenFramed, Zenon
<1> QED BY <1>1, <1>4, <1>5, RestKeeps, Zenon DEF Signalling

-----------------------------------------------------------------------------
(* Fetching and dispatching. *)

\* The mark is cleared before the flags are fetched, so what is set in between is fetched too.
LEMMA CheckAsyncKeeps ==
    ASSUME AsyncInv, AsyncTypes', NEW t \in Thread, CheckAsync(t)
    PROVE  AsyncInv'
<1>1. /\ pc[t] = "run" /\ t \in vmAccess /\ mark' = mark \ {t} /\ pc' = [pc EXCEPT ![t] = "fetch"]
      /\ UNCHANGED <<record, mutex, keyOf, flags, vmAccess, fetched, arg, called, todo, meant, released>>
  BY Zenon DEF CheckAsync, Running, Goto
<1>2. AsyncTypes /\ EventsAreSeen /\ FlagInv(t) /\ CallInv(t)
  BY Zenon DEF AsyncInv, ThreadInv
<1>3. pc'[t] = "fetch" /\ \A u \in Thread \ {t} : Own(u)
  BY <1>1, <1>2, Zenon DEF AsyncTypes, Own
<1>4. AccessInv(t)' /\ SignalInv(t)'
  BY <1>1, <1>3, Zenon DEF AccessInv, SignalInv, Signalling
<1>5. FlagInv(t)'
  BY <1>1, <1>2, Zenon DEF FlagInv, Meant, Dispatching
<1>6. CallInv(t)'
  BY <1>1, <1>2, <1>3, Zenon DEF CallInv, Empty
<1>7. EventsAreSeen'
  BY <1>1, <1>2, <1>3, SeenFramed, Zenon
<1>8. Elsewhere(t)
  BY <1>1, <1>3, Zenon DEF Elsewhere
<1> QED BY <1>1, <1>4, <1>5, <1>6, <1>7, <1>8, StepKeeps, Zenon DEF ThreadInv

\* The events that are fetched are those that were flagged.
LEMMA FetchKeeps ==
    ASSUME AsyncInv, AsyncTypes', NEW t \in Thread, Fetch(t)
    PROVE  AsyncInv'
<1>1. /\ pc[t] = "fetch" /\ fetched' = [fetched EXCEPT ![t] = flags[t]]
      /\ flags' = [flags EXCEPT ![t] = {}] /\ released' = released \ {t}
      /\ pc' = [pc EXCEPT ![t] = "dispatch"]
      /\ UNCHANGED <<record, mutex, keyOf, mark, vmAccess, arg, called, todo, meant>>
  BY Zenon DEF Fetch, Goto
<1>2. AsyncTypes /\ EventsAreSeen /\ AccessInv(t) /\ FlagInv(t) /\ CallInv(t)
  BY Zenon DEF AsyncInv, ThreadInv
<1>3. /\ pc'[t] = "dispatch" /\ fetched'[t] = flags[t] /\ flags'[t] = {}
      /\ \A u \in Thread \ {t} : Own(u) /\ flags'[u] = flags[u]
  BY <1>1, <1>2, Zenon DEF AsyncTypes, Own
<1>4. AccessInv(t)' /\ SignalInv(t)'
  BY <1>1, <1>2, <1>3, Zenon DEF AccessInv, SignalInv, Signalling
<1>5. \A k \in fetched'[t] : Meant(t, k)'
  BY <1>1, <1>2, <1>3, Zenon DEF FlagInv, Meant
<1>6. FlagInv(t)'
  BY <1>3, <1>5, Zenon DEF FlagInv, Dispatching
<1>7. CallInv(t)'
  BY <1>1, <1>2, <1>3, Zenon DEF CallInv, Empty
<1>8. \A u \in Thread : flags'[u] \subseteq flags[u]
  BY <1>3, Zenon
<1>9. EventsAreSeen'
  BY <1>1, <1>2, <1>3, <1>8, SeenFramed, Zenon
<1>10. Elsewhere(t)
  BY <1>1, <1>3, Zenon DEF Elsewhere
<1> QED BY <1>1, <1>3, <1>4, <1>6, <1>7, <1>9, <1>10, StepKeeps, Zenon DEF ThreadInv

\* What a dispatching thread has fetched is meant for registered handlers, in their records.
LEMMA FetchedRecord ==
    ASSUME AsyncInv, NEW t \in Thread, t \notin released, fetched[t] # {}
    PROVE  LET h == meant[t][First(t)] IN
           h \in Handler /\ Registered(h) /\ record[First(t)] = [handler |-> h, data |-> h]
<1>1. AsyncTypes /\ RecordInv /\ FlagInv(t)
  BY Zenon DEF AsyncInv, ThreadInv
<1>2. First(t) \in fetched[t] /\ First(t) \in Key
  BY <1>1, FirstIn, Zenon DEF AsyncTypes
<1>3. Meant(t, First(t))
  BY <1>1, <1>2, Zenon DEF FlagInv
<1> QED BY <1>1, <1>2, <1>3, MeantRecord, Zenon

\* The handler that is loaded is the one the event is meant for.
LEMMA DispatchLoadKeeps ==
    ASSUME AsyncInv, AsyncTypes', NEW t \in Thread, DispatchLoad(t)
    PROVE  AsyncInv'
<1>1. /\ pc[t] = "dispatch" /\ fetched[t] # {}
      /\ UNCHANGED <<record, mutex, keyOf, flags, mark, vmAccess, called, todo, meant, released>>
  BY Zenon DEF DispatchLoad
<1>2. AsyncTypes /\ EventsAreSeen /\ AccessInv(t) /\ FlagInv(t) /\ CallInv(t)
  BY Zenon DEF AsyncInv, ThreadInv
<1>3. \A u \in Thread \ {t} : Own(u)
  BY <1>1, <1>2, Zenon DEF AsyncTypes, Own, DispatchLoad, Goto
<1>4. \/ pc'[t] = "dispatch" /\ fetched'[t] \subseteq fetched[t]
      \/ pc'[t] = "call" /\ fetched'[t] = fetched[t] /\ arg'[t] = record[First(t)].handler
  BY <1>1, <1>2 DEF AsyncTypes, DispatchLoad, Goto
<1>5. AccessInv(t)' /\ SignalInv(t)'
  BY <1>1, <1>2, <1>4, Zenon DEF AccessInv, SignalInv, Signalling
<1>6. FlagInv(t)'
  BY <1>1, <1>2, <1>4, Zenon DEF FlagInv, Meant, Dispatching
<1>7. CallInv(t)'
  <2>1. CASE pc'[t] = "dispatch"
    BY <1>1, <1>2, <2>1, Zenon DEF CallInv, Empty
  <2>2. CASE pc'[t] = "call" /\ fetched'[t] = fetched[t] /\ arg'[t] = record[First(t)].handler
    <3>1. ASSUME t \notin released PROVE arg'[t] = meant[t][First(t)]
      <4>1. record[First(t)] = [handler |-> meant[t][First(t)], data |-> meant[t][First(t)]]
        BY <1>1, <3>1, FetchedRecord, Zenon
      <4> QED BY <2>2, <4>1
    <3>2. First(t)' = First(t)
      BY <2>2, SameFirst, Zenon
    <3> QED BY <1>1, <1>2, <2>2, <3>1, <3>2, Zenon DEF CallInv, Empty
  <2> QED BY <1>4, <2>1, <2>2, Zenon
<1>8. EventsAreSeen'
  BY <1>1, <1>2, <1>3, SeenFramed, Zenon
<1>9. Elsewhere(t)
  BY <1>1, <1>3, Zenon DEF Elsewhere
<1> QED BY <1>1, <1>5, <1>6, <1>7, <1>8, <1>9, StepKeeps, Zenon DEF ThreadInv

\* The data that is loaded is that of the handler: the record cannot be reused in between.
LEMMA DispatchCallKeeps ==
    ASSUME AsyncInv, AsyncTypes', NEW t \in Thread, DispatchCall(t)
    PROVE  AsyncInv'
<1>1. /\ pc[t] = "call" /\ fetched' = [fetched EXCEPT ![t] = @ \ {First(t)}]
      /\ called' = [called EXCEPT ![t] = [handler |-> arg[t], data |-> record[First(t)].data]]
      /\ arg' = [arg EXCEPT ![t] = NoHandler] /\ pc' = [pc EXCEPT ![t] = "handler"]
      /\ UNCHANGED <<record, mutex, keyOf, flags, mark, vmAccess, todo, meant, released>>
  BY Zenon DEF DispatchCall, Goto
<1>2. AsyncTypes /\ EventsAreSeen /\ AccessInv(t) /\ FlagInv(t) /\ CallInv(t)
  BY Zenon DEF AsyncInv, ThreadInv
<1>3. /\ pc'[t] = "handler" /\ fetched'[t] \subseteq fetched[t]
      /\ called'[t].handler = arg[t] /\ called'[t].data = record[First(t)].data
      /\ \A u \in Thread \ {t} : Own(u)
  BY <1>1, <1>2, Zenon DEF AsyncTypes, Own
<1>4. AccessInv(t)' /\ SignalInv(t)'
  BY <1>1, <1>2, <1>3, Zenon DEF AccessInv, SignalInv, Signalling
<1>5. FlagInv(t)'
  BY <1>1, <1>2, <1>3, Zenon DEF FlagInv, Meant, Dispatching
<1>6. ASSUME t \notin released
      PROVE  arg[t] \in Handler /\ Registered(arg[t]) /\ record[First(t)].data = arg[t]
  <2>1. fetched[t] # {} /\ arg[t] = meant[t][First(t)]
    BY <1>1, <1>2, <1>6, Zenon DEF CallInv
  <2>2. /\ arg[t] \in Handler /\ Registered(arg[t])
        /\ record[First(t)] = [handler |-> arg[t], data |-> arg[t]]
    BY <1>6, <2>1, FetchedRecord, Zenon
  <2> QED BY <2>2
<1>7. CallInv(t)'
  BY <1>1, <1>3, <1>6, Zenon DEF CallInv, Registered
<1>8. EventsAreSeen'
  BY <1>1, <1>2, <1>3, SeenFramed, Zenon
<1>9. Elsewhere(t)
  BY <1>1, <1>3, Zenon DEF Elsewhere
<1> QED BY <1>1, <1>4, <1>5, <1>7, <1>8, <1>9, StepKeeps, Zenon DEF ThreadInv

\* A handler that gives VM access up makes its thread one that released it.
LEMMA HandlerReleasesKeeps ==
    ASSUME AsyncInv, AsyncTypes', NEW t \in Thread, HandlerReleases(t)
    PROVE  AsyncInv'
<1>1. /\ pc[t] = "handler" /\ vmAccess' = vmAccess \ {t} /\ released' = released \cup {t}
      /\ UNCHANGED <<record, mutex, keyOf, flags, mark, pc, fetched, arg, called, todo, meant>>
  BY Zenon DEF HandlerReleases
<1>2. EventsAreSeen /\ FlagInv(t)
  BY Zenon DEF AsyncInv, ThreadInv
<1>3. AccessInv(t)' /\ SignalInv(t)' /\ CallInv(t)'
  BY <1>1, Zenon DEF AccessInv, SignalInv, Signalling, CallInv
<1>4. FlagInv(t)'
  BY <1>1, <1>2, Zenon DEF FlagInv, Meant
<1>5. EventsAreSeen'
  BY <1>1, <1>2, SeenUnchanged, Zenon
<1>6. Elsewhere(t)
  BY <1>1, Zenon DEF Elsewhere, Own
<1> QED BY <1>1, <1>3, <1>4, <1>5, <1>6, StepKeeps, Zenon DEF ThreadInv

\* A handler returns to the dispatch, with VM access; the dispatch ends when nothing is left.
LEMMA ReturnKeeps ==
    ASSUME AsyncInv, AsyncTypes', NEW t \in Thread, HandlerReturns(t) \/ Dispatched(t)
    PROVE  AsyncInv'
<1>1. /\ pc[t] = "handler" \/ (pc[t] = "dispatch" /\ fetched[t] = {})
      /\ pc' = [pc EXCEPT ![t] = IF pc[t] = "handler" THEN "dispatch" ELSE "run"]
      /\ called' = IF pc[t] = "handler" THEN [called EXCEPT ![t] = Empty] ELSE called
      /\ pc[t] = "handler" => t \in vmAccess
      /\ UNCHANGED <<record, mutex, keyOf, flags, mark, vmAccess, fetched, arg, todo, meant, released>>
  BY Zenon DEF HandlerReturns, Dispatched, Goto
<1>2. AsyncTypes /\ EventsAreSeen /\ AccessInv(t) /\ FlagInv(t) /\ CallInv(t)
  BY Zenon DEF AsyncInv, ThreadInv
<1>3. /\ \/ pc'[t] = "dispatch" /\ t \in vmAccess
         \/ pc'[t] = "run" /\ fetched[t] = {}
      /\ \A u \in Thread \ {t} : Own(u)
  BY <1>1, <1>2, Zenon DEF AsyncTypes, Own
<1>4. called'[t] = Empty
  BY <1>1, <1>2, Zenon DEF AsyncTypes, CallInv
<1>5. AccessInv(t)' /\ SignalInv(t)'
  BY <1>1, <1>3, Zenon DEF AccessInv, SignalInv, Signalling
<1>6. FlagInv(t)'
  BY <1>1, <1>2, <1>3, Zenon DEF FlagInv, Meant, Dispatching
<1>7. CallInv(t)'
  BY <1>3, <1>4, Zenon DEF CallInv, Empty
<1>8. EventsAreSeen'
  BY <1>1, <1>2, <1>3, SeenFramed, Zenon
<1>9. Elsewhere(t)
  BY <1>1, <1>3, Zenon DEF Elsewhere
<1> QED BY <1>1, <1>5, <1>6, <1>7, <1>8, <1>9, StepKeeps, Zenon DEF ThreadInv

\* A thread gives VM access up while it runs, and takes it back at any time.
LEMMA AccessKeeps ==
    ASSUME AsyncInv, AsyncTypes', NEW t \in Thread, ReleaseAccess(t) \/ AcquireAccess(t)
    PROVE  AsyncInv'
<1>1. /\ \/ pc[t] = "run" /\ vmAccess' = vmAccess \ {t}
         \/ vmAccess' = vmAccess \cup {t}
      /\ UNCHANGED <<record, mutex, keyOf, flags, mark, pc, fetched, arg, called, todo, meant, released>>
  BY Zenon DEF ReleaseAccess, AcquireAccess, Running
<1>2. EventsAreSeen /\ AccessInv(t) /\ SignalInv(t) /\ FlagInv(t) /\ CallInv(t)
  BY Zenon DEF AsyncInv, ThreadInv
<1>3. AccessInv(t)'
  BY <1>1, <1>2, Zenon DEF AccessInv
<1>4. SignalInv(t)' /\ FlagInv(t)'
  BY <1>1, <1>2, Zenon DEF SignalInv, FlagInv, Meant, Registered
<1>5. First(t)' = First(t)
  BY <1>1, SameFirst, Zenon
<1>6. CallInv(t)'
  BY <1>1, <1>2, <1>5, Zenon DEF CallInv, Registered, Empty
<1>7. EventsAreSeen'
  BY <1>1, <1>2, SeenUnchanged, Zenon
<1>8. Elsewhere(t)
  BY <1>1, Zenon DEF Elsewhere, Own
<1> QED BY <1>1, <1>3, <1>4, <1>6, <1>7, <1>8, StepKeeps, Zenon DEF ThreadInv

-----------------------------------------------------------------------------
(* The invariant holds. *)

\* AsyncInv holds in the initial state.
LEMMA InitAsync == Init => AsyncInv
<1> SUFFICES ASSUME Init PROVE AsyncInv
  OBVIOUS
<1>1. Empty \in Call /\ NoHandler \in SomeHandler /\ "run" \in Label
  BY Zenon DEF Empty, Call, SomeHandler, Label
<1>2. AsyncTypes
  BY <1>1, Zenon DEF Init, AsyncTypes
<1>3. RecordInv
  BY Zenon DEF Init, RecordInv, Registered, Empty
<1>4. EventsAreSeen
  BY Zenon DEF Init, EventsAreSeen, Pressing
<1>5. \A t \in Thread : ThreadInv(t)
  BY Zenon DEF Init, ThreadInv, AccessInv, SignalInv, FlagInv, CallInv, Signalling, Dispatching
<1> QED BY <1>2, <1>3, <1>4, <1>5, Zenon DEF AsyncInv

\* Every step of a thread that has begun something keeps the invariant.
LEMMA StepAsync ==
    ASSUME AsyncInv, NEW t \in Thread, Step(t) \/ HandlerReleases(t) \/ ReleaseAccess(t) \/ AcquireAccess(t)
    PROVE  AsyncInv'
<1>1. CASE SetFlag(t) \/ SetFlagOnly(t) \/ indicateAsyncMessagePending(t) \/ clearAsyncEventFlags(t)
  BY <1>1, SignalTypes, SetFlagKeeps, SetFlagOnlyKeeps, IndicateKeeps, ClearKeeps, Zenon
<1>2. CASE CheckAsync(t) \/ Fetch(t) \/ DispatchLoad(t) \/ DispatchCall(t)
  BY <1>2, DispatchTypes, CheckAsyncKeeps, FetchKeeps, DispatchLoadKeeps, DispatchCallKeeps, Zenon
<1>3. CASE HandlerReleases(t) \/ HandlerReturns(t) \/ Dispatched(t) \/ ReleaseAccess(t) \/ AcquireAccess(t)
  BY <1>3, DispatchTypes, HandlerReleasesKeeps, ReturnKeeps, AccessKeeps, Zenon
<1> QED BY <1>1, <1>2, <1>3, Zenon DEF Step

\* Every step keeps the invariant.
LEMMA NextAsync == AsyncInv /\ [Next]_vars => AsyncInv'
<1> SUFFICES ASSUME AsyncInv, [Next]_vars PROVE AsyncInv'
  OBVIOUS
<1>1. ASSUME NEW h \in Handler, Register(h) \/ RegisterData(h) PROVE AsyncInv'
  BY <1>1, RegistrationTypes, RegisterKeeps, RegisterDataKeeps, Zenon
<1>2. ASSUME NEW t \in Thread, NEW h \in Handler, Unregister(t, h) PROVE AsyncInv'
  BY <1>2, RegistrationTypes, UnregisterKeeps, Zenon
<1>3. ASSUME NEW t \in Thread, NEW U \in Target, NEW h \in Handler,
             Signal(t, U, h) \/ SignalWithoutInterrupt(t, U, h) \/ Cancel(t, U, h)
      PROVE  AsyncInv'
  BY <1>3, SignalTypes, BeginKeeps, Zenon
<1>4. CASE UNCHANGED vars
  <2>1. AsyncTypes /\ RecordInv /\ EventsAreSeen
    BY Zenon DEF AsyncInv
  <2>2. AsyncTypes'
    BY <1>4, <2>1, Zenon DEF AsyncTypes, vars
  <2>3. EventsAreSeen'
    BY <1>4, <2>1, SeenUnchanged, Zenon DEF vars
  <2>4. RecordInv' /\ KeysKept
    BY <1>4, <2>1, RecordFramed, Zenon DEF vars
  <2>5. ASSUME NEW u \in Thread PROVE ThreadInv(u)'
    <3>1. Own(u) /\ ThreadInv(u)
      BY <1>4, Zenon DEF Own, vars, AsyncInv
    <3> QED BY <1>4, <2>1, <2>4, <3>1, ThreadFramed, Zenon DEF vars
  <2> QED BY <2>2, <2>3, <2>4, <2>5, Zenon DEF AsyncInv
<1> QED BY <1>1, <1>2, <1>3, <1>4, StepAsync, Zenon DEF Next

\* The records, the flags and what each thread has fetched and loaded agree at every place.
THEOREM AsyncInvHolds == Spec => []AsyncInv
  BY InitAsync, NextAsync, PTL DEF Spec

\* Once J9UnregisterAsyncEvent has returned, the handler runs in no thread that has kept
\* VM access.
THEOREM UnregisteredHolds == Spec => []UnregisteredRunsNowhere
<1>1. AsyncInv => UnregisteredRunsNowhere
  BY DEF AsyncInv, ThreadInv, CallInv, UnregisteredRunsNowhere, Empty
<1> QED BY <1>1, AsyncInvHolds, PTL

\* dispatchAsyncEvents passes a handler its own user data.
THEOREM OwnDataHolds == Spec => []CalledWithOwnData
<1>1. AsyncInv => CalledWithOwnData
  <2> SUFFICES ASSUME AsyncInv, NEW t \in Thread \ released PROVE called[t].handler = called[t].data
    BY Zenon DEF CalledWithOwnData
  <2>1. CallInv(t)
    BY Zenon DEF AsyncInv, ThreadInv
  <2>2. CASE pc[t] = "handler"
    BY <2>1, <2>2, Zenon DEF CallInv
  <2>3. CASE pc[t] # "handler"
    BY <2>1, <2>3 DEF CallInv, Empty
  <2> QED BY <2>2, <2>3, Zenon
<1> QED BY <1>1, AsyncInvHolds, PTL

\* dispatchAsyncEvents calls the handler that the event was signalled for.
THEOREM SignalledHolds == Spec => []CalledWhenSignalled
<1>1. AsyncInv => CalledWhenSignalled
  BY Zenon DEF AsyncInv, ThreadInv, CallInv, CalledWhenSignalled
<1> QED BY <1>1, AsyncInvHolds, PTL

\* J9SignalAsyncEvent loses no event to an async check that runs at the same time.
THEOREM EventsSeenHolds == Spec => []EventsAreSeen
<1>1. AsyncInv => EventsAreSeen
  BY Zenon DEF AsyncInv
<1> QED BY <1>1, AsyncInvHolds, PTL
=============================================================================
