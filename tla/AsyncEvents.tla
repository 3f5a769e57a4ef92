----------------------------- MODULE AsyncEvents -----------------------------
(***************************************************************************)
(* Hookable asynchronous events: handlers are registered under a key,      *)
(* events are signalled to a thread, which dispatches them at its next     *)
(* async check.                                                            *)
(*                                                                         *)
(* Models runtime/vm/hookableAsync.c and the event part of                 *)
(* runtime/vm/AsyncMessageHandler.cpp.                                     *)
(*                                                                         *)
(* Grain.  Atomic bit operations, plain loads and plain stores are one     *)
(* step each.  Unregistering holds exclusive VM access and is one step     *)
(* that waits until no other thread has VM access; registering needs no    *)
(* VM access.  A handler is its own user data.                             *)
(***************************************************************************)
EXTENDS Naturals

CONSTANTS
    Thread,
    MaxHandlers,  \* J9ASYNC_MAX_HANDLERS, 32 in the code
    Handler,
    NoHandler,
    Blocking,     \* the handlers that release VM access while they run
    Cancellable,  \* the handlers whose events are cancelled
    Quiet         \* the handlers that are also signalled without interrupting the thread

ASSUME AsyncAssumption ==
    /\ MaxHandlers \in Nat \ {0} /\ NoHandler \notin Handler
    /\ Blocking \subseteq Handler /\ Cancellable \subseteq Handler /\ Quiet \subseteq Handler

Key == 0..(MaxHandlers - 1)

VARIABLES
    record,     \* asyncEventHandlers: handler and user data for each key
    mutex,      \* the handler being registered under asyncEventMutex, if any
    keyOf,      \* the key that registering a handler returned, or MaxHandlers
    flags,      \* asyncEventFlags of each thread
    mark,       \* the threads whose stackOverflowMark says that an event is pending
    vmAccess,
    pc,
    fetched,    \* the flags a thread has fetched and not dispatched yet
    arg,        \* what a thread is about to signal, or to call
    called,     \* the handler and user data of the call a thread is in
    todo,       \* the threads a thread has yet to signal, or to cancel the event for
    meant,      \* for each thread and key, the handler it was signalled for last
    released    \* the threads that gave VM access up in a handler, until their next fetch

vars == <<record, mutex, keyOf, flags, mark, vmAccess, pc, fetched, arg, called, todo, meant, released>>

-----------------------------------------------------------------------------
Empty == [handler |-> NoHandler, data |-> NoHandler]

Running(t) == pc[t] = "run" /\ t \in vmAccess
Registered(h) == keyOf[h] # MaxHandlers
Goto(t, l) == pc' = [pc EXCEPT ![t] = l]

(* J9RegisterAsyncEvent: the first free record, its handler before its data. *)
Register(h) ==
    /\ mutex = NoHandler /\ ~Registered(h)
    /\ \E k \in Key :
          /\ record[k].handler = NoHandler
          /\ \A j \in 0..(k - 1) : record[j].handler # NoHandler
          /\ record' = [record EXCEPT ![k].handler = h]
    /\ mutex' = h
    /\ UNCHANGED <<keyOf, flags, mark, vmAccess, pc, fetched, arg, called, todo, meant, released>>

RegisterData(h) ==
    /\ mutex = h
    /\ \E k \in Key :
          /\ record[k].handler = h
          /\ record' = [record EXCEPT ![k].data = h]
          /\ keyOf' = [keyOf EXCEPT ![h] = k]
    /\ mutex' = NoHandler
    /\ UNCHANGED <<flags, mark, vmAccess, pc, fetched, arg, called, todo, meant, released>>

(* Fault: the event stays pending. *)
UnregisterPending(t, h) ==
    /\ Running(t) /\ vmAccess = {t} /\ Registered(h)
    /\ record' = [record EXCEPT ![keyOf[h]] = Empty]
    /\ keyOf' = [keyOf EXCEPT ![h] = MaxHandlers]
    /\ UNCHANGED <<mutex, flags, mark, vmAccess, pc, fetched, arg, called, todo, meant, released>>

(* J9UnregisterAsyncEvent, with J9CancelAsyncEvent for all threads. *)
Unregister(t, h) ==
    /\ Running(t) /\ vmAccess = {t} /\ Registered(h)
    /\ flags' = [u \in Thread |-> flags[u] \ {keyOf[h]}]
    /\ record' = [record EXCEPT ![keyOf[h]] = Empty]
    /\ keyOf' = [keyOf EXCEPT ![h] = MaxHandlers]
    /\ UNCHANGED <<mutex, mark, vmAccess, pc, fetched, arg, called, todo, meant, released>>

-----------------------------------------------------------------------------
(* J9SignalAsyncEvent, J9SignalAsyncEventWithoutInterrupt and J9CancelAsyncEvent for one
   thread or for all of them: one thread after the other; a signal sets the flag of the
   thread and then, unless it is without interrupt, its mark. *)

Target == {{u} : u \in Thread} \cup {Thread}
Current(t) == CHOOSE u \in todo[t] : TRUE

Begin(t, U, h, l) ==
    /\ Running(t) /\ Registered(h)
    /\ todo' = [todo EXCEPT ![t] = U]
    /\ arg' = [arg EXCEPT ![t] = h]
    /\ Goto(t, l)
    /\ UNCHANGED <<record, mutex, keyOf, flags, mark, vmAccess, fetched, called, meant, released>>

Signal(t, U, h) == Begin(t, U, h, "signal")
SignalWithoutInterrupt(t, U, h) == h \in Quiet /\ Begin(t, U, h, "quiet")
Cancel(t, U, h) == Begin(t, U, h, "cancel")

(* setAsyncEventFlags, where it is to indicate the event. *)
SetFlag(t) ==
    /\ pc[t] = "signal"
    /\ flags' = [flags EXCEPT ![Current(t)] = @ \cup {keyOf[arg[t]]}]
    /\ meant' = [meant EXCEPT ![Current(t)][keyOf[arg[t]]] = arg[t]]
    /\ Goto(t, "mark")
    /\ UNCHANGED <<record, mutex, keyOf, mark, vmAccess, fetched, arg, called, todo, released>>

(* setAsyncEventFlags, where it is not. *)
SetFlagOnly(t) ==
    /\ pc[t] = "quiet"
    /\ flags' = [flags EXCEPT ![Current(t)] = @ \cup {keyOf[arg[t]]}]
    /\ meant' = [meant EXCEPT ![Current(t)][keyOf[arg[t]]] = arg[t]]
    /\ todo' = [todo EXCEPT ![t] = @ \ {Current(t)}]
    /\ arg' = [arg EXCEPT ![t] = IF todo[t] = {Current(t)} THEN NoHandler ELSE @]
    /\ Goto(t, IF todo[t] = {Current(t)} THEN "run" ELSE "quiet")
    /\ UNCHANGED <<record, mutex, keyOf, mark, vmAccess, fetched, called, released>>

(* Fault: only the last thread is marked. *)
indicateLast(t) ==
    /\ pc[t] = "mark"
    /\ mark' = IF todo[t] = {Current(t)} THEN mark \cup {Current(t)} ELSE mark
    /\ todo' = [todo EXCEPT ![t] = @ \ {Current(t)}]
    /\ arg' = [arg EXCEPT ![t] = IF todo[t] = {Current(t)} THEN NoHandler ELSE @]
    /\ Goto(t, IF todo[t] = {Current(t)} THEN "run" ELSE "signal")
    /\ UNCHANGED <<record, mutex, keyOf, flags, vmAccess, fetched, called, meant, released>>

indicateAsyncMessagePending(t) ==
    /\ pc[t] = "mark"
    /\ mark' = mark \cup {Current(t)}
    /\ todo' = [todo EXCEPT ![t] = @ \ {Current(t)}]
    /\ arg' = [arg EXCEPT ![t] = IF todo[t] = {Current(t)} THEN NoHandler ELSE @]
    /\ Goto(t, IF todo[t] = {Current(t)} THEN "run" ELSE "signal")
    /\ UNCHANGED <<record, mutex, keyOf, flags, vmAccess, fetched, called, meant, released>>

clearAsyncEventFlags(t) ==
    /\ pc[t] = "cancel"
    /\ flags' = [flags EXCEPT ![Current(t)] = @ \ {keyOf[arg[t]]}]
    /\ todo' = [todo EXCEPT ![t] = @ \ {Current(t)}]
    /\ arg' = [arg EXCEPT ![t] = IF todo[t] = {Current(t)} THEN NoHandler ELSE @]
    /\ Goto(t, IF todo[t] = {Current(t)} THEN "run" ELSE "cancel")
    /\ UNCHANGED <<record, mutex, keyOf, mark, vmAccess, fetched, called, meant, released>>

-----------------------------------------------------------------------------
(* javaCheckAsyncMessages: clear the mark, then fetch the flags. *)

CheckAsync(t) ==
    /\ Running(t) /\ t \in mark
    /\ mark' = mark \ {t}
    /\ Goto(t, "fetch")
    /\ UNCHANGED <<record, mutex, keyOf, flags, vmAccess, fetched, arg, called, todo, meant, released>>

Fetch(t) ==
    /\ pc[t] = "fetch"
    /\ fetched' = [fetched EXCEPT ![t] = flags[t]]
    /\ flags' = [flags EXCEPT ![t] = {}]
    /\ released' = released \ {t}
    /\ Goto(t, "dispatch")
    /\ UNCHANGED <<record, mutex, keyOf, mark, vmAccess, arg, called, todo, meant>>

-----------------------------------------------------------------------------
(* dispatchAsyncEvents: the fetched flags in the order of their keys; the handler is
   loaded for each, and then the data. *)

First(t) == CHOOSE k \in fetched[t] : \A j \in fetched[t] : k <= j

DispatchLoad(t) ==
    /\ pc[t] = "dispatch" /\ fetched[t] # {}
    /\ arg' = [arg EXCEPT ![t] = record[First(t)].handler]
    /\ IF record[First(t)].handler = NoHandler
       THEN fetched' = [fetched EXCEPT ![t] = @ \ {First(t)}] /\ UNCHANGED pc
       ELSE UNCHANGED fetched /\ Goto(t, "call")
    /\ UNCHANGED <<record, mutex, keyOf, flags, mark, vmAccess, called, todo, meant, released>>

(* Fault: the data is loaded after stepping to the next record. *)
DispatchCallNext(t) ==
    LET k == First(t)
        n == IF k + 1 \in Key THEN k + 1 ELSE k IN
    /\ pc[t] = "call"
    /\ called' = [called EXCEPT ![t] = [handler |-> arg[t], data |-> record[n].data]]
    /\ fetched' = [fetched EXCEPT ![t] = @ \ {k}]
    /\ arg' = [arg EXCEPT ![t] = NoHandler]
    /\ Goto(t, "handler")
    /\ UNCHANGED <<record, mutex, keyOf, flags, mark, vmAccess, todo, meant, released>>

(* Fault: the handler is called without VM access. *)
DispatchCallReleased(t) ==
    /\ pc[t] = "call"
    /\ called' = [called EXCEPT ![t] = [handler |-> arg[t], data |-> record[First(t)].data]]
    /\ fetched' = [fetched EXCEPT ![t] = @ \ {First(t)}]
    /\ arg' = [arg EXCEPT ![t] = NoHandler]
    /\ vmAccess' = vmAccess \ {t}
    /\ Goto(t, "handler")
    /\ UNCHANGED <<record, mutex, keyOf, flags, mark, todo, meant, released>>

DispatchCall(t) ==
    /\ pc[t] = "call"
    /\ called' = [called EXCEPT ![t] = [handler |-> arg[t], data |-> record[First(t)].data]]
    /\ fetched' = [fetched EXCEPT ![t] = @ \ {First(t)}]
    /\ arg' = [arg EXCEPT ![t] = NoHandler]
    /\ Goto(t, "handler")
    /\ UNCHANGED <<record, mutex, keyOf, flags, mark, vmAccess, todo, meant, released>>

(* The handler waits for something, a monitor for instance, without VM access. *)
HandlerReleases(t) ==
    /\ pc[t] = "handler" /\ called[t].handler \in Blocking /\ t \in vmAccess
    /\ vmAccess' = vmAccess \ {t} /\ released' = released \cup {t}
    /\ UNCHANGED <<record, mutex, keyOf, flags, mark, pc, fetched, arg, called, todo, meant>>

HandlerReturns(t) ==
    /\ pc[t] = "handler" /\ t \in vmAccess
    /\ called' = [called EXCEPT ![t] = Empty]
    /\ Goto(t, "dispatch")
    /\ UNCHANGED <<record, mutex, keyOf, flags, mark, vmAccess, fetched, arg, todo, meant, released>>

Dispatched(t) ==
    /\ pc[t] = "dispatch" /\ fetched[t] = {}
    /\ Goto(t, "run")
    /\ UNCHANGED <<record, mutex, keyOf, flags, mark, vmAccess, fetched, arg, called, todo, meant, released>>

-----------------------------------------------------------------------------
(* Threads give VM access up and take it back, as VMAccess has it. *)
ReleaseAccess(t) ==
    /\ Running(t)
    /\ vmAccess' = vmAccess \ {t}
    /\ UNCHANGED <<record, mutex, keyOf, flags, mark, pc, fetched, arg, called, todo, meant, released>>

AcquireAccess(t) ==
    /\ t \notin vmAccess
    /\ vmAccess' = vmAccess \cup {t}
    /\ UNCHANGED <<record, mutex, keyOf, flags, mark, pc, fetched, arg, called, todo, meant, released>>

Init ==
    /\ record = [k \in Key |-> Empty] /\ mutex = NoHandler
    /\ keyOf = [h \in Handler |-> MaxHandlers]
    /\ flags = [t \in Thread |-> {}] /\ mark = {} /\ vmAccess = Thread
    /\ pc = [t \in Thread |-> "run"]
    /\ fetched = [t \in Thread |-> {}] /\ arg = [t \in Thread |-> NoHandler]
    /\ called = [t \in Thread |-> Empty]
    /\ todo = [t \in Thread |-> {}]
    /\ meant = [t \in Thread |-> [k \in Key |-> NoHandler]]
    /\ released = {}

Step(t) ==
    \/ SetFlag(t) \/ SetFlagOnly(t) \/ indicateAsyncMessagePending(t) \/ clearAsyncEventFlags(t)
    \/ CheckAsync(t) \/ Fetch(t)
    \/ DispatchLoad(t) \/ DispatchCall(t) \/ HandlerReturns(t) \/ Dispatched(t)

Next ==
    \/ \E h \in Handler : Register(h) \/ RegisterData(h)
    \/ \E t \in Thread :
          \/ Step(t) \/ HandlerReleases(t) \/ ReleaseAccess(t) \/ AcquireAccess(t)
          \/ \E h \in Handler : Unregister(t, h)
          \/ \E U \in Target, h \in Handler :
                \/ Signal(t, U, h)
                \/ SignalWithoutInterrupt(t, U, h)
                \/ h \in Cancellable /\ Cancel(t, U, h)

Spec == Init /\ [][Next]_vars

-----------------------------------------------------------------------------
(* Once unregistered, a handler runs in no thread.  Like the two properties below
   it is about threads that keep VM access while they dispatch: a handler that
   gives VM access up lets others unregister what the thread has fetched. *)
UnregisteredRunsNowhere ==
    \A t \in Thread \ released : called[t].handler # NoHandler => Registered(called[t].handler)

(* A handler is called with its own user data, although it is stored after the handler
   and without VM access. *)
CalledWithOwnData == \A t \in Thread \ released : called[t].handler = called[t].data

(* An event runs the handler it was signalled for: one that was pending for an earlier
   handler of the key does not reach the handler that is registered under it now. *)
CalledWhenSignalled ==
    \A t \in Thread \ released : pc[t] = "call" => arg[t] = meant[t][First(t)]

(* No event is lost between setting flags and marking the thread on one side, and
   clearing the mark and fetching the flags on the other.  An event that may have been
   signalled without interrupt is not in Pressing: it waits for whatever marks the thread
   next. *)
Pressing(t) == {k \in flags[t] : meant[t][k] \notin Quiet}

EventsAreSeen ==
    \A t \in Thread : Pressing(t) # {} =>
        \/ t \in mark \/ pc[t] = "fetch"
        \/ \E u \in Thread : pc[u] = "mark" /\ Current(u) = t
=============================================================================
