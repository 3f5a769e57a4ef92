--------------------------- MODULE AsyncInvariant ----------------------------
(***************************************************************************)
(* The inductive invariant of AsyncEvents: what the records, the flags and *)
(* the place of each thread imply for each other.                          *)
(***************************************************************************)
EXTENDS AsyncEvents

SomeHandler == Handler \cup {NoHandler}
Call        == [handler : SomeHandler, data : SomeHandler]
Signalling  == {"signal", "mark", "quiet", "cancel"}
Dispatching == {"dispatch", "call", "handler"}
Label       == {"run", "fetch"} \cup Signalling \cup Dispatching

AsyncTypes ==
    /\ record \in [Key -> Call] /\ mutex \in SomeHandler
    /\ keyOf \in [Handler -> Key \cup {MaxHandlers}]
    /\ flags \in [Thread -> SUBSET Key] /\ fetched \in [Thread -> SUBSET Key]
    /\ mark \subseteq Thread /\ vmAccess \subseteq Thread /\ released \subseteq Thread
    /\ pc \in [Thread -> Label]
    /\ arg \in [Thread -> SomeHandler] /\ called \in [Thread -> Call]
    /\ todo \in [Thread -> SUBSET Thread]
    /\ meant \in [Thread -> [Key -> SomeHandler]]

(* A registered handler has its record, with its data; a record is that of a registered
   handler or of the one being registered. *)
RecordInv ==
    /\ \A h \in Handler : Registered(h) => record[keyOf[h]] = [handler |-> h, data |-> h]
    /\ \A k \in Key : LET h == record[k].handler IN
          h # NoHandler => (Registered(h) /\ keyOf[h] = k) \/ h = mutex
    /\ mutex # NoHandler => /\ ~Registered(mutex)
                            /\ \A j, k \in Key : record[j].handler = mutex
                                                 /\ record[k].handler = mutex => j = k

(* The event k of t is for a handler that is registered under k. *)
Meant(t, k) == meant[t][k] \in Handler /\ keyOf[meant[t][k]] = k

AccessInv(t) ==
    /\ pc[t] \notin {"run", "handler"} => t \in vmAccess
    /\ pc[t] = "handler" /\ t \notin released => t \in vmAccess

SignalInv(t) ==
    /\ pc[t] \in Signalling => arg[t] \in Handler /\ Registered(arg[t]) /\ todo[t] # {}
    /\ pc[t] = "quiet" => arg[t] \in Quiet

FlagInv(t) ==
    /\ \A k \in flags[t] : Meant(t, k)
    /\ t \notin released => \A k \in fetched[t] : Meant(t, k)
    /\ pc[t] \notin Dispatching => fetched[t] = {}

CallInv(t) ==
    /\ pc[t] = "call" => fetched[t] # {}
    /\ pc[t] = "call" /\ t \notin released => arg[t] = meant[t][First(t)]
    /\ pc[t] = "handler" /\ t \notin released =>
          /\ called[t].handler \in Handler /\ Registered(called[t].handler)
          /\ called[t].data = called[t].handler
    /\ pc[t] # "handler" => called[t] = Empty

ThreadInv(t) == AccessInv(t) /\ SignalInv(t) /\ FlagInv(t) /\ CallInv(t)

AsyncInv == AsyncTypes /\ RecordInv /\ EventsAreSeen /\ \A t \in Thread : ThreadInv(t)
=============================================================================
