--------------------------- MODULE DirectDelivery ---------------------------
(***************************************************************************)
(* The "direct" receiving strategy:                                        *)
(* rsb/eventprocessing/DirectEventReceivingStrategy.cpp.  The thread that   *)
(* brings an event calls the handlers one after the other, holding          *)
(* handlerMutex shared, and addHandler and removeHandler change the list,   *)
(* holding it shared as well: nothing keeps them apart.                    *)
(***************************************************************************)
EXTENDS Naturals, FiniteSets

CONSTANTS Threads,  \* threads on which connectors hand over events
          Handlers, \* handlers of the listener
          MaxEvents \* bound on the number of events

Events == 1..MaxEvents

VARIABLES handlers, \* DirectEventReceivingStrategy::handlers
          event,    \* event[t]: the event t is handing over, or 0
          todo,     \* todo[t]: handlers t has still to call for it
          calling,  \* calling[t]: the handler that t is calling
          pushed    \* number of events so far

vars == <<handlers, event, todo, calling, pushed>>

TypeOK ==
    /\ handlers \subseteq Handlers
    /\ event \in [Threads -> 0..MaxEvents]
    /\ todo \in [Threads -> SUBSET Handlers]
    /\ calling \in [Threads -> SUBSET Handlers]
    /\ pushed \in 0..MaxEvents

Init ==
    /\ handlers = {}
    /\ event = [t \in Threads |-> 0]
    /\ todo = [t \in Threads |-> {}]
    /\ calling = [t \in Threads |-> {}]
    /\ pushed = 0

\* addHandler
AddHandler(h) ==
    /\ h \notin handlers
    /\ handlers' = handlers \cup {h}
    /\ UNCHANGED <<event, todo, calling, pushed>>

\* removeHandler, whose argument wait is ignored.  A thread that has not yet
\* reached the handler does not find it any more.  (One that stands on the
\* list node being erased goes on from freed memory, which is not modelled.)
RemoveHandler(h) ==
    /\ h \in handlers
    /\ handlers' = handlers \ {h}
    /\ todo' = [t \in Threads |-> todo[t] \ {h}]
    /\ UNCHANGED <<event, calling, pushed>>

\* handle: the filters accept the event and the loop over the handlers begins
Handle(t) ==
    /\ event[t] = 0 /\ pushed < MaxEvents
    /\ pushed' = pushed + 1
    /\ event' = [event EXCEPT ![t] = pushed + 1]
    /\ todo' = [todo EXCEPT ![t] = handlers]
    /\ UNCHANGED <<handlers, calling>>

Deliver(t, h) ==
    /\ calling[t] = {} /\ h \in todo[t]
    /\ calling' = [calling EXCEPT ![t] = {h}]
    /\ todo' = [todo EXCEPT ![t] = @ \ {h}]
    /\ UNCHANGED <<handlers, event, pushed>>

\* The handler returns, or throws and the exception is logged.
Return(t) ==
    /\ calling[t] # {}
    /\ calling' = [calling EXCEPT ![t] = {}]
    /\ UNCHANGED <<handlers, event, todo, pushed>>

Done(t) ==
    /\ event[t] # 0 /\ todo[t] = {} /\ calling[t] = {}
    /\ event' = [event EXCEPT ![t] = 0]
    /\ UNCHANGED <<handlers, todo, calling, pushed>>

Next ==
    \/ \E h \in Handlers : AddHandler(h) \/ RemoveHandler(h)
    \/ \E t \in Threads : Handle(t) \/ Return(t) \/ Done(t)
    \/ \E t \in Threads, h \in Handlers : Deliver(t, h)

Spec == Init /\ [][Next]_vars

-----------------------------------------------------------------------------
\* The contract of removeHandler: it returns "only after the handler has been
\* completely removed from the event processing and will not be called anymore"
\* (Listener.h:139).
Contract == INSTANCE HandlerContract
               WITH installed <- handlers,
                    calls <- UNION {calling[t] \X {event[t]} : t \in Threads}
ContractSpec == Contract!Spec
=============================================================================
