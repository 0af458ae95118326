----------------------------- MODULE SocketSinks -----------------------------
(***************************************************************************)
(* How the socket transport routes events to the connectors of its own     *)
(* process: the sinks of rsb/transport/socket/BusImpl.cpp, kept in a        *)
(* WeakScopeDispatcher (eventprocessing/ScopeDispatcher.h), and the life    *)
(* cycle of the connectors (ConnectorBase.cpp, InConnector.cpp).            *)
(*                                                                         *)
(* Unlike the in-process bus, this one keeps a connector only under its own *)
(* scope and collects the super-scopes' lists anew for every event.  The    *)
(* bus methods run under BusImpl::connectorLock.  addSink and removeSink    *)
(* are one action each.  A dispatch is one step for every entry it visits:  *)
(* owners drop references without the lock, and mapSinks makes a strong one *)
(* of each weak pointer for as long as the connector handles the event.     *)
(* activate() and deactivate() change the connector outside the lock.  One  *)
(* bus is modelled, the one all connectors get from the factory.            *)
(*                                                                         *)
(* Some owners may drop a connector that is active, which no participant    *)
(* does but the connector's destructor provides for.  If the dispatch has   *)
(* the last reference then, the destructor runs inside the loop and takes   *)
(* the list's node from under the iterator; the behaviour is undefined from *)
(* there on and the model stops.  Handlers that call back into the bus from *)
(* within a dispatch are left out.                                          *)
(*                                                                         *)
(* A list is kept as the number of times each connector is in it: what     *)
(* addSink, removeSink and mapSinks do does not depend on its order.        *)
(***************************************************************************)
EXTENDS LocalBus, Functions, ScopeHierarchy

CONSTANT Careless \* the connectors whose owners may drop them while active

ASSUME CarelessAssumption == Careless \subseteq Connectors

VARIABLES socketSinks,    \* ScopeDispatcher::sinks: scope -> weak pointers, counted
          socketScope,    \* ConnectorBase::scope
          socketActive,   \* ConnectorBase::active
          hasBus,         \* is ConnectorBase::bus set?
          socketCall,     \* the step the connector's owner is in
          socketRef,      \* "held" by the owner, "lent" to a dispatch only,
                          \* "expired" while the destructor runs, "freed"
          socketInbox,    \* the events each connector has received
          socketPublished,\* number of events dispatched
          visits,         \* what the dispatch under way has still to hand to whom
          visited,        \* the connector mapSinks has a strong reference to
          undefined       \* has a dispatch gone on from a node that was erased?

connectorVars == <<socketScope, socketActive, hasBus, socketCall, socketRef>>
dispatchVars == <<visits, visited, undefined>>
eventVars == <<socketInbox, socketPublished, dispatchVars>>
socketVars == <<socketSinks, connectorVars, eventVars>>

\* Does weak_ptr::lock() fail?
SocketExpired(c) == socketRef[c] \in {"expired", "freed"}

\* A dispatch has BusImpl::connectorLock from its first visit to its last.
Dispatching == visited # {} \/ \E c \in Connectors : visits[c] # <<>>

SocketSinkLists == [Connectors -> Nat]
NoSinks == [c \in Connectors |-> 0]

SocketEvent == [id : Nat, scope : Scopes]
Calls == {"none", "joining", "removing", "leaving", "thrown"}
References == {"held", "lent", "expired", "freed"}

SocketTypeOK ==
    /\ DOMAIN socketSinks \subseteq Scopes
    /\ socketSinks \in [DOMAIN socketSinks -> SocketSinkLists]
    /\ socketScope \in [Connectors -> Scopes]
    /\ socketActive \in [Connectors -> BOOLEAN]
    /\ hasBus \in [Connectors -> BOOLEAN]
    /\ socketCall \in [Connectors -> Calls]
    /\ socketRef \in [Connectors -> References]
    /\ socketInbox \in [Connectors -> Seq(SocketEvent)]
    /\ socketPublished \in 0..MaxEvents
    /\ visits \in [Connectors -> Seq(SocketEvent)]
    /\ visited \subseteq Connectors
    /\ undefined \in BOOLEAN

SocketInit ==
    /\ socketSinks = [s \in {} |-> <<>>]
    /\ socketScope \in [Connectors -> Scopes]
    /\ socketActive = [c \in Connectors |-> FALSE]
    /\ hasBus = [c \in Connectors |-> FALSE]
    /\ socketCall = [c \in Connectors |-> "none"]
    /\ socketRef = [c \in Connectors |-> "held"]
    /\ socketInbox = [c \in Connectors |-> <<>>]
    /\ socketPublished = 0
    /\ visits = [c \in Connectors |-> <<>>]
    /\ visited = {}
    /\ undefined = FALSE

-----------------------------------------------------------------------------
(* The owner of a connector, one call at a time *)

SocketIdle(c) == socketRef[c] = "held" /\ socketCall[c] = "none"

\* ConnectorBase::setScope, which throws while active
SocketSetScope(c, s) ==
    /\ SocketIdle(c) /\ ~socketActive[c]
    /\ socketScope' = [socketScope EXCEPT ![c] = s]
    /\ UNCHANGED <<socketSinks, socketActive, hasBus, socketCall, socketRef, eventVars>>

\* InConnector::activate, first ConnectorBase::activate: get the bus and set
\* the flag
TakeBus(c) ==
    /\ SocketIdle(c) /\ ~socketActive[c]
    /\ hasBus' = [hasBus EXCEPT ![c] = TRUE]
    /\ socketActive' = [socketActive EXCEPT ![c] = TRUE]
    /\ socketCall' = [socketCall EXCEPT ![c] = "joining"]
    /\ UNCHANGED <<socketSinks, socketScope, socketRef, eventVars>>

\* std::map's operator[] creates the list of a scope that has none.
SinksOf(s) == IF s \in DOMAIN socketSinks THEN socketSinks[s] ELSE NoSinks

\* BusImpl::addSink: the connector enters the list of its scope once more.
SocketAddSink(c) ==
    /\ socketCall[c] = "joining" /\ ~Dispatching
    /\ socketSinks' = [s \in DOMAIN socketSinks \cup {socketScope[c]} |->
                          IF s # socketScope[c] THEN socketSinks[s]
                          ELSE [SinksOf(s) EXCEPT ![c] = @ + 1]]
    /\ socketCall' = [socketCall EXCEPT ![c] = "none"]
    /\ UNCHANGED <<socketScope, socketActive, hasBus, socketRef, eventVars>>

\* InConnector::deactivate, called by the owner: it goes on to removeSink
\* with the connector unchanged.
BeginDeactivate(c) ==
    /\ SocketIdle(c) /\ socketActive[c]
    /\ socketCall' = [socketCall EXCEPT ![c] = "removing"]
    /\ UNCHANGED <<socketSinks, socketScope, socketActive, hasBus, socketRef, eventVars>>

\* The owner drops its reference, under no lock.  If it is the last one,
\* ~InConnector deactivates a connector that is still active; its weak pointers
\* have expired by then.
SocketRelease(c) ==
    /\ SocketIdle(c)
    /\ socketActive[c] => c \in Careless
    /\ socketRef' = [socketRef EXCEPT ![c] = IF c \in visited THEN "lent"
                                             ELSE IF socketActive[c] THEN "expired" ELSE "freed"]
    /\ socketCall' = [socketCall EXCEPT ![c] = IF socketActive[c] /\ c \notin visited
                                               THEN "removing" ELSE "none"]
    /\ UNCHANGED <<socketSinks, socketScope, socketActive, hasBus, eventVars>>

\* Mutated: erase stops at the first hit, as the in-process bus does it.
Swept_first(L, c) ==
    LET hit == {d \in Connectors : L[d] > 0 /\ (SocketExpired(d) \/ d = c)}
    IN  IF hit = {} THEN L ELSE [L EXCEPT ![CHOOSE d \in hit : TRUE] = @ - 1]

\* WeakScopeDispatcher::removeSink's loop: dangling pointers and the connector
\* itself are erased, wherever they are.
Swept(L, c) == [d \in Connectors |-> IF SocketExpired(d) \/ d = c THEN 0 ELSE L[d]]

\* BusImpl::removeSink.  An empty list is dropped from the map.
SocketRemoveSink(c) ==
    /\ socketCall[c] = "removing" /\ ~Dispatching
    /\ socketScope[c] \in DOMAIN socketSinks
    /\ LET s == socketScope[c]
           rest == Swept(socketSinks[s], c)
       IN  socketSinks' = IF rest = NoSinks THEN Restrict(socketSinks, DOMAIN socketSinks \ {s})
                          ELSE [socketSinks EXCEPT ![s] = rest]
    /\ socketCall' = [socketCall EXCEPT ![c] = "leaving"]
    /\ UNCHANGED <<socketScope, socketActive, hasBus, socketRef, eventVars>>

\* BusImpl::removeSink finds no list for the scope: std::logic_error.  Out of
\* a destructor it ends the process.
FailToRemove(c) ==
    /\ socketCall[c] = "removing" /\ ~Dispatching
    /\ socketScope[c] \notin DOMAIN socketSinks
    /\ socketCall' = [socketCall EXCEPT ![c] = "thrown"]
    /\ UNCHANGED <<socketSinks, socketScope, socketActive, hasBus, socketRef, eventVars>>

\* ConnectorBase::deactivate: reset the flag and the pointer to the bus
DropBus(c) ==
    /\ socketCall[c] = "leaving"
    /\ socketActive' = [socketActive EXCEPT ![c] = FALSE]
    /\ hasBus' = [hasBus EXCEPT ![c] = FALSE]
    /\ socketCall' = [socketCall EXCEPT ![c] = "none"]
    /\ socketRef' = [socketRef EXCEPT ![c] = IF @ = "expired" THEN "freed" ELSE @]
    /\ UNCHANGED <<socketSinks, socketScope, eventVars>>

-----------------------------------------------------------------------------
(* The bus *)

\* Mutated: the event's own scope is left out, superScopes(false).
Heard_strict(s) == {SuperScopes(s)[i] : i \in 1..Len(s)}

\* The scopes whose lists mapSinks goes through
Heard(s) == Range(SuperScopes(s))

\* How many entries for c mapSinks goes through for an event on s
SocketDeliveries(s, c) ==
    Cardinality(UNION {{t} \X (1..socketSinks[t][c]) : t \in Heard(s) \cap DOMAIN socketSinks})

\* BusImpl::handle for an event of this process, handleIncoming for one that a
\* connection has received: take connectorLock and call mapSinks.
Dispatch(s) ==
    /\ ~Dispatching /\ socketPublished < MaxEvents
    /\ socketPublished' = socketPublished + 1
    /\ visits' = [c \in Connectors |-> [i \in 1..SocketDeliveries(s, c) |->
                                           [id |-> socketPublished + 1, scope |-> s]]]
    /\ UNCHANGED <<socketSinks, connectorVars, socketInbox, visited, undefined>>

\* WeakScopeDispatcher::mapSinks at one entry: the weak pointer gives a strong
\* reference and the connector handles the event: it decodes it and queues it,
\* or pushes it on to its handlers.
Visit(c) ==
    /\ visited = {} /\ visits[c] # <<>> /\ ~SocketExpired(c)
    /\ socketInbox' = [socketInbox EXCEPT ![c] = Append(@, Head(visits[c]))]
    /\ visits' = [visits EXCEPT ![c] = Tail(@)]
    /\ visited' = {c}
    /\ UNCHANGED <<socketSinks, connectorVars, socketPublished, undefined>>

\* The same at an entry that is dangling
PassOver(c) ==
    /\ visited = {} /\ visits[c] # <<>> /\ SocketExpired(c)
    /\ visits' = [visits EXCEPT ![c] = Tail(@)]
    /\ UNCHANGED <<socketSinks, connectorVars, socketInbox, socketPublished, visited, undefined>>

\* The strong reference goes at the end of the loop's body.  If it is the last
\* one, ~InConnector and removeSink run here, under the recursive lock, and
\* erase the entry: the loop goes on from a node that is gone.
LetGo(c) ==
    /\ c \in visited
    /\ visited' = {}
    /\ undefined' = (socketRef[c] = "lent")
    /\ UNCHANGED <<socketSinks, connectorVars, socketInbox, socketPublished, visits>>

\* InPullConnector::raiseEvent(false) on a non-empty queue
SocketTake(c) ==
    /\ socketRef[c] = "held" /\ socketInbox[c] # <<>>
    /\ socketInbox' = [socketInbox EXCEPT ![c] = Tail(@)]
    /\ UNCHANGED <<socketSinks, connectorVars, socketPublished, dispatchVars>>

SocketOwnerStep(c) ==
    \/ TakeBus(c) \/ SocketAddSink(c)
    \/ BeginDeactivate(c) \/ SocketRemoveSink(c) \/ FailToRemove(c) \/ DropBus(c)
    \/ SocketRelease(c) \/ SocketTake(c)
    \/ \E s \in Scopes : SocketSetScope(c, s)

BusStep ==
    \/ \E s \in Scopes : Dispatch(s)
    \/ \E c \in Connectors : Visit(c) \/ PassOver(c) \/ LetGo(c)

SocketNext == ~undefined /\ (BusStep \/ \E c \in Connectors : SocketOwnerStep(c))

SocketSpec == SocketInit /\ [][SocketNext]_socketVars

-----------------------------------------------------------------------------
(* Properties *)

\* Is the connector in the list of the scope?
Listed(s, c) == s \in DOMAIN socketSinks /\ socketSinks[s][c] > 0

\* Between addSink and removeSink the bus has the connector.
Subscribed(c) == socketActive[c] /\ socketCall[c] \in {"none", "removing"}

\* A list holds exactly the connectors that are subscribed to its scope,
\* except that one being destroyed may already have been swept out by another
\* one's removeSink.
SinksMatchConnectors ==
    /\ \A s \in DOMAIN socketSinks, c \in Connectors :
          Listed(s, c) => Subscribed(c) /\ socketScope[c] = s
    /\ \A c \in Connectors : Subscribed(c) /\ ~SocketExpired(c) => Listed(socketScope[c], c)

\* A connector that a dispatch has still to visit is active: handle()'s
\* exception "Cannot handle events when not active" is never raised on the
\* dispatching thread, whatever the connector's owner does meanwhile.
HandlersAreActive ==
    \A c \in Connectors : visits[c] # <<>> /\ ~SocketExpired(c) => socketActive[c]

\* When the last connector has let go of the bus, so that it is destructed,
\* no scope is left ("Sinks should be empty", BusImpl.cpp:56).
SinksAreEmpty ==
    (\A c \in Connectors : ~hasBus[c]) => DOMAIN socketSinks = {}

\* removeSink's exception never reaches an owner that deactivates, whatever
\* others have swept: it can only come out of the destructor of a connector that
\* was released while active (ScopeDispatcher.h:161, InConnector.cpp:56).
OwnersAreSpared == \A c \in Connectors : socketCall[c] = "thrown" => socketRef[c] = "expired"

\* Owners that deactivate before they release never take a node from under a
\* dispatch (ScopeDispatcher.h:192).
OnlyTheCarelessBreak == undefined => \E c \in Careless : socketRef[c] = "lent"

\* Whatever the order in which connectors come and go, the dispatcher's lists,
\* the connectors' flags and the life of the bus fit together, dispatches under
\* way included, as long as none has lost its place to a connector dropped while
\* active (BusImpl.cpp:138, ScopeDispatcher.h:159).
SinksAreSound ==
    /\ OnlyTheCarelessBreak
    /\ ~undefined =>
          SinksMatchConnectors /\ HandlersAreActive /\ SinksAreEmpty /\ OwnersAreSpared

\* The bus implements the routing contract towards every connector whose owner
\* deactivates it before dropping it, whatever happens to the others.
Careful == Connectors \ Careless
SocketRouting ==
    INSTANCE EventRouting
        WITH Connectors <- Careful,
             subscribed <- {c \in Careful : Subscribed(c)},
             scope <- [c \in Careful |-> socketScope[c]],
             inbox <- [c \in Careful |-> socketInbox[c] \o visits[c]],
             published <- socketPublished
SocketRoutingSpec == SocketRouting!Spec
=============================================================================
