---------------------------- MODULE InprocessBus ----------------------------
(***************************************************************************)
(* The in-process transport: rsb/transport/inprocess/Bus.cpp and the       *)
(* life cycle of the connectors registered in it (InConnector.cpp,         *)
(* InPullConnector.cpp, OutConnector.cpp).                                 *)
(*                                                                         *)
(* The bus keeps, for every scope it has met, a list of weak pointers to   *)
(* ALL connectors that must receive an event on that scope.  A list is     *)
(* created from the lists of the super-scopes, and from then on addSink    *)
(* and removeSink keep it up to date.  Each bus method runs under          *)
(* Bus::mutex and is one action; a connector's activate() and deactivate() *)
(* touch the connector before or after the bus call, so they take two      *)
(* steps, with any other thread in between.                                *)
(***************************************************************************)
EXTENDS LocalBus, Functions, ScopeHierarchy

VARIABLES sinks,     \* Bus::sinks: scope -> list of weak pointers
          scope,     \* InConnector::scope
          active,    \* InConnector::active
          call,      \* the step the connector's owner is in
          ref,       \* "held": strong references exist; "expired": the
                     \* count is 0 and the destructor runs, so that lock()
                     \* fails; "freed"
          inbox,     \* InPullConnector::queue, the events received
          published  \* number of events published

vars == <<sinks, scope, active, call, ref, inbox, published>>

Dangling(c) == ref[c] # "held"

\* The connector's entry into and departure from the bus are the addSink and
\* removeSink calls, not the active flag.
Registered(c) == active[c] \/ call[c] \in {"added", "removing"}

SinkLists == Seq(Connectors)
Event == [id : Nat, scope : Scopes]

TypeOK ==
    /\ DOMAIN sinks \subseteq Scopes
    /\ sinks \in [DOMAIN sinks -> SinkLists]
    /\ scope \in [Connectors -> Scopes]
    /\ active \in [Connectors -> BOOLEAN]
    /\ call \in [Connectors -> {"none", "added", "removing"}]
    /\ ref \in [Connectors -> {"held", "expired", "freed"}]
    /\ inbox \in [Connectors -> Seq(Event)]
    /\ published \in 0..MaxEvents

-----------------------------------------------------------------------------
(* Lists of weak pointers *)

\* The connectors in the lists of s and its super-scopes.  The code collects
\* them in a std::set of weak pointers: duplicates vanish and the order is
\* that of the control blocks' addresses, any order.
Inherited(s) ==
    UNION {Range(sinks[t]) : t \in {u \in DOMAIN sinks : Covers(u, s)}}

Orderings(C) ==
    {L \in [1..Cardinality(C) -> C] : IsInjective(L) /\ Range(L) = C}

\* Mutated: an entry created late starts out empty.
WithEntry_inheritsNothing(s) ==
    {[t \in DOMAIN sinks \cup {s} |-> IF t \in DOMAIN sinks THEN sinks[t] ELSE <<>>]}

\* sinks with an entry for s, created from the super-scopes if there is none.
WithEntry(s) ==
    IF s \in DOMAIN sinks
    THEN {sinks}
    ELSE {[t \in DOMAIN sinks \cup {s} |-> IF t = s THEN L ELSE sinks[t]] :
             L \in Orderings(Inherited(s))}

\* removeSink's inner loop: erase the first element that is dangling or is
\* the connector itself, and stop.
EraseFirst(L, c) ==
    LET Hit(i) == Dangling(L[i]) \/ L[i] = c
    IN  IF \E i \in DOMAIN L : Hit(i)
        THEN LET n == CHOOSE i \in DOMAIN L :
                        Hit(i) /\ \A j \in DOMAIN L : Hit(j) => i <= j
             IN  [i \in 1..(Len(L) - 1) |-> IF i < n THEN L[i] ELSE L[i + 1]]
        ELSE L

\* How often an event handed to the list L is handed to c.
Deliveries(L, c) == Cardinality({i \in DOMAIN L : L[i] = c /\ ~Dangling(c)})

-----------------------------------------------------------------------------
Init ==
    /\ sinks = [s \in {} |-> <<>>]
    /\ scope \in [Connectors -> Scopes]
    /\ active = [c \in Connectors |-> FALSE]
    /\ call = [c \in Connectors |-> "none"]
    /\ ref = [c \in Connectors |-> "held"]
    /\ inbox = [c \in Connectors |-> <<>>]
    /\ published = 0

\* The owner runs one call at a time on its connector.
Idle(c) == ref[c] = "held" /\ call[c] = "none"

\* InConnector::setScope
SetScope(c, s) ==
    /\ Idle(c) /\ ~active[c]
    /\ scope' = [scope EXCEPT ![c] = s]
    /\ UNCHANGED <<sinks, active, call, ref, inbox, published>>

\* Mutated: the lists of the sub-scopes are forgotten.
AddSink_ownScopeOnly(c) ==
    /\ Idle(c) /\ ~active[c]
    /\ \E S \in WithEntry(scope[c]) :
          sinks' = [S EXCEPT ![scope[c]] = Append(@, c)]
    /\ call' = [call EXCEPT ![c] = "added"]
    /\ UNCHANGED <<scope, active, ref, inbox, published>>

\* InConnector::activate up to and including Bus::addSink: the list of the
\* connector's own scope, created if necessary, and those of all its
\* sub-scopes get the connector at the end.
AddSink(c) ==
    /\ Idle(c) /\ ~active[c]
    /\ \E S \in WithEntry(scope[c]) :
          sinks' = [t \in DOMAIN S |-> IF t = scope[c] \/ IsSubScopeOf(t, scope[c])
                                       THEN Append(S[t], c) ELSE S[t]]
    /\ call' = [call EXCEPT ![c] = "added"]
    /\ UNCHANGED <<scope, active, ref, inbox, published>>

\* InConnector::activate after addSink has returned
MarkActive(c) ==
    /\ call[c] = "added"
    /\ active' = [active EXCEPT ![c] = TRUE]
    /\ call' = [call EXCEPT ![c] = "none"]
    /\ UNCHANGED <<sinks, scope, ref, inbox, published>>

\* InConnector::deactivate before removeSink
MarkInactive(c) ==
    /\ Idle(c) /\ active[c]
    /\ active' = [active EXCEPT ![c] = FALSE]
    /\ call' = [call EXCEPT ![c] = "removing"]
    /\ UNCHANGED <<sinks, scope, ref, inbox, published>>

\* Bus::removeSink, called from deactivate() or from the destructor: every
\* list loses its first element that is dangling or the connector, and the
\* lists that are empty are dropped.
RemoveSink(c) ==
    /\ call[c] = "removing"
    /\ LET shorter == [s \in DOMAIN sinks |-> EraseFirst(sinks[s], c)]
       IN  sinks' = Restrict(shorter, {s \in DOMAIN sinks : shorter[s] # <<>>})
    /\ call' = [call EXCEPT ![c] = "none"]
    /\ ref' = [ref EXCEPT ![c] = IF @ = "expired" THEN "freed" ELSE @]
    /\ UNCHANGED <<scope, active, inbox, published>>

\* The owner drops the last strong reference; ~InConnector deactivates the
\* connector if it is still active, with the weak pointers already expired.
Release(c) ==
    /\ Idle(c)
    /\ active[c] => ReleaseWhileActive
    /\ ref' = [ref EXCEPT ![c] = IF active[c] THEN "expired" ELSE "freed"]
    /\ call' = [call EXCEPT ![c] = IF active[c] THEN "removing" ELSE "none"]
    /\ active' = [active EXCEPT ![c] = FALSE]
    /\ UNCHANGED <<sinks, scope, inbox, published>>

\* OutConnector::handle and Bus::handle/handleNoLock: look up or create the
\* list of the event's scope and hand the event to every live connector in it.
Publish(s) ==
    /\ published < MaxEvents
    /\ published' = published + 1
    /\ sinks' \in WithEntry(s)
    /\ inbox' = [c \in Connectors |->
                    inbox[c] \o [i \in 1..Deliveries(sinks'[s], c) |->
                                    [id |-> published + 1, scope |-> s]]]
    /\ UNCHANGED <<scope, active, call, ref>>

\* InPullConnector::raiseEvent(false) on a non-empty queue
Take(c) ==
    /\ ref[c] = "held" /\ inbox[c] # <<>>
    /\ inbox' = [inbox EXCEPT ![c] = Tail(@)]
    /\ UNCHANGED <<sinks, scope, active, call, ref, published>>

OwnerStep(c) ==
    \/ AddSink(c) \/ MarkActive(c) \/ MarkInactive(c) \/ RemoveSink(c)
    \/ Release(c) \/ Take(c)
    \/ \E s \in Scopes : SetScope(c, s)

Next == (\E c \in Connectors : OwnerStep(c)) \/ (\E s \in Scopes : Publish(s))

Spec == Init /\ [][Next]_vars

-----------------------------------------------------------------------------
(* Properties *)

\* How the owner's step, the flag and the reference count go together.  A
\* connector whose destructor runs is on its way out of the bus.
LifeCycle ==
    \A c \in Connectors :
        /\ call[c] # "none" => ~active[c]
        /\ ref[c] = "expired" => call[c] = "removing"
        /\ ref[c] = "freed" => ~Registered(c)

\* A connector between addSink and removeSink is in the list of its own scope
\* and of every known sub-scope, so no event for it is lost: whatever other
\* threads add, remove, release or publish (lists created late by the first
\* event on a scope included).
NoSinkLost ==
    \A c \in Connectors : Registered(c) /\ ~Dangling(c) =>
        /\ scope[c] \in DOMAIN sinks
        /\ \A s \in DOMAIN sinks : Covers(scope[c], s) => c \in Range(sinks[s])

\* No connector is in a list twice: one event is one delivery although the
\* code gathers lists from several super-scopes that share connectors.
NoDuplicates == \A s \in DOMAIN sinks : IsInjective(sinks[s])

\* A list holds only connectors that are registered and listen on the scope
\* or a super-scope: nothing is delivered after removeSink has returned, and
\* no dangling pointer stays behind.
NoStaleSink ==
    \A s \in DOMAIN sinks : \A c \in Range(sinks[s]) :
        Registered(c) /\ ~Dangling(c) /\ Covers(scope[c], s)

\* At any point between two critical sections of the bus, every list holds
\* exactly the connectors that are to hear the scope, each once
\* (Bus.cpp, addSink, removeSink and handle).
SinksAreExact == NoSinkLost /\ NoDuplicates /\ NoStaleSink

\* The bus implements the routing contract.
Routing == INSTANCE EventRouting
              WITH subscribed <- {c \in Connectors : Registered(c)}
RoutingSpec == Routing!Spec
=============================================================================
