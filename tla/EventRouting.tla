---------------------------- MODULE EventRouting ----------------------------
(***************************************************************************)
(* What a local bus promises: an event published on scope S reaches every  *)
(* connector that is subscribed at that moment to S or to a super-scope of *)
(* S, once, in publication order, and reaches nobody else.  Both           *)
(* InprocessBus and SocketSinks implement it.                              *)
(***************************************************************************)
EXTENDS Naturals, Sequences, FiniteSets, ScopeHierarchy

CONSTANTS Connectors, \* in-connectors that may subscribe
          Scopes,     \* scopes in use, a set of sequences of components
          MaxEvents   \* bound on the number of published events

VARIABLES subscribed, \* the connectors that receive events
          scope,      \* the scope each connector listens on
          inbox,      \* the events each connector has not handed on yet
          published   \* the number of events published so far

vars == <<subscribed, scope, inbox, published>>

Init ==
    /\ subscribed = {}
    /\ scope \in [Connectors -> Scopes]
    /\ inbox = [c \in Connectors |-> <<>>]
    /\ published = 0

\* A scope can only be changed while the connector is not subscribed.
Rescope(c, s) ==
    /\ c \notin subscribed
    /\ scope' = [scope EXCEPT ![c] = s]
    /\ UNCHANGED <<subscribed, inbox, published>>

Join(c) ==
    /\ subscribed' = subscribed \cup {c}
    /\ UNCHANGED <<scope, inbox, published>>

Leave(c) ==
    /\ subscribed' = subscribed \ {c}
    /\ UNCHANGED <<scope, inbox, published>>

Publish(s) ==
    /\ published' = published + 1
    /\ inbox' = [c \in Connectors |->
                    IF c \in subscribed /\ Covers(scope[c], s)
                    THEN Append(inbox[c], [id |-> published + 1, scope |-> s])
                    ELSE inbox[c]]
    /\ UNCHANGED <<subscribed, scope>>

Take(c) ==
    /\ inbox[c] # <<>>
    /\ inbox' = [inbox EXCEPT ![c] = Tail(@)]
    /\ UNCHANGED <<subscribed, scope, published>>

Next ==
    \/ \E c \in Connectors : Join(c) \/ Leave(c) \/ Take(c)
    \/ \E c \in Connectors, s \in Scopes : Rescope(c, s)
    \/ \E s \in Scopes : Publish(s)

Spec == Init /\ [][Next]_vars
=============================================================================
