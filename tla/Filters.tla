------------------------------ MODULE Filters -------------------------------
(***************************************************************************)
(* Who wants an event: the filters in rsb/filter/ and the handlers in         *)
(* rsb/Handler.h.  A handler is its methods and the filters that              *)
(* FilteringHandlers have put around it; what it does is up to the program.  *)
(***************************************************************************)
EXTENDS Events

\* The constructors; a ScopeFilter cannot be inverted
ScopeFilter(scope)           == [kind |-> "scope", value |-> scope]
MethodFilter(method, invert) == [kind |-> "method", value |-> method, invert |-> invert]
TypeFilter(type, invert)     == [kind |-> "type", value |-> type, invert |-> invert]
OriginFilter(origin, invert) == [kind |-> "origin", value |-> origin, invert |-> invert]
CauseFilter(cause, invert)   == [kind |-> "cause", value |-> cause, invert |-> invert]

\* match()
ScopeMatch(filter, event)  == IsPrefix(filter.value, event.scope)
MethodMatch(filter, event) == (filter.value = event.method) # filter.invert
TypeMatch(filter, event)   == (filter.value = event.type) # filter.invert
OriginMatch(filter, event) == (filter.value = event.id.sender) # filter.invert
CauseMatch(filter, event)  == (filter.value \in event.causes) # filter.invert

Match(filter, event) ==
    \/ filter.kind = "scope"  /\ ScopeMatch(filter, event)
    \/ filter.kind = "method" /\ MethodMatch(filter, event)
    \/ filter.kind = "type"   /\ TypeMatch(filter, event)
    \/ filter.kind = "origin" /\ OriginMatch(filter, event)
    \/ filter.kind = "cause"  /\ CauseMatch(filter, event)

\* A handler for events with one of some methods, or with any if there is none
Handler(methods) == [methods |-> methods, filters |-> {}]

\* Handler::acceptsMethod
AcceptsMethod(handler, method) == handler.methods = {} \/ method \in handler.methods

\* One that hands on only what a filter matches.  It looks at no method itself,
\* and it does not ask the other one.
FilteringHandler(filter, next) == [Handler({}) EXCEPT !.filters = {filter} \cup next.filters]

\* Does handle() reach the program?
Reaches(handler, event) == \A f \in handler.filters : Match(f, event)
=============================================================================
