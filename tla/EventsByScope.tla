---------------------------- MODULE EventsByScope ----------------------------
(***************************************************************************)
(* The converter of a collection of events, sorted by scope, to one payload  *)
(* and back: rsb/converter/EventsByScopeMapConverter.cpp.  Each event goes   *)
(* through a converter of its own and a notification of its own.  Reader and  *)
(* writer have the same converters, no two for a type or a wire-schema.      *)
(***************************************************************************)
EXTENDS Converters, Events

CONSTANTS Collections,  \* the collections to consider, functions from scopes
          Repositories  \* the sets of converters to consider

ASSUME CollectionsAssumption ==
    \A c \in Collections : \A scope \in DOMAIN c :
        /\ c[scope] \in Seq(Range(c[scope]))
        /\ \A e \in Range(c[scope]) : IsEvent(e)

ASSUME RepositoriesAssumption == \A repository \in Repositories : Unambiguous(repository)

ASSUME PayloadsAssumption ==
    \A c \in Collections : \A scope \in DOMAIN c : \A e \in Range(c[scope]) :
        e.type \in {s[Type] : s \in UNION Repositories} /\ Serializable(e.type) => Kept(e.type, e.data)

VARIABLES collection, \* the EventsByScopeMap that is serialized
          phase,      \* "encoding", "decoding", "done", "failed"
          converters, \* what the converter looks its converters up in
          left,       \* the scopes that are still to be encoded
          sets,       \* protocol::collections::EventsByScopeMap
          result      \* the EventsByScopeMap that is read back

mapVars == <<collection, phase, converters, left, sets, result>>

MapInit ==
    /\ collection \in Collections
    /\ converters \in Repositories
    /\ phase = "encoding" /\ left = DOMAIN collection
    /\ sets = <<>> /\ result = <<>>

Encoders == ConvertersFor(converters, {}, Type)
Decoders == ConvertersFor(converters, {}, Wire)

Encodable(event) ==
    event.type \in DOMAIN Encoders /\ Serializable(event.type) /\ event.id # NoId

\* An event with the converter for its type, and back with the one for its schema
NotificationOf(e) == FillNotification(e, Encoders[e.type][Wire], Serialize(e.type, e.data))
EventOf(n) ==
    LET type == Decoders[n.schema][Type] IN FillEvent(n, type, Deserialize(type, n.data))

\* A scope's events, one after the other
EncodeScope(scope) ==
    /\ phase = "encoding" /\ scope \in left
    /\ \A i \in DOMAIN collection[scope] : Encodable(collection[scope][i])
    /\ sets' = Append(sets, [scope |-> scope, notifications |->
                  [i \in DOMAIN collection[scope] |-> NotificationOf(collection[scope][i])]])
    /\ left' = left \ {scope}
    /\ UNCHANGED <<collection, phase, converters, result>>

\* No converter, or no identifier: the exception reaches whoever publishes.
EncodeFails(scope) ==
    /\ phase = "encoding" /\ scope \in left
    /\ \E i \in DOMAIN collection[scope] : ~Encodable(collection[scope][i])
    /\ phase' = "failed"
    /\ UNCHANGED <<collection, converters, left, sets, result>>

Send ==
    /\ phase = "encoding" /\ left = {}
    /\ phase' = "decoding"
    /\ UNCHANGED <<collection, converters, left, sets, result>>

\* The events of a set, under its scope
AddSet(map, set) ==
    [scope \in DOMAIN map \cup {set.scope} |->
        IF scope = set.scope THEN [i \in DOMAIN set.notifications |-> EventOf(set.notifications[i])]
        ELSE map[scope]]

\* Mutated: the list of a scope is made before there is an event for it.
DecodeScope_keepsEmpty ==
    /\ phase = "decoding" /\ sets # <<>>
    /\ result' = AddSet(result, Head(sets))
    /\ sets' = Tail(sets)
    /\ UNCHANGED <<collection, phase, converters, left>>

\* A scope appears in the result with its first event.
DecodeScope ==
    /\ phase = "decoding" /\ sets # <<>>
    /\ result' = IF Head(sets).notifications = <<>> THEN result ELSE AddSet(result, Head(sets))
    /\ sets' = Tail(sets)
    /\ UNCHANGED <<collection, phase, converters, left>>

Return ==
    /\ phase = "decoding" /\ sets = <<>>
    /\ phase' = "done"
    /\ UNCHANGED <<collection, converters, left, sets, result>>

MapNext ==
    \/ \E scope \in left : EncodeScope(scope) \/ EncodeFails(scope)
    \/ Send \/ DecodeScope \/ Return

MapSpec == MapInit /\ [][MapNext]_mapVars

-----------------------------------------------------------------------------
(* Properties *)

\* What is read back is what was written, all that an event carries with it
\* included, but that scopes without events are gone and that a time nobody had
\* set is the time of reading (EventsByScopeMapConverter.cpp:75, MetaData.cpp:80).
CollectionSurvives ==
    phase = "done" =>
        result = [scope \in {s \in DOMAIN collection : collection[s] # <<>>} |->
                     [i \in DOMAIN collection[scope] |->
                         LET e == collection[scope][i]
                         IN  [e EXCEPT !.times = [t \in DOMAIN @ |-> IF @[t] = Unset THEN Now ELSE @[t]]]]]
==============================================================================
