------------------------------- MODULE Events -------------------------------
(***************************************************************************)
(* Events and their notifications: rsb/Event.cpp, MetaData.cpp, the two ways *)
(* an event becomes a protocol buffer and back (transport/socket/            *)
(* Serialization.cpp and protocol/Notification.cpp).                         *)
(*                                                                         *)
(* A time is unset, the moment of the step, or an earlier moment.  An         *)
(* absent method is the empty one.                                           *)
(***************************************************************************)
EXTENDS Naturals, FiniteSets, SequencesExt

CONSTANT NoId \* the identifier of an event that has none

Unset == 0
Now == 2

Times == {"created", "sent", "received", "delivered"}

\* The parts of an event
IsEventId(id) == id = NoId \/ DOMAIN id = {"sender", "number"}

IsEvent(event) ==
    /\ DOMAIN event = {"id", "scope", "method", "causes", "type", "data", "infos", "times"}
    /\ IsEventId(event.id)
    /\ IsFiniteSet(event.causes) /\ \A cause \in event.causes : IsEventId(cause)
    /\ DOMAIN event.times = Times

NoTimes == [created |-> Unset, sent |-> Unset, received |-> Unset, delivered |-> Unset]

\* MetaData::checkedTimeStampSet: no time means this moment.
Time(proposed) == IF proposed = Unset THEN Now ELSE proposed

\* Event::Event; the creation time is set with the meta data.
NewEvent(id, scope, method, causes, type, data) ==
    [id |-> id, scope |-> scope, method |-> method, causes |-> causes, type |-> type,
     data |-> data, infos |-> <<>>, times |-> [NoTimes EXCEPT !.created = Now]]

\* MetaData::setSendTime, setReceiveTime, setDeliverTime
Stamped(event, time) == [event EXCEPT !.times[time] = Now]

\* MetaData::hasUserInfo, getUserInfo, setUserInfo
HasInfo(event, key) == key \in DOMAIN event.infos
Info(event, key)    == event.infos[key]
WithInfo(event, key, value) ==
    [event EXCEPT !.infos = [k \in DOMAIN @ \cup {key} |-> IF k = key THEN value ELSE @[k]]]

\* The setters of Event
WithId(event, sender, number) == [event EXCEPT !.id = [sender |-> sender, number |-> number]]
WithScope(event, scope)       == [event EXCEPT !.scope = scope]
WithMethod(event, method)     == [event EXCEPT !.method = method]
WithCause(event, id)          == [event EXCEPT !.causes = @ \cup {id}]

\* setType and setData
Converted(event, type, data) == [event EXCEPT !.type = type, !.data = data]

-----------------------------------------------------------------------------
(* transport/socket/Serialization.cpp *)

EventToNotification(event, schema, data) ==
    [id |-> event.id, scope |-> event.scope, method |-> event.method, causes |-> event.causes,
     infos |-> event.infos, schema |-> schema, data |-> data,
     times |-> [NoTimes EXCEPT !.created = event.times.created, !.sent = event.times.sent]]

\* The payload stays encoded, the wire-schema is among the user infos.
NotificationToEvent(n) ==
    WithInfo([id |-> n.id, scope |-> n.scope, method |-> n.method, causes |-> n.causes,
              type |-> "", data |-> n.data, infos |-> n.infos,
              times |-> [NoTimes EXCEPT !.created = Time(n.times.created),
                                        !.sent = Time(n.times.sent), !.received = Now]],
             "rsb.wire-schema", n.schema)

-----------------------------------------------------------------------------
(* protocol/Notification.cpp *)

\* fillNotificationId and fillNotificationHeader
FillNotification(event, schema, data) ==
    [EventToNotification(event, schema, data) EXCEPT !.times = event.times]

FillEvent(n, type, data) ==
    [id |-> n.id, scope |-> n.scope, method |-> n.method, causes |-> n.causes, type |-> type,
     data |-> data, infos |-> n.infos, times |-> [t \in DOMAIN n.times |-> Time(n.times[t])]]
=============================================================================
