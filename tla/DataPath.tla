------------------------------ MODULE DataPath ------------------------------
(***************************************************************************)
(* An event on its way from an informer to the handlers of two listeners,    *)
(* one in the same process and one in a peer: how the factory gives          *)
(* participants their connectors (rsb/Factory.cpp), what publish() refuses   *)
(* (rsb/Informer.cpp), and what the connectors of both transports do with    *)
(* the event object and its payload (transport/inprocess, transport/socket). *)
(*                                                                         *)
(* The peer is another process of the same program with the same             *)
(* configuration.  Sending by a transport is one step, handlers run in       *)
(* between.  Who gets an event for its scope is the subject of other modules *)
(* (EventRouting): here the listeners are on the root scope.  They have the  *)
(* parallel strategy.  What the connectors of plugins do is left out.        *)
(***************************************************************************)
EXTENDS Configuration, Converters, Filters

CONSTANTS Informers,  \* the informers that may be made: scope and type
          Sendable,   \* what may be published: scope, method, causes, type, data
          Wishes,     \* what listeners may have: filters, a handler, and a list
                      \* of converters of their own, if that is not empty
          MaxEvents,
          NoOne

Registrable == DefaultConverters \cup OtherConverters
Schemas == {s[Wire] : s \in Registrable}

\* No plugin's transport has the name of the socket transport.
ASSUME NamesAssumption == \A p \in Plugins : p.name # "socket"

\* The names of types include those that options give (ParticipantConfig.cpp:106).
ASSUME TypeNamesAssumption ==
    /\ TypeNames \in Seq(Range(TypeNames))
    /\ \A o \in Options : Len(o.key) = 5 => o.value \in Range(TypeNames)

\* The wire-schema of truth values is theirs alone: the converter refuses what
\* another one has written (BoolConverter.cpp:62).
ASSUME BoolsAssumption ==
    \A s, t \in Registrable : s[Type] = "bool" /\ s[Wire] = t[Wire] => s = t

\* What is published, its converter keeps.
ASSUME SendableAssumption ==
    \A e \in Sendable :
        e.type \in {s[Type] : s \in Registrable} /\ Serializable(e.type) => Kept(e.type, e.data)

\* A list of converters has one for everything, and each takes the bytes as they
\* are, or is for a wire-schema that no other type has.
ASSUME WishesAssumption ==
    \A wish \in Wishes : wish.converters # <<>> =>
        /\ wish.converters \in Seq(Range(wish.converters))
        /\ Schemas \subseteq UNION {w.predicate : w \in Range(wish.converters)}
        /\ \A w \in Range(wish.converters) :
              \/ w.converter[Type] = "bytearray"
              \/ \A s \in Registrable : s[Wire] \in w.predicate => s = w.converter

VARIABLES informer,  \* its type and its out connectors
          listeners, \* "local" and "peer": listeners with their wishes, or readers,
                     \* and their in connectors
          heap,      \* the event objects of both processes
          todo,      \* the transports the current event has yet to be sent by
          wire,      \* notifications on their way to the peer
          queue,     \* per listener: events that wait for its handler
          peerUp,    \* does the peer's process live?
          published, \* events as they were when publish() began (history)
          heard,     \* what the handlers got (history)
          failures   \* conversions that failed (history)

dataVars == <<informer, listeners, heap, todo, wire, queue, peerUp, published, heard, failures>>
histories == <<published, heard, failures>>

Listeners == {"local", "peer"}

\* A reader has no filters, and no handler.
NoWish == [filters |-> {}, handler |-> Handler({}), converters |-> <<>>]

\* registerDefaultEventProcessingStrategies
ReceivingStrategies == {"direct", "parallel"}

\* What the connectors for a direction look their converters up by
Key(direction) == IF direction = "out" THEN Type ELSE Wire

Named(t) == IF t \in DOMAIN config.transports THEN config.transports[t].converters ELSE {}

DataInit ==
    /\ ConfigInit
    /\ informer = NoOne /\ listeners = [l \in Listeners |-> NoOne]
    /\ heap = <<>> /\ todo = <<>> /\ wire = <<>>
    /\ queue = [l \in Listeners |-> <<>>] /\ peerUp = TRUE
    /\ published = <<>> /\ heard = {} /\ failures = {}

-----------------------------------------------------------------------------
(* Participants *)

\* createOutConnectors, createInPushConnectors and createInPullConnectors end
\* without an exception, and so does the creation of a listener's strategy.
\* Informers send directly, whatever strategy is configured.  A list of
\* converters that the program has set as an option keeps the repository out.
Creatable(direction, list) ==
    /\ direction = "in-push" => config.receivingstrategy \in ReceivingStrategies
    /\ \A t \in EnabledTransports :
          /\ t \in DOMAIN registry /\ direction \in registry[t].directions
          /\ IsRemote(t) /\ list = <<>> => ~Refused(repository, Named(t), Key(direction))

\* OutConnector::create, InPushConnector::create and InPullConnector::create of
\* the socket transport: a connector keeps the converters it was made with.
OutConverters(t)          == ConvertersFor(repository, Named(t), Type)
InPullConverters(t)       == ConvertersFor(repository, Named(t), Wire)
InPushConverters(t, list) == IF list = <<>> THEN ConvertersFor(repository, Named(t), Wire)
                             ELSE PredicateConverterList(list, Schemas)

ConnectorsFor(direction, list) ==
    [t \in EnabledTransports |->
        CASE ~IsRemote(t)             -> <<>>
          [] direction = "out"        -> OutConverters(t)
          [] direction = "in-pull"    -> InPullConverters(t)
          [] OTHER                    -> InPushConverters(t, list)]

\* createInformerBase: an informer for a type, or, without one, for any.  The
\* list of connectors is made before the informer.
CreateInformerBase(i) ==
    /\ stage = "ready" /\ informer = NoOne
    /\ Creatable("out", <<>>)
    /\ informer' = [scope |-> i.scope, type |-> i.type, connectors |-> ConnectorsFor("out", <<>>),
                    known |-> repository, named |-> Named("socket")]
    /\ UNCHANGED <<configVars, listeners, heap, todo, wire, queue, peerUp, histories>>

\* createInformer, whose type is the name of a C++ type
CreateInformer(i) == i.type # "" /\ CreateInformerBase(i)

MakeReceiver(l, direction, wish) ==
    /\ stage = "ready" /\ listeners[l] = NoOne /\ (l = "peer" => peerUp)
    /\ Creatable(direction, wish.converters)
    /\ listeners' = [listeners EXCEPT ![l] =
           [direction |-> direction, wish |-> wish, known |-> repository, named |-> Named("socket"),
            connectors |-> ConnectorsFor(direction, wish.converters)]]
    /\ UNCHANGED <<configVars, informer, heap, todo, wire, queue, peerUp, histories>>

CreateListener(l, wish) == MakeReceiver(l, "in-push", wish)

CreateReader(l) == MakeReceiver(l, "in-pull", NoWish)

Hears(l, transport) == listeners[l] # NoOne /\ transport \in DOMAIN listeners[l].connectors

-----------------------------------------------------------------------------
(* Publishing *)

\* A sequence, or nothing
If(condition, sequence) == IF condition THEN sequence ELSE <<>>

\* checkedPublish
Publishable(e) ==
    /\ e.type # ""
    /\ informer.type \in {"", e.type}
    /\ IsPrefix(informer.scope, e.scope)

\* uncheckedPublish() numbers the event and sends it by the transports in the
\* order of their names.
UncheckedPublish(e) ==
    /\ informer # NoOne /\ todo = <<>> /\ Len(published) < MaxEvents
    /\ LET event == WithId(NewEvent(NoId, e.scope, e.method, e.causes, e.type, e.data),
                           "informer", Len(published))
       IN  heap' = Append(heap, event) /\ published' = Append(published, event)
    /\ todo' = If("inprocess" \in DOMAIN informer.connectors, <<"inprocess">>)
                  \o If("socket" \in DOMAIN informer.connectors, <<"socket">>)
    /\ UNCHANGED <<configVars, informer, listeners, wire, queue, peerUp, heard, failures>>

CheckedPublish(e) == informer # NoOne /\ Publishable(e) /\ UncheckedPublish(e)

\* createEvent(), and publish() of mere data: the event is on the informer's scope.
CreateEvent(data, type) ==
    [scope |-> informer.scope, method |-> "", causes |-> {}, type |-> type, data |-> data]

PublishData(data, type) == informer # NoOne /\ CheckedPublish(CreateEvent(data, type))

UncheckedPublishData(data, type) == informer # NoOne /\ UncheckedPublish(CreateEvent(data, type))

\* Informer<T>::publish, for data of that type
PublishTyped(data, type) == informer # NoOne /\ informer.type = type /\ PublishData(data, informer.type)

\* The object that publish() works on
Ours == CHOOSE i \in DOMAIN heap : heap[i].id.number = Len(published) - 1
                                      /\ \A j \in 1..(i - 1) : heap[j].id # heap[i].id

\* The strategy of a listener, or the connector of a reader, queues a reference.
Queued(l, ref) == [queue EXCEPT ![l] = Append(@, ref)]

\* The connector of a receiver stamps the event, and so does a listener's strategy.
Arrived(l, event) ==
    LET received == Stamped(event, "received")
    IN  IF listeners[l].direction = "in-push" THEN Stamped(received, "delivered") ELSE received

\* OutConnector::handle and handle() of the in connectors of the in-process
\* transport: the receiver gets the informer's object.
SendInprocess ==
    /\ todo # <<>> /\ Head(todo) = "inprocess"
    /\ todo' = Tail(todo)
    /\ LET sent == Stamped(heap[Ours], "sent")
       IN  IF Hears("local", "inprocess")
           THEN /\ heap' = [heap EXCEPT ![Ours] = Arrived("local", sent)]
                /\ queue' = Queued("local", Ours)
           ELSE heap' = [heap EXCEPT ![Ours] = sent] /\ UNCHANGED queue
    /\ UNCHANGED <<configVars, informer, listeners, wire, peerUp, histories>>

Failure(participant, k, key) ==
    [known |-> participant.known, named |-> participant.named, k |-> k, key |-> key]

\* The converter a connector finds for a key, and whether it finds one
Finds(participant, key) == key \in DOMAIN participant.connectors["socket"]
Found(participant, key) == participant.connectors["socket"][key]

\* Can it be sent, can it be received?
CanSend(type)         == Finds(informer, type) /\ Serializable(type)
CanReceive(l, schema, data) ==
    Finds(listeners[l], schema) /\ Deserializable(Found(listeners[l], schema)[Type], data)

\* Mutated: the payload stays as it came.
Received_encoded(l, event) ==
    LET type == Found(listeners[l], Info(event, "rsb.wire-schema"))[Type]
    IN  Arrived(l, Converted(event, type, event.data))

\* handle() of the in connectors of the socket transport: the receiver's own copy
Received(l, event) ==
    LET schema == Info(event, "rsb.wire-schema")
        type   == Found(listeners[l], schema)[Type]
    IN  Arrived(l, Converted(event, type, Deserialize(type, event.data)))

\* The bus event, with the wire-schema and the encoded payload
Encoded(event) ==
    LET schema == Found(informer, event.type)[Wire]
    IN  WithInfo([event EXCEPT !.data = Serialize(event.type, @)], "rsb.wire-schema", schema)

\* Without a converter publish() throws; so it does, and the peer goes without
\* the event, when the local receiver has none.
SendFails ==
    /\ todo # <<>> /\ Head(todo) = "socket"
    /\ LET event  == heap[Ours]
           schema == Found(informer, event.type)[Wire]
       IN  \/ ~CanSend(event.type)
              /\ failures' = failures \cup {Failure(informer, Type, event.type)}
           \/ /\ CanSend(event.type) /\ Hears("local", "socket")
              /\ ~CanReceive("local", schema, Serialize(event.type, event.data))
              /\ failures' = failures \cup {Failure(listeners["local"], Wire, schema)}
    /\ heap' = [heap EXCEPT ![Ours] = Stamped(@, "sent")]
    /\ todo' = <<>>
    /\ UNCHANGED <<configVars, informer, listeners, wire, queue, peerUp, published, heard>>

\* BusConnection::sendEvent, while there is a connection
Transmitted(notification) == IF peerUp THEN Append(wire, notification) ELSE wire

Sends(bus, original) ==
    LET schema == Info(bus, "rsb.wire-schema") IN
    /\ Hears("local", "socket") => CanReceive("local", schema, bus.data)
    /\ IF Hears("local", "socket")
       THEN /\ heap' = Append([heap EXCEPT ![Ours] = original], Received("local", bus))
            /\ queue' = Queued("local", Len(heap) + 1)
       ELSE heap' = [heap EXCEPT ![Ours] = original] /\ UNCHANGED queue
    /\ wire' = Transmitted(EventToNotification(bus, schema, bus.data))

\* Mutated: the payload is encoded in the informer's event.
SendSocket_inPlace ==
    /\ todo # <<>> /\ Head(todo) = "socket"
    /\ todo' = Tail(todo)
    /\ CanSend(heap[Ours].type)
    /\ LET bus == Encoded(Stamped(heap[Ours], "sent")) IN Sends(bus, bus)
    /\ UNCHANGED <<configVars, informer, listeners, peerUp, histories>>

\* OutConnector::handle of the socket transport and BusImpl::handle: a copy of
\* the event goes to the connectors of the bus, then to its connections.
SendSocket ==
    /\ todo # <<>> /\ Head(todo) = "socket"
    /\ todo' = Tail(todo)
    /\ CanSend(heap[Ours].type)
    /\ LET sent == Stamped(heap[Ours], "sent") IN Sends(Encoded(sent), sent)
    /\ UNCHANGED <<configVars, informer, listeners, peerUp, histories>>

-----------------------------------------------------------------------------
(* Receiving *)

\* The io thread's exception ends the process.
ThreadEnds == peerUp' = FALSE

\* handleReadBody: nobody catches what the peer's connector throws, and the
\* thread it ends with takes its process along.
ReceiveAtPeer ==
    /\ wire # <<>> /\ peerUp
    /\ LET event == NotificationToEvent(Head(wire)) IN
       IF ~Hears("peer", "socket") THEN UNCHANGED <<heap, queue, peerUp, failures>>
       ELSE IF CanReceive("peer", Head(wire).schema, Head(wire).data)
       THEN /\ heap' = Append(heap, Received("peer", event))
            /\ queue' = Queued("peer", Len(heap) + 1)
            /\ UNCHANGED <<peerUp, failures>>
       ELSE /\ ThreadEnds
            /\ failures' = failures \cup {Failure(listeners["peer"], Wire, Head(wire).schema)}
            /\ UNCHANGED <<heap, queue>>
    /\ wire' = Tail(wire)
    /\ UNCHANGED <<configVars, informer, listeners, todo, published, heard>>

Accepts(wish, event) ==
    /\ AcceptsMethod(wish.handler, event.method)
    /\ \A f \in wish.filters : Match(f, event)

\* A worker of the parallel strategy matches and handles the event, reading the object it refers to.
Deliver(l) ==
    /\ queue[l] # <<>> /\ (l = "peer" => peerUp) /\ listeners[l].direction = "in-push"
    /\ queue' = [queue EXCEPT ![l] = Tail(@)]
    /\ LET event == heap[Head(queue[l])]
           wish  == listeners[l].wish
       IN  heard' = IF Accepts(wish, event) /\ Reaches(wish.handler, event)
                    THEN heard \cup {[by |-> l, event |-> event]} ELSE heard
    /\ UNCHANGED <<configVars, informer, listeners, heap, todo, wire, peerUp, published, failures>>

\* Reader::read hands out whatever there is.
Read(l) ==
    /\ queue[l] # <<>> /\ (l = "peer" => peerUp) /\ listeners[l].direction = "in-pull"
    /\ queue' = [queue EXCEPT ![l] = Tail(@)]
    /\ heard' = heard \cup {[by |-> l, event |-> heap[Head(queue[l])]]}
    /\ UNCHANGED <<configVars, informer, listeners, heap, todo, wire, peerUp, published, failures>>

DataNext ==
    \/ ConfigNext /\ UNCHANGED dataVars
    \/ \E i \in Informers : CreateInformer(i) \/ CreateInformerBase(i)
    \/ \E l \in Listeners : CreateReader(l) \/ \E wish \in Wishes : CreateListener(l, wish)
    \/ \E e \in Sendable : \/ CheckedPublish(e) \/ UncheckedPublishData(e.data, e.type)
                          \/ PublishData(e.data, e.type) \/ PublishTyped(e.data, e.type)
    \/ SendInprocess \/ SendFails \/ SendSocket \/ ReceiveAtPeer
    \/ \E l \in Listeners : Deliver(l) \/ Read(l)

DataSpec == DataInit /\ [][DataNext]_<<configVars, dataVars>>

-----------------------------------------------------------------------------
(* Properties *)

Original(event) == published[event.id.number + 1]

\* A handler or a reader gets the type and the payload that were published,
\* whatever way they came, unless the configuration names another type for the
\* wire-schema or the receiver was made before the type had a converter; one that
\* wants the bytes gets those that were sent (InPushConnector.cpp:91, Repository.h:111).
HeardAsSent ==
    \A h \in heard :
        LET sent == Original(h.event) IN
        IF h.event.type = sent.type THEN h.event.data = sent.data
        ELSE \/ listeners[h.by].wish.converters # <<>> /\ h.event.data = Serialize(sent.type, sent.data)
             \/ \E n \in listeners[h.by].named : n[Type] = h.event.type
             \/ \A s \in listeners[h.by].known : s[Type] # sent.type

\* All copies of an event agree in what filters and handlers look at, save for
\* the type: no transport changes who wants an event (Serialization.cpp:40).
CopiesAgree ==
    \A i \in DOMAIN heap :
        LET e == Original(heap[i]) IN
        /\ heap[i].scope = e.scope /\ heap[i].method = e.method /\ heap[i].causes = e.causes
        /\ heap[i].type = e.type => \A wish \in Wishes :
               /\ Accepts(wish, heap[i]) <=> Accepts(wish, e)
               /\ Reaches(wish.handler, heap[i]) <=> Reaches(wish.handler, e)

\* An event is the same to all who hear it, whatever way it came
\* (InPushConnector.cpp:91, Serialization.cpp:40).
HeardAlike == HeardAsSent /\ CopiesAgree

\* What handlers share with each other and with the informer is left as it is,
\* but for its time stamps (OutConnector.cpp:92, InPushConnector.cpp:84).
SharedIntact ==
    [][\A i \in DOMAIN heap : heap'[i] = [heap[i] EXCEPT !.times = heap'[i].times]]_heap

\* A conversion fails only for want of a converter: a connector finds a converter
\* that was registered when it was made, unless the configuration named another
\* one for the type or the wire-schema, and what is sent can be read; but an array
\* of bytes cannot be sent (Repository.h:66, Factory.cpp:56, BoolConverter.cpp:62).
NothingInTheWay ==
    \A f \in failures : \A s \in f.known :
        s[f.k] = f.key => \/ f.k = Type /\ ~Serializable(f.key)
                          \/ \E n \in f.named : n[f.k] = f.key /\ n # s
==============================================================================
