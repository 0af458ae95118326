# A verification project for rsb-cpp

rsb-cpp is the C++ implementation of the Robotics Service Bus: participants
(informers, listeners, readers, servers) exchange events on hierarchical
scopes, through one or more transports. This directory holds TLA+ models of the
library, TLC runs that check them on small instances, and theorems that TLAPS
proves about them for every instance. Source paths are relative to
`src/src/rsb/`.

## The system

| Component | State | Operations | Interacts with |
|---|---|---|---|
| Scopes (`Scope.cpp`) | components, canonical string | parse, concat, superScopes, comparisons | every bus routes with them |
| In-process bus (`transport/inprocess/`) | `sinks`: scope -> list of weak pointers to connectors | addSink, removeSink, handle | connectors activate, deactivate, are released; informers call handle |
| Socket bus (`BusImpl`, `ScopeDispatcher.h`, `ConnectorBase`) | `sinkDispatcher`, `connections`, two recursive mutexes | addSink, removeSink, handle, handleIncoming, add/removeConnection | connectors above, connections below |
| Connection (`BusConnection`) | socket, `activeShutdown`, `disconnecting`, buffers | handshake, sendEvent, asynchronous reads, shutdown, disconnect | the io thread runs its handlers; holds its bus weakly |
| Server (`BusServerImpl`, `LifecycledBusServer`) | acceptor, `active`, `shutdown`, condition variable | activate, deactivate, handleAccept, handleIncoming (forwards to the other clients) | owner thread against io thread |
| Socket factory (`transport/socket/Factory`) | caches of client and server buses, `busMutex` | getBus (no, yes, auto) | connectors call it on activation |
| Routes (`eventprocessing/*RouteConfigurator`) | connectors, strategy | activate, deactivate, publish, read | participants own them |
| Receiving strategies (`Parallel-`, `Direct-`, `PullEventReceivingStrategy`) | handlers, filters, error strategy, a pool of workers | handle, add/removeHandler, add/removeFilter | connectors push events in, workers call handlers |
| Request-reply (`patterns/`) | `inprogress`: event id -> future, the methods | call, handle (reply), handle (request), timeouts, registration, destruction | an informer and a listener per method |
| Informers (`Informer.cpp`, `EventId.cpp`) | sequence number | publish | out route |
| Factory and configuration (`Factory.cpp`, `ParticipantConfig.cpp`, `transport/transports.cpp`) | default configuration, registered transports, the converter repository | options of files, setters, create a participant | asks transports for connectors, connectors ask the repository for converters |
| Events, filters, handlers (`Event.cpp`, `MetaData.cpp`, `filter/`, `Handler.h`) | an event's fields and times | setters, match | one object shared, or copied, on its way |
| Converters and protocol (`converter/`, `protocol/`, `transport/socket/Serialization.cpp`) | - | serialize, deserialize, event to notification and back | connectors, collections of events |
| Introspection (`introspection/`) | participants, a listener, an informer, a server | Hello, Bye, survey, request, ping; description of process and host | signals of the `Factory` |
| Utilities (`util/`) | - | MD5, adapters for queues | - |

What is hard about it: the owner of a connector, the threads that publish and
the io thread meet in the buses; connectors are held by weak pointers and may
die at any moment; the server's shutdown is a hand-written handshake of two
volatile flags and a condition variable; a connection can end in four ways
(end-of-file, reset, failed write, destruction of its bus) that race each
other; lookups of a bus hold a mutex over a handshake with another process;
handlers are removed while workers call them; replies race the call that waits
for them, and its timeout; a server's methods hold themselves through their own
listeners; one event object is shared by everybody in a process, whose
connectors stamp it while it is read; options of several files accumulate in
one configuration from which maps of converters are made that must agree at
both ends. `PROJECT.json` lists each such hazard at its line, with the property
that covers it or the reason there is none.

What makes the components correct:

* a bus delivers an event once to each active connector whose scope is the
  event's scope or a super-scope of it, whatever was activated, published or
  released before (`EventRouting`);
* a hub and its clients form a broadcast: every process sees every publisher's
  events in order, once and without a gap (`EventBroadcast`);
* the server accepts until it is told to stop, and `deactivate()` leaves
  neither a handler nor, with the wait option, a client behind;
* connectors of a process share the bus of a host's name and port, and lookups
  return;
* a constructed participant misses nothing, a failed or finished one leaves
  nothing active, and publish() tells the truth;
* a handler sees events in order, and none after `removeHandler` has returned
  (`HandlerContract`);
* a call ends with its own answer, once, or with an error or a timeout
  (`RpcContract`), and what it returns is what the callback made of the argument;
* a process can follow who participates (`ParticipantDirectory`);
* what a handler gets is what was published, whatever way it came, and of the
  configuration's sources none is lost and the last one counts;
* two equal scopes have one string, and all ways to ask for the hierarchy agree.

## Modules

### Buses and the network

| Module | Models | Correspondence |
|---|---|---|
| `ScopeHierarchy` | `Scope.cpp` | a scope is the sequence of its components; `SuperScopes`, `IsSuperScopeOf`, `IsSubScopeOf`, `Concat` |
| `EventRouting` | the contract of a bus | one action that delivers an event to exactly the connectors that must hear it |
| `LocalBus` | - | the constants of the two modules that follow |
| `InprocessBus` | `inprocess/Bus.cpp`, `inprocess/InConnector.cpp` | `sinks` is the map of the class, list order included (a set of weak pointers is copied in any order); activation is two steps, since `addSink` runs under the lock and the flag does not |
| `SocketSinks` | `ScopeDispatcher.h`, `ConnectorBase`, `InConnector`, `BusImpl::handle` | a list is how often each connector is in it, since nothing depends on its order; deactivation is removeSink, clear flag, drop bus; a dispatch holds `connectorLock` and is one step per entry (`Visit`, `PassOver`, `LetGo`), with a strong reference in between; the owners in `Careless` may drop a connector that is active, `undefined` says that this has erased the list's node under a dispatch |
| `BusServer` | `BusServerImpl`, `LifecycledBusServer` | one program counter for the owner, one for the io thread; every access to a volatile flag, every asio call and every condition-variable operation is its own step; an exception that leaves `handleAccept` ends the io thread and the process (`ThrowOutOfAccept`) |
| `EventBroadcast` | the contract of a network | per process the events seen of each publisher, which only grow, and in order |
| `SocketNetwork` | `BusImpl`, `BusConnection`, `BusServerImpl::handleIncoming` | a channel per direction and connection with messages, end-of-file and reset; leaving, crashing, failing writes; of the locks only what they can come to: the io thread that meets an end-of-file while a publisher of its process sends may stay there with it (`GetStuck`, `stuck`) |
| `BusLocks` | the locks of `BusImpl::handle`, `BusServerImpl::handleIncoming` and `BusConnection` | the two mutexes as owners, one step per acquisition |
| `SocketFactory` | `transport/socket/Factory.cpp`, `ConnectorBase` | a bus is named by the connector whose lookup made it; one step per lookup in a cache, per socket call and per lock; the accept loop in short, with the cancel that misses it (`CancelMisses`) |

### Participants

| Module | Models | Correspondence |
|---|---|---|
| `Routes` | `Informer.cpp`, the route configurators, `DirectEventSendingStrategy`, `PullEventReceivingStrategy`, `Reader.cpp` | the loops over connectors go one connector at a time; a bus is a queue per transport |
| `HandlerContract` | what `Listener.h` promises | a handler is called only while it is registered |
| `ParallelDelivery` | `ParallelEventReceivingStrategy` | the pool is external: a queue per handler, workers take, match, call and return |
| `DirectDelivery` | `DirectEventReceivingStrategy` | the connector's thread iterates over the handlers under a shared lock |
| `RpcContract` | what `RemoteServer.h` promises | each call is completed at most once, with an answer to that call |
| `RemoteCall` | `RemoteServer`, `LocalServer` | callers, the mutex of the pending map, request and reply channels, one copy per transport; handlers run on a thread of their own, as by default |
| `ServerMethods` | `Server.cpp`, the method registries of both servers | methods are named by the thread that makes them; the listener with its filter and handler, the informer that is made anew when needed, the cycle that the destructor breaks |
| `TypedCalls` | the callback classes of `LocalServer.h`, the call functions of `RemoteServer.h` | a callback is a function on payloads with the type it checks for; caller and server share the event objects, or convert them |
| `ParticipantDirectory` | what introspection promises to another process | a participant appears while it exists, vanishes before it ends, and does not come back, unless it could not say that it went |
| `Introspection` | `introspection/Plugin.cpp`, `IntrospectionSender.cpp` | one program counter per participant for the thread that creates or destroys it, one for the worker that answers queries; `senderMutex` and the sender's mutex as their holders; the members of the sender go one by one; each publication may fail; `directory` is what a follower of the messages knows, `owed` (history) whom a query has still to name |
| `ProcessDescription` | `introspection/Model.cpp`, the sender's constructor, `tellParticipantHello` | what the system calls return, or that they fail, and the Hello made of it |

### Data

| Module | Models | Correspondence |
|---|---|---|
| `ScopeSyntax` | `verifyAndSplit`, `updateStringCache` | a text is a sequence of characters; one action per separator that the loop finds |
| `Events` | `Event.cpp`, `MetaData.cpp`, `EventId.cpp`, `Serialization.cpp` | an event is a record; notifications with fields that are set or not |
| `TimeStamps` | the setters and getters of `MetaData.cpp` | three representations of a time, moments before and after the epoch |
| `Filters` | `filter/`, `Handler.h` | a filter is a record, `Match` the five predicates; a handler is its methods and what `FilteringHandler` put around it |
| `Converters` | `converter/` | a converter is a pair of wire schema and type; what each does to a payload, a sequence of numbers; the repository, `UnambiguousConverterMap` and `PredicateConverterList` |
| `Configuration` | `ParticipantConfig.cpp`, `QualityOfServiceSpec.cpp`, `Factory.cpp`, `transports.cpp` | one action per option handled, per setter, and for the factory's constructor; `given` (history) is what the sources have said, `anew` the transports that the program has replaced since |
| `DataPath` | `Factory.cpp`, `Informer.cpp`, the connectors | from the creation of participants to the handler: event objects in a heap, references in queues, notifications on the wire |
| `EventsByScope` | `EventsByScopeMapConverter.cpp` | one collection, encoded and decoded event by event |

`MC...` modules instantiate them for TLC; `...Proofs` modules hold theorems.
An operator named like an operation with a suffix (`AddSink_notStrict`) is a
seeded bug: put in place of the operation, it makes a property fail.

## Runs

A run checks every module that answers one question; where its modules do not
interact, each initial state chooses the one whose turn it is (`part`,
`aspect`), and the others rest.

| Run | Modules | Question | Bounds and why they are enough |
|---|---|---|---|
| `Transports` | `InprocessBus`, `SocketSinks`, `Routes` | Are the lists of both buses exact, is `EventRouting` implemented, and do participants over several transports miss nothing? | 2 connectors (two are needed for one to erase the other's entry), 4 scopes (root, parent, child, sibling), 2 events (the first creates a list, the second uses it), in the socket bus also with one of the connectors released while active; 2 transports (one can fail after the other), 2 publishing threads, 2 publications with a receiver and, with sequence numbers modulo 2 so that they wrap, 3 without one |
| `BusServer` | `BusServer` | Is the shutdown handshake right? | 3 clients: one connected, one accepted meanwhile, one in the backlog |
| `BusServer_rearm` | `BusServer` | Does `deactivate()` always return? **No** | 1 client |
| `SocketNetwork` | `SocketNetwork` | Is the network a broadcast, and do dead connections go? | 2 clients; one publishes twice, so that a gap or a swap can show, the hub once; both may crash and leave |
| `BusLocks` | `BusLocks` | Does a connection that has ended leave the list? **No**: lock inversion | 1 publisher, 1 connection |
| `SocketFactory` | `SocketFactory` | Do connectors share buses as they should, and does every lookup return? | 3 connectors, two of them in one process (to share), one in another (to compete for the port); every mode, both values of tcpnodelay and of wait, two names a host may be asked for by; of what is alike one order is looked at (`OneOrder`) |
| `ParallelDelivery` | `ParallelDelivery` | Order, loss, quiet after removal and destruction, progress | 2 workers, 2 handlers, 1 filter, 3 events (two in order and one behind them) |
| `DirectDelivery` | `DirectDelivery` | Is a removed handler left alone? **No** | 1 thread, 1 handler, 1 event |
| `Servers` | `RemoteCall`, `ServerMethods` | Are replies neither lost, mixed up nor counted twice, and do methods come and go in order? | 2 calls, 2 servers, 2 transports: duplicates of both kinds; failing publishes and callbacks; 3 threads and 2 method names: all three race for one name, or two of them do and one has the other (`SomeNames`), 3 requests or replies |
| `RemoteCall_causes` | `RemoteCall` | Does an answer always complete its call? **No**, if a callback's reply has causes | 1 call |
| `Introspection` | `Introspection` | Do Hello, Bye and the answers tell the truth, and does every creation and destruction return? | 3 participants, one of them disabled (with two the last one can go, and a new one come, while a query is answered), 1 query of any kind |
| `Data` | `ScopeSyntax`, `Configuration` with `Converters`, `DataPath` with `Filters` and `Events`, `EventsByScope`, `TypedCalls`, `ProcessDescription`, `TimeStamps` | Is what is written what is read, and does the configuration mean what it says? | see below |

Bounds of `Data`:

* scopes: all texts of up to 6 of 4 characters, every pattern of separators
  around up to three components;
* configurations: every sequence of two of 16 options, with and without a
  plugin's transport, and what the program then sets; two is what
  it takes to override, accumulate or contradict. Values that are truth values
  are "0" and "1";
* an event on its way: the options that matter to it in one order (that the
  last one of a kind counts is the previous part's matter), nothing set by the
  program once it has participants; one converter may still be registered
  between the creation of two of them; 1 event, a listener or reader made first
  and another one, not both readers, in a peer process with the same
  configuration, of which the peer's may have a list of converters of its own
  (`OneWay`);
* collections: up to two events in each of two scopes, every type of
  payload, greatest and least numbers with bytes of base 4 and two of them to
  a number;
* calls: 2 calls, so that one's answer can be mistaken for the other's, every
  callback class, both ends in one process or in two. The caller knows the
  reply's type; timeouts are `RemoteCall`'s;
* times: moments before and after the epoch that three representations, one
  of them a floating point number, can and cannot hold.

Bounds on unbounded things are constants of the modules: `MaxEvents`,
`MaxPublications`, `MaxSent`, `MaxSends`, `MaxQueries`, `MaxCalls`,
`MaxOptions`, `MaxLength`, `Width`, and the finite sets of clients, connectors,
callers and handlers, each of which is used once. Deadlock checking is off
since every instance ends when its bounded inputs are used up.

### What the properties say

| Property | Says |
|---|---|
| `SinksAreExact`, `SinksAreSound` | the lists of a bus hold the connectors they should, each once, and no other; a connector that is called is active; a bus that nobody uses is empty; the exception of `removeSink` does not reach an owner that deactivates; of the socket bus until a dispatch has lost its place in a list, which only a connector that is dropped while active can bring about |
| `RoutingSpec`, `SocketRoutingSpec` | both buses implement `EventRouting`, the socket bus towards the connectors that are deactivated first |
| `NoneLeftActive` | a constructor that throws, and a destructor, leave no connector active |
| `EventsArrive` | what publish() says it sent is on every transport; a participant misses nothing once constructed, and a read that does not block finds what is there |
| `IdsAreApart` | identifiers repeat only after a whole round of sequence numbers |
| `AcceptLoopAlive`, `NoLateConnection`, `DrainedWhenReturned`, `WaiterIsWoken`, `HandshakeCompletes` | the shutdown handshake of the server; the accept loop ends with the process only, when a client has reset its connection before it is looked at |
| `NoLoss`, `BroadcastSpec`, `ClientIsRemoved` | the network is a broadcast, dead connections cost the others nothing and go, unless the hub's io thread is stuck with a publisher |
| `BusesAreFit`, `LookupReturns`, `PortComesFree` | who asks for one name gets one bus, and it is accepted before it is used; no lookup hangs unless a server waits for a client that somebody uses, or the lookup destroys one whose accept loop has missed the cancel; a server that is let go frees its port, on the same condition |
| `HandledInOrder`, `ContractSpec`, `Progress` | order, no loss, quiet after removal, nobody waits for ever |
| `NoReplyLost`, `SettledOnce`, `RpcSpec`, `AnswerArrives` | replies and futures |
| `MethodsSound`, `ServerEnds` | one method per name, a filter before a handler before a request; a destructor that returns and leaves nothing behind |
| `EveryoneIsTold`, `InformerOutlivesAnswers`, `DirectorySpec`, `SignalsReturn` | introspection: who lives is known, answers use no dead informer and name everyone if none fails, who has said Bye does not come back, and no signal hangs |
| `ScopesAgree` | the parser accepts the grammar its comment gives; one scope has one string; all questions about the hierarchy agree |
| `ConfiguredAsAsked` | no option is lost; of all sources that say something of a setting or an option the last one counts; converter entries accumulate instead |
| `HeardAlike`, `SharedIntact`, `NothingInTheWay` | type and payload are those published whatever the way; an object shared by many changes in its time stamps only; a conversion fails only for want of a converter |
| `CollectionSurvives` | a collection of events is read back as it was written |
| `CallsAnswered` | a call is what the callback made of its argument, or says why not |
| `DescribedUnlessNameless` | participants can be announced unless the host has no identifier and no lawful name |
| `TimesStaySet` | a time that is set stays set, save for a posix time at the epoch and a user time whose new value is refused |

Several of them are conjunctions whose parts are defined, with a comment each,
in the module; the theorems and the seeded bugs refer to the whole.

The runs that end in a violation (`BusServer_rearm` of `DeactivateReturns`,
`BusLocks` of `EndedIsRemoved`, the other two of properties above) are findings; `PROJECT.json` quotes what each
contradicts.

### Fairness

Liveness is checked under `FairSpec` (`ServersSpec`). Assumed are: a thread
that can take a step of its own takes it (weak fairness per thread); the
owner's busy-wait and condition variable are such steps; a mutex that is free
again and again is granted in the end (strong fairness of the steps that
acquire one: the lookups of the socket factory, the introspection observer and
sender, the reply handler of a call, and of taking an event for a handler whose
queue another worker may be serving); accepted asio operations complete (asio's
promise); handlers and callbacks return (the precondition of any delivery).
Two things are not assumed, since the code does not ensure them. A server's
accept loop need not end when it is cancelled: in `SocketFactory` it ends or is
missed by the cancel (`StopLoop`), and the properties say what follows from the
latter. An io thread that meets an end-of-file need not get `connectionLock`: in
`SocketNetwork` it reads on or is stuck with a publisher (`GetStuck`), as
`BusLocks` shows in detail.
Nothing is assumed of clients, except in `BusServer` that a connected client
disconnects at some time, as the wait option of `deactivate()` demands, and
nothing of owners: nobody must call anything.

## Theorems

| Module | Theorem | Says |
|---|---|---|
| `TransportsProofs` | `TypeCorrect`, `NoLoss` | of `InprocessBus`, for any connectors, scopes and releases, a registered connector is in every list it belongs to |
| | `Exactness`, `ExactSinks`, `Implements` | if owners deactivate before they release: the lists are exact, and the bus implements `EventRouting` |
| | `RoutesTypeCorrect`, `NothingStaysActive`, `NumbersApart`, `EventsFlow` | of `Routes`, for any list of transports, any threads, any width of the sequence number and any number of events: nothing stays active, equal identifiers are a round apart, and what is sent arrives |
| `SocketBusProofs` | `SocketTypeCorrect`, `SinksStaySound`, `SocketImplements` | of `SocketSinks`, for any connectors and scopes, any of them dropped while active: lists, flags and the life of the bus fit together until a dispatch has lost its place, which none but those bring about, and the dispatcher implements `EventRouting` towards the others |
| | `LoopEnds`, `LoopStaysAlive`, `NoLateArrival`, `Drained` | of `BusServer`, the safety half of the shutdown handshake, for any clients, those that reset their connections included |
| `ServersProofs` | `TypeCorrect`, `RepliesArrive`, `CallsSettle`, `Implements` | of `RemoteCall`, for any callers, servers and transports |
| | `MethodsTypeCorrect`, `MethodsAreSound`, `MethodsAreGone` | of `ServerMethods`, for any threads, names and events: one method per name that hears its replies and handles nothing else, and nothing left of it after the destructor |
| `IntrospectionProofs` | `TypeCorrect`, `InformerLives`, `AllAreTold`, `Implements` | for any participants, any of them disabled, any queries, and publications that fail at any time: live participants are known, answers use no dead informer and miss nobody unless one fails, and the messages implement `ParticipantDirectory` |
| `ParallelDeliveryProofs` | `TypeCorrect`, `HandledAsPushed`, `ContractIsKept` | for any workers, handlers, filters and events: order without parallel calls, nothing lost, no call left by `removeHandler` and the destructor; the strategy implements `HandlerContract` |
| `SocketFactoryProofs` | `TypeCorrect`, `BusesStayFit` | for any connectors, processes, host names and options: one bus per name, port and process, none used before its handshake |
| `SocketNetworkProofs` | `TypeCorrect`, `NothingIsLost`, `BusBroadcasts` | for any number of clients and events, with and without crashes: no event is lost between processes that stay, and the buses implement `EventBroadcast` |
| `DataProofs` | `OneScopeOneString` | of `ScopeSyntax`, for any alphabet and texts of any length: the parser decides the grammar, two scopes never have one string, and the questions about the hierarchy agree |
| | `AsTheSourcesAsk` | of `Configuration`, for any options, plugins and changes a program makes: no option is lost, the last word on each counts, and the converters are all that were named |
| | `HeardAsPublished`, `ConvertersAreFound`, `SharedEventsAreIntact` | of `DataPath`, for any configuration, converters, filters and handlers, participants made at any time and any number of events: all who hear an event get what was published, no conversion fails for want of a converter that is there, and no shared object changes but for its times |
| | `CollectionsSurvive` | of `EventsByScope`, for any collections and converters |
| | `CallsAreAnswered` | of `TypedCalls`, for any callbacks, converters and number of calls, in one process or two |
| | `OnlyTheNameMatters`, `TimesAreKept` | of `ProcessDescription` and `TimeStamps`, for any host and any times |

Each is proved from the named assumptions on the constants of its module, which
TLC evaluates in the runs, and along an inductive invariant that TLC was asked
first.

`InprocessBus`. `NoSinkLost` is not inductive alone: that a new list inherits
every sink it should have needs to know that each registered connector is in
the list of its own scope and that its life cycle matches its registration
(`LossInv`). Exactness is conditional on `~ReleaseWhileActive`: `removeSink`
erases the first entry that is dangling *or* its own, so with entries of
connectors that died it may spare its own; `ExactInv` adds that no entry
dangles and none occurs twice. The refinement maps a publication to the one
action of the contract, and its key lemma is that a list without repetition
delivers once.

`SocketSinks`. `LifeInv` says which flags and which reference a connector has in
each step of its owner, `ListInv` that a list holds exactly who is subscribed to
its scope, each once, but for connectors in their destructor, which another
one's `removeSink` may have swept out, and that no list is empty. The last is
why no scope is left when the bus is destructed. An owner that deactivates finds
its list because whoever is swept too early dangles. `VisitInv` says that
whoever a dispatch has still to visit is in a list, since `removeSink` waits for
the lock, and that only a connector dropped while active can be the one whose
last reference the dispatch has. All of it holds until `undefined`, where the
loop has gone on from a node that is erased. The refinement is towards the
connectors whose owners deactivate first (`Careful`), whatever the others do;
its key lemma is that the super-scopes of an event's scope are those that cover
it, so that a connector, in one list only, is handed the event once.

`BusServer`. `LoopInv` relates the two program counters: the flag `shutdown`
is set exactly while the owner cancels or spins or the io thread has not yet
acknowledged, and it is cleared only when no accept is outstanding. From
there the owner can drain without a late arrival. An exception in the handler
takes the io thread, and the process, with it; it leaves no accept behind either. `DrainInv` adds what
`deactivate()` returns with. `LoopEnds` (`LoopEndedBeforeDrain`) is the step in
between. That the handshake *ends* is liveness, checked by TLC and true only
with the condition `HandshakeCompletes` states.

`RemoteCall`. `IInv` says that an entry of the map is registered by a call
which has been sent (`Registered`, `Sent`), that unused identifiers occur
nowhere (`Fresh`), that a reply in a channel answers the call it names
(`Truthful`), and that a call with a reply on its way and no entry holds the
mutex, so that its entry comes before the reply is handled (`Answered`). The
last conjunct is why publishing under the mutex loses no reply.

`ServerMethods`. `BuilderInv` says that one thread at a time looks into the map
and makes a method, for the mutex of a remote server or the discipline a local
one asks of its owner, and only what is not in the map; `ListenerInv` that a
listener has got its parts in order, the filter before the handler, and that a
method in the map has them all until the server ends; `HeldInv` that whoever
listens, works or owns an informer is in the map or being made. From the last
follow both ends of a method's life: two listeners of one name would both be in
the map or one of them be made although it is there, and with the map empty and
nobody at work nothing is left. That the destructor returns is liveness.

`Introspection`. `IInv` says that each mutex has the one holder whose position
says so (`Holders`), that the holder of `senderMutex` is the only one in whose
hands the sender is built or destroyed, with an empty list before and after
(`SenderLife`), that the list holds the participants between Hello and Bye
or those whose Bye has failed (`Listed`, `Told`), and that the worker goes
through listed participants only and has all who owe an answer still before it
(`Asking`). No property is
inductive alone: that the informer outlives the answers needs the list to be
locked while the worker uses it *and* empty before the sender goes. The
refinement maps Create, Hello, Bye and the return of the destructor to the
actions of the directory. A Hello that fails may have been heard or not, and
leaves a participant that is about to be destructed; one whose Bye fails leaves
unsaid, and an answer that names it haunts a follower. Its key lemma is that an
answer which names anybody else changes nothing a follower knows, since the
participant it names is already present.

`Routes`. `RoutesInv` says that what is active is still before the loop that
deactivates (`RouteInv`); that an event's number is its draw modulo the width,
and the counter's too (`NumberInv`), so that equal numbers differ by a multiple
of the width; that a thread's event is on exactly the transports that its loop
has left behind, and that no two threads hold one draw (`SendInv`), without
which one thread's failure could be blamed on an event that another sends; that
a listener's strategy is attached before the route is ready and its queues are
empty, while a reader has no handlers (`ListenerInv`, `ReaderInv`), so that
`got \o queue` grows by what is due and a read only moves its boundary
(`DueInv`); and that a read has a connector with an event still before it if
there was one when it began (`ReadInv`). The one assumption beyond the ranges
of the constants is that a participant has at least one transport, each once in
the list: the loops of the code go over lists, and `Routes` counts the last
turn of a loop as its end.

`ParallelDelivery`. A handler's events are in its queue, with the workers, and
with the handler. `OrderInv` says that the queue is increasing and behind both
of the others, and that without parallel calls what is with a worker is behind
what the handler has got; `JobInv` that an event is with one worker for each
handler and, without parallel calls, a handler has one worker, which the pool
ensures by marking the queue; `HandlerInv` that only handlers that are
installed, or for whose calls exactly one thread waits, have any of the three.
In the refinement a handler is installed until that thread has gone on, and
only the call itself is a step of the contract, not the taking.

`SocketFactory`. `FactoryInv` says that the holder of `busMutex` is the thread
whose position in the lookup says so (`MutexInv`), that caches are per process
(`OwnInv`), what buses a connector may name at each position (`BusInv`), and
that a bus which is alive is in its cache under the name it was asked for, and
that a lookup about to make one has found none of that name (`CacheInv`). Sharing is not
inductive without the caches, and `CacheInv` fails without the mutex: another
lookup could make a bus behind the search. `ConnInv` adds what connection a
client bus has once its handshake is over.

`SocketNetwork`. Per client and direction there is one queue with three places:
what has been seen, what is on the wire, and what the sender has still to send.
`UpOf(c, h)` says that the hub has seen the first `h` events of `c` and the
wire continues from `h + 1`, up to what `c` has sent while both ends are open.
`DownOf(c)` says the same of what `c` gets from every other publisher, without
a number: what is on its wire follows what it has (`OrderOf`), comes from
events the hub has told its clients (`ToldOf`), and has no gap behind its first
(`GapFreeOf`), for which nothing may be sent before the hub has added the
connection (`FreshOf`). `ConnInv` relates lists, sockets and buses; it is why an
end that is still listed on an open connection has not been skipped. Part of it,
`StuckInv`, says that an end is listed and yet shutting down only where a
process is stuck between its two locks; such a hub forwards nothing, and what
its publisher is sending stays unfinished. Steps that
close, crash or reset only cut a wire at its end (`Shortened`), and one lemma
deals with all of them (`QuietKeepsFlow`). The refinement maps
`PublishToSinks` to the publication and both receptions to deliveries.

`ScopeSyntax`. `ParseInv` says that what has been read so far can begin a text
of the grammar (`ReadOn`), so that a rejected text cannot be saved by what
follows, and that the text up to the last separator is the string of the
components found (`ScanInv`). That `CachedString` grows by a component and a
separator, and that two scopes have two strings, is induction over a scope's
length: the last separator but one of a string is where its last component
begins, so scopes with equal strings have equal last components and equal rests.

`Configuration`. `ConfigInv` says of each part of the configuration that it is
what the last word on it in `given` says, or what the constructor has put there
(`LastOneWins`), and which transports are held while the options are read. A
part's last word is the option with the greatest place among those that concern
it, so each action either is that word or leaves the part and its word alone.
`KeepsInv` says that nothing of what was given is missing (`NothingIsLost`) and
that the program has not changed a thing before there is a factory: the defaults
of the constructor and the loop over the options both work on the one
configuration. The rest is what one option does to it: for each section, a lemma
says that only its own part changes, and by what.

`DataPath`. `PathInv` has a part for each place an event can be at. What holds
them together is when participants were made: converters are only added to the
repository, and conversions that were named are only dropped, so that of two
participants one is `Earlier` than the other and finds, wherever no list of its
own stands before, the converter the other finds, one for a type or a schema
that is ambiguous for it, or none. Every event object, notification and thing
heard has the header of the published event of its number (`HeapMade`,
`WireMade`, `HeardMade`); what is queued for a listener is the informer's own
object, or what this listener's converter made of what the informer's made
(`QueueMade`). `HeardAlike` follows, since a converter that takes up what its
like has put down gives it back (`Kept`), and `NothingInTheWay` is carried
along. That shared objects are intact follows step by step: the only steps that
change an object which is there already write its times.

`EventsByScope`. `MapInv` says that the scopes no longer in `left` have been
encoded, each with a converter for all of its events, that each set is what
encoding one of them gives, and that a scope with events whose set has been
taken is in the result, with the events that decoding gives.

`TypedCalls`. `CallInv` says that every object is the request or the reply of a
call, or a copy of one (`ObjectsMade`), that an entry of the pending map belongs
to a call that waits (`EntriesMade`), and that a call that waits has its request
or its reply under way, or one of the reasons there are for having neither
(`CallsMade`). The last is the strengthening that `CallsAnswered` needs.

`ProcessDescription` and `TimeStamps` need no more than the cases of the code.

What these assume beyond the ranges of the constants, and why the code justifies
it: no plugin's transport is called `socket`, a name the factory gives to its
own (`NamesAssumption`); the repository has one truth-value converter for its
schema, since `BoolConverter` refuses what others have written
(`BoolsAssumption`); what is published is what the converter of its type can
represent (`SendableAssumption`, `PayloadsAssumption`, `ArgumentsAssumption`; an
integer that is out of the converter's width is the sender's affair); a list of
converters that a listener brings matches every schema, for `PredicateConverterList`
returns nothing otherwise, and reads each schema as its type or as bytes
(`WishesAssumption`); the converters of a collection and those both ends of a
call know are unambiguous, which `UnambiguousConverterMap` demands
(`RepositoriesAssumption`, `KnownTypesAssumption`); and a callback does not name
the identifier of another call's request as a cause of its reply, since
`RemoteServer` tells replies apart by their cause alone (`CallbacksAssumption`).

Induction is first-order here: instead of a theorem with an operator as its
parameter, a proof takes the least number for which a formula fails
(`LeastNatural`, from `WFMin`), and recursive functions are shown to exist in
the same way (`StringIsWritten`). The provers do not know that a literal is a
string, so keys of options are taken from `Words`, which has those of the code
beside `STRING`.

Every invariant, action property and refinement that a run checks is thus
proved. Only model-checked are liveness (`WaiterIsWoken`, `HandshakeCompletes`,
`AnswerArrives`, `ServerEnds`, `Progress`, `ClientIsRemoved`, `SignalsReturn`,
`LookupReturns`, `PortComesFree`), which rests on fairness and ENABLED and is out
of the prover's reach, and the runs that show a violation, among them the locks.

## Abstractions

* A payload is a sequence of numbers, a text or a type a member of a small
  set, a time stamp a number; an event is a record where its fields matter
  (`Data`) and its publisher and number elsewhere. A time stamp that a connector
  sets is the same moment for all.
* Memory models are left out except where a flag is written by one thread and
  read by another, which are separate steps.
* Sending an event by one transport is one step in `DataPath`; in `Routes`,
  `SocketNetwork` and `BusLocks` it is not. Who gets an event for its scope is
  `EventRouting`'s matter; in `DataPath` receivers are on the root scope.
* A peer is another process of the same program with the same configuration;
  only its listener may differ in converters.
* Events handled on the thread that publishes (the direct strategy at both
  ends) appear in `DirectDelivery` only.
* Publishing one event object twice, with a connector that still has it, is
  not modelled, nor is the retry of a factory whose constructor has thrown.
* `rsc`'s dispatcher pool, plugins and option parsing, boost.asio, protocol
  buffers and TCP are external, modelled from how the code uses them. What the
  connectors of plugins do is left out; that they are chosen is not.

## Known disagreements

Beside the four runs that end in a violation, the modules contain behaviour
that differs from what a comment says, or that surprises; it is modelled as the
code has it:

* a read that blocks stays with the first connector, although `Reader.h:87`
  has it return when an event is available (`Routes`, `Pop`);
* a host that neither has an identifier nor a lawful name makes the sender's
  constructor throw, although `introspection/Model.h:85` provides for unknown
  ones (`ProcessDescription`, `DescribedUnlessNameless`);
* a user time is erased before its new value is converted: a value that is
  refused leaves none (`TimeStamps`, `MetaData.cpp:186`);
* within a process, an `EventCallback` that returns the request itself changes
  the identifier which the call has yet to read, and the call is never answered
  (`TypedCalls`, `LocalServer.cpp:125`);
* the rule by which a single transport is enabled counts those that are
  enabled already (`Configuration`, `SetUp`, `Factory.cpp:266`), and the
  sending strategy of the configuration is not read by anyone;
* an option with one component only reads behind the end of its key
  (`ParticipantConfig.cpp:322`, `:338`); the model's keys have the components
  the code reads;
* `PredicateConverterList` returns no converter where
  `ConverterSelectionStrategy` documents an exception; lists that match nothing
  are not modelled;
* the converter for arrays of bytes is registered under the literal wire
  schema `.*` and matches no other (`Converters`);
* an exception while an event is decoded ends the io thread and with it the
  process (`DataPath`, `ReceiveAtPeer`, `BusConnection.cpp:264`);
* with two transports to the same peer an event arrives twice, once by each;
* a connector that its owner drops while active may have its last reference in
  `mapSinks` (`ScopeDispatcher.h:192`); its destructor, which exists for that
  case (`InConnector.cpp:56`), then erases the entry the loop stands on, and the
  behaviour is undefined (`SocketSinks`, `LetGo`);
* `BusServerImpl.cpp:129` says that after a failed accept it tries to continue,
  but the handler throws, and the process ends, when a client has reset its
  connection before the handler asks for its address or configures the socket
  (`BusServerImpl.cpp:123`, `BusConnection.cpp:69`; `BusServer`, `ThrowOutOfAccept`);
* `transport/socket/Factory.h:54` promises one client bus for each endpoint; the
  resolver is not asked for canonical names (`Factory.cpp:110`), so two names of
  one host get two (`SocketFactory`, `FindResolved`);
* a lookup that destroys a server whose accept loop has missed the cancel spins
  with `busMutex` held, and such a server keeps its port (`SocketFactory`);
* a Bye that cannot be sent leaves an entry which every later survey announces
  (`IntrospectionSender.cpp:182`), and an answer that cannot be sent keeps those
  behind it from answering (`Introspection`, `FailBye`, `FailAnswer`);
* entries for converters accumulate (`ParticipantConfig.cpp:106`): none of them
  overrides another; of several for one schema the greatest name reads, and
  several for one type are an error (`Factory.cpp:76`; `Configuration`).

## Not modelled

* `util/MD5.cpp` and the adapters that push events to queues: a digest of a
  fixed algorithm, and wrappers of a queue of `rsc`.
* Converters of `SchemaAndByteArray` payloads and of Rosetta, predicates with
  regular expressions, `ParticipantConfig::setTransports`,
  `Repository::clear`: no state that other parts depend on.
* Fragmented notifications: the transport that sends them is in another
  repository.
* The shutdown of the introspection plugin while participants exist: when a
  program unloads plugins is up to `rsc`. The messages a process sends to
  itself.
* Handlers that call back into the bus from within a dispatch, and a sink that
  throws and so keeps an event from the sinks behind it; in the in-process bus,
  a dispatch that holds the last reference to a connector.
* A crash of the hub, a message that arrives in part, and the back-pressure of
  full kernel buffers.
* Notifications of connectors about filters and handlers: no connector of this
  repository reads them.
* Printing, version information, examples, command line applications, build.
