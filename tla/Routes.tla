-------------------------------- MODULE Routes --------------------------------
(***************************************************************************)
(* From an informer to a listener or a reader, over several transports:     *)
(* rsb/Informer.cpp with eventprocessing/OutRouteConfigurator.cpp and       *)
(* DirectEventSendingStrategy.cpp on one side, InRouteConfigurator.cpp with *)
(* its push and pull subclasses, PullEventReceivingStrategy.cpp and         *)
(* Reader.cpp on the other.                                                 *)
(*                                                                         *)
(* Each transport has one out-connector in the informer and one             *)
(* in-connector in the receiver; the bus between them keeps the order       *)
(* (modules InprocessBus, SocketNetwork) and takes its time; the in-process *)
(* bus, which delivers on the publishing thread, is the case where a        *)
(* delivery follows at once.  What a receiving strategy does with its       *)
(* events is modules ParallelDelivery and DirectDelivery.                   *)
(***************************************************************************)
EXTENDS Naturals, Sequences, FiniteSets, Functions, SequencesExt

CONSTANTS Transports,  \* in the order of the sets and lists of connectors
          Publishers,     \* threads that publish with the informer
          Kinds,       \* receivers to consider: "listener", "reader"
          Width,       \* sequence numbers are modulo Width; 2^32 in the code
          MaxPublications    \* bound on the number of publications

ASSUME TransportsAssumption ==
    /\ Transports \in Seq(Range(Transports)) /\ Transports # <<>>
    /\ IsInjective(Transports)
ASSUME KindsAssumption == Kinds \subseteq {"listener", "reader"}
ASSUME WidthAssumption == Width \in Nat \ {0}
ASSUME PublicationsAssumption == MaxPublications \in Nat

VARIABLES receiver,  \* Listener or Reader
          step,      \* life of the two routes
          todo,      \* connectors that a loop of a route has still before it
          activated, \* connectors that are active
          attached,  \* push connectors that have the strategy as a handler
          seqNo,     \* InformerBase::currentSequenceNumber
          drawn,     \* number of publications so far (history)
          pub,       \* the publication each thread is in
          outcome,   \* events whose publish() returned, or threw (history)
          onBus,     \* what has entered the bus of each transport
          arrived,   \* how much of it has left the bus again
          queue,     \* queues of the pull connectors
          got,       \* what the receiver was given, by transport
          due,       \* what it was to be given (history)
          read       \* the call of Reader::read

participantVars == <<receiver, step, todo, activated, attached, seqNo, drawn, pub,
                     outcome, onBus, arrived, queue, got, due, read>>
senderVars == <<seqNo, drawn, pub, outcome, onBus>>
receiverVars == <<receiver, attached, arrived, queue, got, due, read>>
routeVars == <<step, todo, activated>>

Carriers == Range(Transports)
Publication == [thread : Publishers, draw : Nat, seq : 0..(Width - 1)]
Sides == {"in", "out"}
Steps == {"new", "activating", "attaching", "ready", "undoing", "failed", "deactivating", "gone"}

\* A publication of a thread: the event and the connectors that are still to
\* get it.  A read: is it blocking, which connectors are still to be asked, and
\* was an event there when it began (history)?
NoPub == [event |-> {}, todo |-> <<>>]
NoRead == [on |-> FALSE, block |-> FALSE, todo |-> <<>>, there |-> FALSE]

RoutesTypeOK ==
    /\ receiver \in Kinds
    /\ step \in [Sides -> Steps]
    /\ todo \in [Sides -> Seq(Carriers)]
    /\ activated \in [Sides -> SUBSET Carriers]
    /\ attached \subseteq Carriers
    /\ seqNo \in 0..(Width - 1) /\ drawn \in 0..MaxPublications
    /\ \A p \in Publishers : pub[p].event \subseteq Publication /\ pub[p].todo \in Seq(Carriers)
    /\ outcome \in [{"returned", "thrown"} -> SUBSET Publication]
    /\ onBus \in [Carriers -> Seq(Publication)]
    /\ arrived \in [Carriers -> Nat]
    /\ queue \in [Carriers -> Seq(Publication)]
    /\ got \in [Carriers -> Seq(Publication)]
    /\ due \in [Carriers -> Seq(Publication)]
    /\ read.todo \in Seq(Carriers)

RoutesInit ==
    /\ receiver \in Kinds
    /\ step = [r \in Sides |-> "new"]
    /\ todo = [r \in Sides |-> <<>>]
    /\ activated = [r \in Sides |-> {}]
    /\ attached = {}
    /\ seqNo = 0 /\ drawn = 0
    /\ pub = [p \in Publishers |-> NoPub]
    /\ outcome = [o \in {"returned", "thrown"} |-> {}]
    /\ onBus = [t \in Carriers |-> <<>>]
    /\ arrived = [t \in Carriers |-> 0]
    /\ queue = [t \in Carriers |-> <<>>]
    /\ got = [t \in Carriers |-> <<>>]
    /\ due = [t \in Carriers |-> <<>>]
    /\ read = NoRead

-----------------------------------------------------------------------------
(* The life of a route *)

\* The loop of route r goes on to its next connector, and after the last one
\* to another step with the connectors ls.
Advance(r, next, ls) ==
    IF Len(todo[r]) > 1
    THEN /\ todo' = [todo EXCEPT ![r] = Tail(@)]
         /\ UNCHANGED step
    ELSE /\ todo' = [todo EXCEPT ![r] = ls]
         /\ step' = [step EXCEPT ![r] = next]

\* The participant's constructor adds the connectors and calls activate().
Construct(r) ==
    /\ step[r] = "new"
    /\ step' = [step EXCEPT ![r] = "activating"]
    /\ todo' = [todo EXCEPT ![r] = Transports]
    /\ UNCHANGED <<activated, senderVars, receiverVars>>

\* activate(): the connectors in turn.  An out-route and a pull route are
\* ready then; a push route makes its strategy and goes on to attach it.
ActivateConnector(r) ==
    /\ step[r] = "activating"
    /\ activated' = [activated EXCEPT ![r] = @ \cup {Head(todo[r])}]
    /\ IF r = "in" /\ receiver = "listener"
       THEN Advance(r, "attaching", Transports)
       ELSE Advance(r, "ready", <<>>)
    /\ UNCHANGED <<senderVars, receiverVars>>

\* A connector throws, as the socket one does when there is no bus.  The
\* constructor is left, the destructor of the route deactivates.
FailToActivate(r) ==
    /\ step[r] = "activating"
    /\ step' = [step EXCEPT ![r] = "undoing"]
    /\ todo' = [todo EXCEPT ![r] = Transports]
    /\ UNCHANGED <<activated, senderVars, receiverVars>>

\* Mutated: the loop is left after the first connector.
Attach_first ==
    /\ step["in"] = "attaching"
    /\ attached' = attached \cup {Head(todo["in"])}
    /\ step' = [step EXCEPT !["in"] = "ready"]
    /\ todo' = [todo EXCEPT !["in"] = <<>>]
    /\ UNCHANGED <<activated, senderVars, receiver, arrived, queue, got, due, read>>

\* PushInRouteConfigurator::activate adds the strategy to the handlers of each
\* connector.
Attach ==
    /\ step["in"] = "attaching"
    /\ attached' = attached \cup {Head(todo["in"])}
    /\ Advance("in", "ready", <<>>)
    /\ UNCHANGED <<activated, senderVars, receiver, arrived, queue, got, due, read>>

\* The participant is destroyed, by an owner none of whose threads is in a
\* call of it.
Destroy(r) ==
    /\ step[r] = "ready"
    /\ r = "out" => \A p \in Publishers : pub[p] = NoPub
    /\ r = "in" => ~read.on
    /\ step' = [step EXCEPT ![r] = "deactivating"]
    /\ todo' = [todo EXCEPT ![r] = Transports]
    /\ UNCHANGED <<activated, senderVars, receiverVars>>

\* Mutated: only a route that has been activated is deactivated.
DeactivateConnector_ifActivated(r) ==
    /\ step[r] \in {"undoing", "deactivating"}
    /\ activated' = [activated EXCEPT ![r] = IF step[r] = "undoing" THEN @ ELSE @ \ {Head(todo[r])}]
    /\ Advance(r, IF step[r] = "undoing" THEN "failed" ELSE "gone", <<>>)
    /\ UNCHANGED <<senderVars, receiverVars>>

\* deactivate(): every connector, also one that has never been activated, for
\* which it changes nothing.
DeactivateConnector(r) ==
    /\ step[r] \in {"undoing", "deactivating"}
    /\ activated' = [activated EXCEPT ![r] = @ \ {Head(todo[r])}]
    /\ Advance(r, IF step[r] = "undoing" THEN "failed" ELSE "gone", <<>>)
    /\ UNCHANGED <<senderVars, receiverVars>>

-----------------------------------------------------------------------------
(* InformerBase::publish, on any thread *)

\* Mutated: the number is incremented after the mutex has been released, so
\* that another thread may have drawn the same one.
Draw_unlocked(p) ==
    /\ step["out"] = "ready" /\ pub[p] = NoPub /\ drawn < MaxPublications
    /\ drawn' = drawn + 1
    /\ seqNo' \in {seqNo, (seqNo + 1) % Width}
    /\ pub' = [pub EXCEPT ![p] = [event |-> {[thread |-> p, draw |-> drawn, seq |-> seqNo]},
                                  todo |-> Transports]]
    /\ UNCHANGED <<routeVars, receiverVars, outcome, onBus>>

\* uncheckedPublish: the event gets the next sequence number, which is drawn
\* under sequenceNumberMutex.
Draw(p) ==
    /\ step["out"] = "ready" /\ pub[p] = NoPub /\ drawn < MaxPublications
    /\ drawn' = drawn + 1
    /\ seqNo' = (seqNo + 1) % Width
    /\ pub' = [pub EXCEPT ![p] = [event |-> {[thread |-> p, draw |-> drawn, seq |-> seqNo]},
                                  todo |-> Transports]]
    /\ UNCHANGED <<routeVars, receiverVars, outcome, onBus>>

\* DirectEventSendingStrategy::process hands the event to one connector after
\* the other.
Send(p) ==
    /\ pub[p].todo # <<>>
    /\ onBus' = [onBus EXCEPT ![Head(pub[p].todo)] = @ \o SetToSeq(pub[p].event)]
    /\ pub' = [pub EXCEPT ![p].todo = Tail(@)]
    /\ UNCHANGED <<routeVars, receiverVars, seqNo, drawn, outcome>>

\* A connector throws, for instance because it has no converter: publish()
\* throws, and the connectors behind it do not get the event.
FailToSend(p) ==
    /\ pub[p].todo # <<>>
    /\ outcome' = [outcome EXCEPT !["thrown"] = @ \cup pub[p].event]
    /\ pub' = [pub EXCEPT ![p] = NoPub]
    /\ UNCHANGED <<routeVars, receiverVars, seqNo, drawn, onBus>>

Published(p) ==
    /\ pub[p] # NoPub /\ pub[p].todo = <<>>
    /\ outcome' = [outcome EXCEPT !["returned"] = @ \cup pub[p].event]
    /\ pub' = [pub EXCEPT ![p] = NoPub]
    /\ UNCHANGED <<routeVars, receiverVars, seqNo, drawn, onBus>>

-----------------------------------------------------------------------------
(* The receiver *)

\* The bus hands the next event of t to the connector, if that is active.  A
\* push connector passes it to its handlers, a pull connector queues it.
Deliver(t) ==
    /\ arrived[t] < Len(onBus[t])
    /\ LET event == onBus[t][arrived[t] + 1]
           heard == t \in activated["in"]
       IN  /\ got' = IF heard /\ t \in attached THEN [got EXCEPT ![t] = Append(@, event)] ELSE got
           /\ queue' = IF heard /\ receiver = "reader" THEN [queue EXCEPT ![t] = Append(@, event)] ELSE queue
           /\ due' = IF heard /\ step["in"] \in {"ready", "deactivating"} THEN [due EXCEPT ![t] = Append(@, event)] ELSE due
    /\ arrived' = [arrived EXCEPT ![t] = @ + 1]
    /\ UNCHANGED <<routeVars, senderVars, receiver, attached, read>>

Waiting == {t \in Carriers : queue[t] # <<>>}

BeginRead(block) ==
    /\ receiver = "reader" /\ step["in"] = "ready" /\ ~read.on
    /\ read' = [on |-> TRUE, block |-> block, todo |-> Transports, there |-> Waiting # {}]
    /\ UNCHANGED <<routeVars, senderVars, receiver, attached, arrived, queue, got, due>>

\* raiseEvent of the connector that is asked pops an event.  A blocking call
\* stays with the first connector until there is one.
Pop ==
    /\ read.on /\ read.todo # <<>> /\ Head(read.todo) \in Waiting
    /\ LET t == Head(read.todo)
       IN  /\ got' = [got EXCEPT ![t] = Append(@, Head(queue[t]))]
           /\ queue' = [queue EXCEPT ![t] = Tail(@)]
    /\ read' = NoRead
    /\ UNCHANGED <<routeVars, senderVars, receiver, attached, arrived, due>>

\* tryPop finds the queue empty and the next connector is asked.
PopNothing ==
    /\ read.on /\ ~read.block /\ read.todo # <<>> /\ Head(read.todo) \notin Waiting
    /\ read' = [read EXCEPT !.todo = Tail(@)]
    /\ UNCHANGED <<routeVars, senderVars, receiver, attached, arrived, queue, got, due>>

\* All connectors have been asked: an empty pointer is returned.
ReadEmpty ==
    /\ read.on /\ read.todo = <<>>
    /\ read' = NoRead
    /\ UNCHANGED <<routeVars, senderVars, receiver, attached, arrived, queue, got, due>>

-----------------------------------------------------------------------------
RouteStep(r) == ActivateConnector(r) \/ FailToActivate(r) \/ DeactivateConnector(r)
PublishStep(p) == Send(p) \/ FailToSend(p) \/ Published(p)
ReadStep == Pop \/ PopNothing \/ ReadEmpty

RoutesNext ==
    \/ \E r \in Sides : Construct(r) \/ Destroy(r) \/ RouteStep(r)
    \/ Attach
    \/ \E p \in Publishers : Draw(p) \/ PublishStep(p)
    \/ \E t \in Carriers : Deliver(t)
    \/ \E block \in BOOLEAN : BeginRead(block)
    \/ ReadStep

RoutesSpec == RoutesInit /\ [][RoutesNext]_participantVars

-----------------------------------------------------------------------------
(* Properties *)

\* When a constructor has thrown, or a destructor returned, no connector of
\* the participant is active (InRouteConfigurator.cpp:71 and :103,
\* OutRouteConfigurator.cpp:70 and :101).
NoneLeftActive ==
    \A r \in Sides : step[r] \in {"failed", "gone"} => activated[r] = {}

\* From the moment the constructor returns, until a connector is deactivated,
\* the receiver gets what its connectors get, once, and in order; what
\* came while the strategy was being attached can only be missing in front (PushInRouteConfigurator.cpp:64,
\* PullEventReceivingStrategy.cpp:69).
NothingMissed ==
    \A t \in Carriers : IsSuffix(due[t], got[t] \o queue[t])

\* When publish() has returned the event is on every transport, and when it
\* has thrown it is missing on one (DirectEventSendingStrategy.cpp:56).
ReturnMeansSent ==
    /\ \A e \in outcome["returned"] : \A t \in Carriers : e \in Range(onBus[t])
    /\ \A e \in outcome["thrown"] : \E t \in Carriers : e \notin Range(onBus[t])

\* Two events of the informer that have one identifier are a whole round of
\* sequence numbers apart, with any number of threads (Informer.cpp:142).
IdsAreApart ==
    \A s, t \in Carriers : \A e \in Range(onBus[s]), f \in Range(onBus[t]) :
        e.seq = f.seq /\ e.draw < f.draw => f.draw - e.draw >= Width

\* read(false) comes back empty-handed, having asked every connector, only if
\* nothing was there when it was called (Reader.h:88).
FindsWhatIsThere == read.on /\ read.todo = <<>> => ~read.there

\* What publish() says it has sent is on the transports, and a participant that
\* has been constructed finds what is on them (DirectEventSendingStrategy.cpp:56,
\* PushInRouteConfigurator.cpp:64, PullEventReceivingStrategy.cpp:69).
EventsArrive == NothingMissed /\ ReturnMeansSent /\ FindsWhatIsThere
=============================================================================
