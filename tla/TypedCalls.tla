------------------------------ MODULE TypedCalls ------------------------------
(***************************************************************************)
(* What a remote call means: the typed interface of RemoteServer.h, the      *)
(* callbacks of LocalServer.h, and what happens to the request and the reply  *)
(* between them.  How calls meet, time out or fail to be sent, and which      *)
(* methods there are, is the subject of RemoteCall and ServerMethods.         *)
(*                                                                         *)
(* One method of one server.  Within a process caller and server share the    *)
(* event objects; through the socket transport each has its own copy.  Both    *)
(* processes have the same converters, no two for a type or a wire-schema.     *)
(***************************************************************************)
EXTENDS Converters, Events

CONSTANTS Callbacks,  \* the callbacks that may be registered
          Arguments,  \* what may be passed: type and data
          KnownTypes, \* the sets of converters to consider, {} for one process
          MaxCalls

VARIABLES callback,   \* LocalMethod::callback
          known,      \* the converters
          objects,    \* the event objects of both processes
          calls,      \* the calls, each by a thread of its own
          serverQueue, callerQueue, \* objects on their way to a handler
          inprogress, \* RemoteMethod::inprogress, from identifiers to calls
          answers     \* number of events the server has published

callVars == <<callback, known, objects, calls, serverQueue, callerQueue, inprogress, answers>>

NoData == <<>>

-----------------------------------------------------------------------------
(* Callbacks: the type of request they check for, if any, and what they make  *)
(* of the data: an event, an exception, or the request itself                *)

Result(kind, type, data, causes) == [kind |-> kind, type |-> type, data |-> data, causes |-> causes]
Value(data) == Result("event", "", data, {})
Thrown == Result("exception", "text", NoData, {})
Itself == Result("request", "", NoData, {})

Payloads == {argument.data : argument \in Arguments} \cup {NoData}

\* Callback<Request, Reply> and its specialisations for void: a void argument is
\* not passed on, and a void reply is empty.
Callback(request, reply, call) ==
    LET made(data) == call[IF request = "void" THEN NoData ELSE data]
        event(r)   == [r EXCEPT !.type = reply, !.data = IF reply = "void" THEN NoData ELSE @]
    IN  [checks |-> {request},
         result |-> [data \in Payloads |-> IF made(data) = Thrown THEN Thrown ELSE event(made(data))]]

\* FunctionCallback has the same specialisations.
FunctionCallback(request, reply, function) == Callback(request, reply, function)

\* The two have complete specialisations for methods that take and give nothing.
VoidCallback(call) == Callback("void", "void", call)
VoidFunctionCallback(function) == FunctionCallback("void", "void", function)

\* AnyReplyTypeCallback: the type comes with the result, whatever it is.
AnyReplyTypeCallback(request, call) == [checks |-> {request}, result |-> call]

\* EventCallback: gets any request and returns an event with what it likes in it.
EventCallback(call) == [checks |-> {}, result |-> call]

-----------------------------------------------------------------------------
(* Identifiers *)

\* The order of the participants' UUIDs; "early" and "late" are strangers.
Place(sender) == CHOOSE i \in 1..4 : <<"early", "caller", "server", "late">>[i] = sender

\* EventId::operator<
Precedes(a, b) ==
    a.number < b.number \/ (a.number = b.number /\ Place(a.sender) < Place(b.sender))

FirstCause(event) ==
    CHOOSE id \in event.causes : \A other \in event.causes \ {id} : Precedes(id, other)

-----------------------------------------------------------------------------
(* The way of an event *)

SameProcess == known = {}
Out == ConvertersFor(known, {}, Type)
In  == ConvertersFor(known, {}, Wire)

\* Can an informer without a type publish it?
CanPublish(event) == event.type # "" /\ (SameProcess \/ event.type \in DOMAIN Out)

\* What the other process gets
Copy(event) ==
    LET schema  == Out[event.type][Wire]
        arrived == NotificationToEvent(EventToNotification(event, schema, Serialize(event.type, event.data)))
    IN  Converted(arrived, In[schema][Type], Deserialize(In[schema][Type], arrived.data))

\* publish() puts the event in the object at a place; both listeners of the
\* process, or that of the other process, get it.
Publishes(event, place, otherQueue, ownQueue) ==
    LET here == [i \in DOMAIN objects \cup {place} |-> IF i = place THEN event ELSE objects[i]]
    IN  [objects |-> IF SameProcess THEN here ELSE Append(here, Copy(event)),
         other   |-> Append(otherQueue, IF SameProcess THEN place ELSE Len(here) + 1),
         own     |-> IF SameProcess THEN Append(ownQueue, place) ELSE ownQueue]

-----------------------------------------------------------------------------
(* What is assumed of the converters and of the callbacks *)

ASSUME KnownTypesAssumption == \A types \in KnownTypes : Unambiguous(types)

ConvertedTypes == {s[Type] : s \in UNION KnownTypes}

ASSUME ArgumentsAssumption ==
    \A argument \in Arguments :
        argument.type \in ConvertedTypes => Kept(argument.type, argument.data)

\* A callback does not give another call's identifier as a cause.
ASSUME CallbacksAssumption ==
    \A c \in Callbacks : \A data \in Payloads :
        LET made == c.result[data] IN
        \/ made = Itself
        \/ /\ made = Thrown \/ made.kind = "event"
           /\ made.causes \in SUBSET [sender : {"early", "late"}, number : Nat]
           /\ made.type \in ConvertedTypes => Kept(made.type, made.data)

-----------------------------------------------------------------------------
(* The caller *)

CallInit ==
    /\ callback \in Callbacks /\ known \in KnownTypes
    /\ objects = <<>> /\ calls = <<>>
    /\ serverQueue = <<>> /\ callerQueue = <<>>
    /\ inprogress = <<>> /\ answers = 0

InprogressMutexFree == \A c \in DOMAIN calls : calls[c].at # "locked"

\* RemoteServer::prepareRequestEvent, and callAsync without arguments
PrepareRequest(argument) == NewEvent(NoId, <<>>, "", {}, argument.type, argument.data)

\* RemoteMethod::call locks inprogressMutex and publishes.
PublishRequest(argument) ==
    /\ Len(calls) < MaxCalls /\ InprogressMutexFree
    /\ LET request  == WithId(WithMethod(WithScope(PrepareRequest(argument), <<"m">>), "REQUEST"),
                              "caller", Len(calls))
           place    == Len(objects) + 1
           call(at) == [at |-> at, argument |-> argument, request |-> place, reply |-> 0, got |-> NoData]
           after    == Publishes(request, place, serverQueue, callerQueue)
       IN  IF CanPublish(request)
           THEN /\ objects' = after.objects
                /\ serverQueue' = after.other /\ callerQueue' = after.own
                /\ calls' = Append(calls, call("locked"))
           ELSE /\ calls' = Append(calls, call("refused"))
                /\ objects' = Append(objects, request)
                /\ UNCHANGED <<serverQueue, callerQueue>>
    /\ UNCHANGED <<callback, known, inprogress, answers>>

\* It makes an entry for the identifier that the request has by now.
Register(c) ==
    /\ calls[c].at = "locked"
    /\ LET id == objects[calls[c].request].id IN
       inprogress' = [other \in DOMAIN inprogress \cup {id} |->
                         IF other \in DOMAIN inprogress THEN inprogress[other] ELSE c]
    /\ calls' = [calls EXCEPT ![c].at = "waiting"]
    /\ UNCHANGED <<callback, known, objects, serverQueue, callerQueue, answers>>

\* Mutated: whoever waits gets the reply.
Answered_any(event) == {id \in DOMAIN inprogress : event.causes # {}}

\* The entry that a reply is for, if there is one: that of its first cause
Answered(event) == {id \in DOMAIN inprogress : event.causes # {} /\ id = FirstCause(event)}

\* RemoteMethod::handle takes out the entry and completes its call.
HandleReply ==
    /\ callerQueue # <<>> /\ InprogressMutexFree
    /\ LET event  == objects[Head(callerQueue)]
           status == IF HasInfo(event, "rsb:error?") THEN "error" ELSE "set"
       IN  \/ /\ event.method # "REPLY" \/ Answered(event) = {}
              /\ UNCHANGED <<calls, inprogress>>
           \/ /\ event.method = "REPLY"
              /\ \E id \in Answered(event) :
                     /\ calls' = [calls EXCEPT ![inprogress[id]].at = status,
                                              ![inprogress[id]].reply = Head(callerQueue)]
                     /\ inprogress' = [other \in DOMAIN inprogress \ {id} |-> inprogress[other]]
    /\ callerQueue' = Tail(callerQueue)
    /\ UNCHANGED <<callback, known, objects, serverQueue, answers>>

\* DataFuture<void>::get waits for the reply and leaves it alone.
End(c) ==
    /\ calls[c].at = "set"
    /\ calls' = [calls EXCEPT ![c].at = "ended"]
    /\ UNCHANGED <<callback, known, objects, serverQueue, callerQueue, inprogress, answers>>

\* DataFuture::get casts the data, whatever it is, to the type that the caller
\* asks for.  The caller is taken to know the type of the reply.
GetResult(c) ==
    /\ calls[c].at = "set"
    /\ calls' = [calls EXCEPT ![c].at = "returned", ![c].got = objects[calls[c].reply].data]
    /\ UNCHANGED <<callback, known, objects, serverQueue, callerQueue, inprogress, answers>>

-----------------------------------------------------------------------------
(* The server *)

Expected(event) == callback.checks = {} \/ event.type \in callback.checks

\* The event that is published for what the callback has made of a request
ReplyEvent(request, result) ==
    LET event == IF result.kind = "request" THEN request
                 ELSE NewEvent(NoId, <<>>, "", result.causes, result.type, result.data)
        told  == IF result.kind = "exception" THEN WithInfo(event, "rsb:error?", "") ELSE event
        reply == WithCause(WithMethod(WithScope(told, <<"m">>), "REPLY"), request.id)
    IN  WithId(reply, "server", answers)

\* LocalMethod::handle.  What publish() throws for a reply without a type, or
\* without a converter, ends in the error strategy of the listener.
HandleRequest ==
    /\ serverQueue # <<>>
    /\ LET place   == Head(serverQueue)
           request == objects[place]
           result  == callback.result[request.data]
           reply   == ReplyEvent(request, result)
           at      == IF result.kind = "request" THEN place ELSE Len(objects) + 1
           after   == Publishes(reply, at, callerQueue, Tail(serverQueue))
       IN  IF request.method = "REQUEST" /\ Expected(request) /\ CanPublish(reply)
           THEN /\ objects' = after.objects /\ answers' = answers + 1
                /\ callerQueue' = after.other /\ serverQueue' = after.own
           ELSE serverQueue' = Tail(serverQueue) /\ UNCHANGED <<objects, callerQueue, answers>>
    /\ UNCHANGED <<callback, known, calls, inprogress>>

CallNext ==
    \/ \E argument \in Arguments : PublishRequest(argument)
    \/ \E c \in DOMAIN calls : Register(c) \/ GetResult(c) \/ End(c)
    \/ HandleReply \/ HandleRequest

CallSpec == CallInit /\ [][CallNext]_callVars

-----------------------------------------------------------------------------
(* Properties *)

\* What the callback makes of the argument of a call
Outcome(call) == callback.result[call.argument.data]

\* A call returns what the callback made of its own argument, whatever way
\* request and reply went and whatever other calls there are; it fails if and
\* only if the callback has thrown, and the reply is then a text
\* (LocalServer.cpp:110, RemoteServer.cpp:116, RemoteServer.h:68).
CallIsApplication ==
    \A c \in DOMAIN calls :
        LET call == calls[c]
            made == Outcome(call) IN
        /\ call.at \in {"set", "ended", "returned", "error"} => Expected(call.argument)
        /\ call.at = "error" => made.kind = "exception" /\ objects[call.reply].type = "text"
        /\ call.at \in {"set", "ended", "returned"} => made.kind # "exception"
        /\ call.at = "returned" =>
               call.got = IF made.kind = "request" THEN call.argument.data ELSE made.data

\* Once all is quiet, a call without an answer is one whose type the callback
\* does not take, or whose reply cannot be sent, or has an earlier cause of its
\* own, or is the request itself: within a process that changes the identifier
\* which RemoteMethod::call has yet to read (LocalServer.cpp:94, 125,
\* RemoteServer.cpp:87, 99).
AnsweredOrExplained ==
    serverQueue = <<>> /\ callerQueue = <<>> =>
        \A c \in DOMAIN calls :
            calls[c].at = "waiting" =>
                \/ ~Expected(calls[c].argument)
                \/ Outcome(calls[c]).kind = "request" /\ SameProcess
                \/ Outcome(calls[c]).kind # "request" /\ ~CanPublish(Outcome(calls[c]))
                \/ \E cause \in Outcome(calls[c]).causes : Precedes(cause, [sender |-> "caller", number |-> c - 1])

\* A typed call is answered with what the callback makes of its argument, or
\* there is a reason for it not to be (LocalServer.cpp:94, RemoteServer.h:68).
CallsAnswered == CallIsApplication /\ AnsweredOrExplained
==============================================================================
